----------------------------- MODULE Kafel_proofs -----------------------------
(***************************************************************************)
(* What kafel_compile keeps while it reads a policy, collects its rules,   *)
(* normalizes them and writes their code, for every text, every table of   *)
(* system calls and every value of the limits.                             *)
(***************************************************************************)
EXTENDS Kafel, Expressions_proofs, RangeRules_proofs

-----------------------------------------------------------------------------
(* The stages of a call.                                                   *)

Collecting == {"arch", "entries", "sort", "count", "fill", "normalized",
               "generate", "action", "join"}

(* Where a step of normalize_rules leads from and to.                      *)
LEMMA NormalizeStages ==
  ASSUME Normalize
  PROVE  /\ stage \in {"sort", "count", "fill"}
         /\ stage' \in {"count", "fill", "normalized"}
BY DEF Normalize, NormalizeNothing, SortRules, SameCall, ExtendRange, KeepNext, StretchPrev,
       StretchCur, FillFreed, CountGap, Gap, Counting, Ends, MoveUp, FillHole, Filling, FillFirst

(* Where a step of generate_rules leads from and to.                       *)
LEMMA GenerateStages ==
  ASSUME GenerateRules
  PROVE  /\ stage \in {"generate", "action", "join"}
         /\ stage' \in {"generate", "action", "join"}
BY DEF GenerateRules, GenerateAction, PlaceRange, JoinEqual, AddSubtree, JoinRest

(* What belongs to the text is read and changed only while it is parsed.   *)
LEMMA AfterParsing ==
  ASSUME Next, ~CompileText
  PROVE  /\ UNCHANGED <<source, compiles, buffers, includes, seen, constants>>
         /\ \/ /\ stage \notin {"idle", "parse", "done"}
               /\ stage' \in Collecting \cup {"begin"} /\ UNCHANGED result
            \/ /\ stage \in {"validate", "arch"}
               /\ stage' = "done" /\ result' \in {"reference", "size", "ok"}
            \/ UNCHANGED vars /\ stage = "done"
<1>1. CASE Validate BY <1>1 DEF Collecting, Validate, Finish
<1>2. CASE BeginCode BY <1>2 DEF Collecting, BeginCode
<1>3. CASE BeginArch BY <1>3 DEF Collecting, BeginArch
<1>4. CASE CollectRules
  BY <1>4 DEF Collecting, CollectRules, LeaveBody, UsePolicy, ActionEntry, RulesComplete
<1>5. CASE NormalizeRules BY <1>5, NormalizeStages DEF Collecting, NormalizeRules, frontVars
<1>6. CASE BeginRules BY <1>6 DEF Collecting, BeginRules, frontVars
<1>7. CASE GenerateCode BY <1>7, GenerateStages DEF Collecting, GenerateCode, frontVars
<1>8. CASE FinishArch BY <1>8 DEF Collecting, FinishArch, frontVars
<1>9. CASE FinishCode BY <1>9 DEF Collecting, FinishCode, Finish
<1>10. CASE Returned BY <1>10 DEF Collecting, Returned, vars, frontVars, normalVars
<1> QED BY <1>1, <1>2, <1>3, <1>4, <1>5, <1>6, <1>7, <1>8, <1>9, <1>10 DEF Next

-----------------------------------------------------------------------------
(* The text and the stacks of its inputs.                                  *)

TextInv ==
  /\ IsText(source)
  /\ buffers \in Seq(Seq(Statement)) /\ includes \in Seq(STRING)
  /\ Len(includes) <= MAX_INCLUDE_DEPTH
  /\ stage = "parse" => Len(buffers) = Len(includes) + 1
  /\ stage # "done" => result = "none"
  /\ stage \notin {"parse", "done"} => includes = <<>>
  /\ result = "ok" => includes = <<>>

ResultsOK == /\ stage \in Stages
             /\ result \in {"none", "parse", "reference", "size", "ok"}
             /\ compiles \in 0..MAX_COMPILES

(* A sequence's front and its change at one place. *)
LEMMA FrontOf ==
  ASSUME NEW S, NEW s \in Seq(S), s # <<>>
  PROVE  /\ SubSeq(s, 1, Len(s) - 1) \in Seq(S)
         /\ Len(SubSeq(s, 1, Len(s) - 1)) = Len(s) - 1
         /\ Len(s) \in Nat \ {0} /\ s[Len(s)] \in S
         /\ \A k \in 1..(Len(s) - 1) : SubSeq(s, 1, Len(s) - 1)[k] = s[k]
<1>1. Len(s) \in Nat \ {0} OBVIOUS
<1>2. \A k \in 1..(Len(s) - 1) : s[k] \in S BY <1>1
<1>3. 1 \in Int /\ Len(s) - 1 \in Int BY <1>1
<1>4. /\ SubSeq(s, 1, Len(s) - 1) \in Seq(S)
      /\ Len(SubSeq(s, 1, Len(s) - 1)) = IF 1 <= Len(s) - 1 THEN (Len(s) - 1) - 1 + 1 ELSE 0
      /\ \A k \in 1..((Len(s) - 1) - 1 + 1) : SubSeq(s, 1, Len(s) - 1)[k] = s[1 + k - 1]
  BY <1>2, <1>3, SubSeqProperties
<1>5. s[Len(s)] \in S BY <1>1
<1> DEFINE f == SubSeq(s, 1, Len(s) - 1)
<1> HIDE DEF f
<1>6. \A k \in 1..(Len(s) - 1) : f[k] = s[k]
  <2> TAKE k \in 1..(Len(s) - 1)
  <2>1. k \in 1..((Len(s) - 1) - 1 + 1) /\ 1 + k - 1 = k BY <1>1
  <2>2. f[k] = s[1 + k - 1] BY <1>4, <2>1 DEF f
  <2> QED BY <2>1, <2>2
<1>7. Len(f) = Len(s) - 1
  <2>1. Len(f) = IF 1 <= Len(s) - 1 THEN (Len(s) - 1) - 1 + 1 ELSE 0 BY <1>4 DEF f
  <2>2. \A n \in Nat \ {0} : (IF 1 <= n - 1 THEN (n - 1) - 1 + 1 ELSE 0) = n - 1 OBVIOUS
  <2> QED BY <1>1, <2>1, <2>2
<1> QED BY <1>1, <1>4, <1>5, <1>6, <1>7 DEF f

(* The input on top of the stack while the parser runs.                    *)
LEMMA TopOf ==
  ASSUME TextInv, stage = "parse"
  PROVE  /\ buffers # <<>> /\ Top \in Seq(Statement)
         /\ Top # <<>> => /\ Head(Top) \in Statement /\ Rest \in Seq(Seq(Statement))
                          /\ Len(Rest) = Len(buffers)
<1>1. buffers \in Seq(Seq(Statement)) /\ Len(buffers) = Len(includes) + 1 /\ Len(includes) \in Nat
  BY DEF TextInv
<1>2. buffers # <<>> /\ Len(buffers) \in 1..Len(buffers) BY <1>1
<1>3. Top \in Seq(Statement) BY <1>1, <1>2 DEF Top
<1>4. ASSUME Top # <<>>
      PROVE  /\ Head(Top) \in Statement /\ Rest \in Seq(Seq(Statement))
             /\ Len(Rest) = Len(buffers)
  <2>1. Head(Top) \in Statement /\ Tail(Top) \in Seq(Statement) BY <1>3, <1>4
  <2>2. Rest = [buffers EXCEPT ![Len(buffers)] = Tail(Top)] BY DEF Rest, Top
  <2> QED BY <1>1, <1>2, <2>1, <2>2
<1> QED BY <1>2, <1>3, <1>4

(* What a statement of each kind is made of.                               *)
LEMMA StatementParts ==
  ASSUME NEW s \in Statement
  PROVE  /\ s.kind \in {"const", "policy", "statements", "default", "include"}
         /\ s.kind = "const" => s.name \in STRING /\ s.value \in Nat
         /\ s.kind = "policy" => s.name \in PolicyNames /\ s.entries \in Seq(EntrySpecs)
         /\ s.kind = "statements" => s.entries \in Seq(EntrySpecs)
         /\ s.kind = "default" => s.action \in ActionSpecs
         /\ s.kind = "include" => s.file \in STRING
BY DEF Statement

(* The stack of inputs holds statements, its depth is that of the stack of *)
(* included files but for the text itself, the constants are numbers, and  *)
(* a result stands for a call that has ended (kafel_compile,               *)
(* includes_stack).                                                        *)
THEOREM TextKept == Spec => [](TextInv /\ ResultsOK)
<1>1. Init => TextInv /\ ResultsOK
  <2> SUFFICES ASSUME Init PROVE TextInv /\ ResultsOK OBVIOUS
  <2>1. Len(includes) = 0 /\ includes \in Seq(STRING) /\ buffers \in Seq(Seq(Statement))
    BY DEF Init
  <2> QED BY <2>1, FrontendConstants DEF Init, TextInv, ResultsOK, Stages
<1>2. TextInv /\ ResultsOK /\ [Next]_vars => (TextInv /\ ResultsOK)'
  <2> SUFFICES ASSUME TextInv, ResultsOK, [Next]_vars PROVE (TextInv /\ ResultsOK)'
    OBVIOUS
  <2>1. CASE CompileText /\ Compile
    <3>1. source.main \in Seq(Statement) BY DEF TextInv, IsText
    <3>2. /\ buffers' = <<source.main>> /\ includes = <<>> /\ includes' = includes
          /\ stage' = "parse" /\ result' = "none" /\ source' = source
          /\ compiles' = compiles + 1 /\ compiles < MAX_COMPILES
      BY <2>1 DEF CompileText, Compile
    <3>3. buffers' \in Seq(Seq(Statement)) /\ Len(buffers') = 1 BY <3>1, <3>2
    <3>4. Len(includes) = 0 BY <3>2
    <3> QED BY <3>2, <3>3, <3>4, FrontendConstants DEF TextInv, ResultsOK, Stages
  <2>2. CASE CompileText /\ Parse
    <3>1. source' = source /\ stage = "parse" /\ compiles' = compiles
      BY <2>2 DEF CompileText, Parse, DefineConst, DefinePolicy, MainStatements, DefaultAction,
                  Include, EndOfInput, Reading
    <3>2. CASE GiveUp /\ includes' = includes
      BY <3>1, <3>2 DEF GiveUp, Finish, TextInv, ResultsOK, Stages
    <3>3. CASE Next1 /\ includes' = includes /\ Top # <<>>
      BY <3>1, <3>3, TopOf DEF Next1, TextInv, ResultsOK, Stages
    <3>4. CASE Include /\ ~GiveUp
      <4> DEFINE file == Head(Top).file
      <4>1. /\ Top # <<>> /\ Head(Top).kind = "include" /\ Len(includes) < MAX_INCLUDE_DEPTH
            /\ file \in DOMAIN source.files
            /\ includes' = Append(includes, file)
            /\ buffers' = Append(Rest, source.files[file])
            /\ stage' = stage /\ result' = result
        BY <3>4 DEF Include, Reading
      <4>2. /\ Rest \in Seq(Seq(Statement)) /\ Len(Rest) = Len(buffers) /\ file \in STRING
        BY <3>1, <4>1, TopOf, StatementParts
      <4>3. source.files[file] \in Seq(Statement) BY <4>1 DEF TextInv, IsText
      <4> HIDE DEF file
      <4>4. /\ includes \in Seq(STRING) /\ Len(buffers) = Len(includes) + 1
            /\ Len(includes) \in Nat
        BY <3>1 DEF TextInv
      <4>5. /\ includes' \in Seq(STRING) /\ Len(includes') = Len(includes) + 1
        BY <4>1, <4>2, <4>4
      <4>6. /\ buffers' \in Seq(Seq(Statement)) /\ Len(buffers') = Len(Rest) + 1
        BY <4>1, <4>2, <4>3
      <4>7. Len(includes') <= MAX_INCLUDE_DEPTH
        BY <4>1, <4>4, <4>5, FrontendConstants
      <4> QED BY <3>1, <4>1, <4>2, <4>4, <4>5, <4>6, <4>7 DEF TextInv, ResultsOK, Stages
    <3>5. CASE EndOfInput
      <4>1. CASE includes # <<>>
        <5>1. /\ includes' = SubSeq(includes, 1, Len(includes) - 1)
              /\ buffers' = SubSeq(buffers, 1, Len(buffers) - 1)
              /\ stage' = stage /\ result' = result
          BY <3>5, <4>1 DEF EndOfInput
        <5>2. /\ includes \in Seq(STRING) /\ buffers \in Seq(Seq(Statement)) /\ buffers # <<>>
              /\ Len(buffers) = Len(includes) + 1 /\ Len(includes) <= MAX_INCLUDE_DEPTH
          BY <3>1, TopOf DEF TextInv
        <5>3. includes' \in Seq(STRING) /\ Len(includes') = Len(includes) - 1 /\ Len(includes) \in Nat
          BY <4>1, <5>1, <5>2, FrontOf
        <5>4. buffers' \in Seq(Seq(Statement)) /\ Len(buffers') = Len(buffers) - 1
          BY <5>1, <5>2, FrontOf
        <5>5. Len(includes') <= MAX_INCLUDE_DEPTH BY <5>2, <5>3, FrontendConstants
        <5> QED BY <3>1, <5>1, <5>2, <5>3, <5>4, <5>5 DEF TextInv, ResultsOK, Stages
      <4>2. CASE includes = <<>>
        BY <3>1, <3>5, <4>2 DEF EndOfInput, Finish, TextInv, ResultsOK, Stages
      <4> QED BY <4>1, <4>2
    <3>6. CASE DefineConst BY <3>2, <3>3, <3>6 DEF DefineConst, Reading
    <3>7. CASE DefinePolicy BY <3>2, <3>3, <3>7 DEF DefinePolicy, Reading
    <3>8. CASE MainStatements BY <3>2, <3>3, <3>8 DEF MainStatements, Reading
    <3>9. CASE DefaultAction BY <3>2, <3>3, <3>9 DEF DefaultAction, Reading
    <3>10. CASE Include
      <4>1. CASE GiveUp
        BY <3>1, <3>2, <3>10, <4>1 DEF Include, GiveUp, Finish
      <4> QED BY <3>4, <3>10, <4>1
    <3> QED BY <2>2, <3>5, <3>6, <3>7, <3>8, <3>9, <3>10 DEF Parse
  <2>3. CASE Next /\ ~CompileText
    <3>1. /\ UNCHANGED <<source, compiles, buffers, includes>>
          /\ stage' \in Stages /\ stage' # "parse"
          /\ stage' \notin {"parse", "done"} => includes = <<>> /\ result' = "none"
          /\ result' = "ok" => includes = <<>>
          /\ result' \in {"none", "parse", "reference", "size", "ok"}
      BY <2>3, AfterParsing DEF TextInv, ResultsOK, Stages, Collecting, vars, normalVars, frontVars
    <3> QED BY <3>1 DEF TextInv, ResultsOK
  <2>4. CASE UNCHANGED vars
    BY <2>4 DEF vars, frontVars, normalVars, TextInv, ResultsOK
  <2> QED BY <2>1, <2>2, <2>3, <2>4 DEF CompileText
<1> QED BY <1>1, <1>2, PTL DEF Spec

(* The stack of inputs and the stack of included files go together, and    *)
(* includes nest no deeper than MAX_INCLUDE_DEPTH, whatever the files say  *)
(* (IncludesPaired).                                                       *)
THEOREM InputsPaired == Spec => []IncludesPaired
<1>1. TextInv => IncludesPaired BY DEF TextInv, IncludesPaired
<1> QED BY <1>1, TextKept, PTL

-----------------------------------------------------------------------------
(* The subtrees of generate_rules.                                         *)

(* c[k] of the m ranges done are in the first k subtrees, a subtree of     *)
(* level h has 2^h of them at least, and the levels fall, but that the two *)
(* last may be equal.                                                      *)
LevelType(N, L) == [level : Nat, nr : N, action : L]
Counts(ls, m, c) ==
  /\ c \in [0..Len(ls) -> Nat] /\ c[0] = 0 /\ c[Len(ls)] <= m
  /\ \A k \in 1..Len(ls) : c[k] >= c[k - 1] + Pow2[ls[k].level]
Falling(ls) == \A k \in 1..(Len(ls) - 1) :
                 \/ ls[k].level > ls[k + 1].level
                 \/ (k = Len(ls) - 1 /\ ls[k].level = ls[k + 1].level)
Heights(ls, m) == (\E c : Counts(ls, m, c)) /\ Falling(ls)

LevelsShape == \E N, L : levels \in Seq(LevelType(N, L))
LevelsInv ==
  /\ done \in Nat
  /\ LevelsShape
  /\ stage \in {"generate", "action", "join"} => Heights(levels, done)

(* Subtrees of falling heights make up at least a power of two of ranges.  *)
LEMMA HeightsFit ==
  ASSUME NEW N, NEW L, NEW ls \in Seq(LevelType(N, L)), NEW m \in Nat, Heights(ls, m), ls # <<>>
  PROVE  Pow2[Len(ls) - 1] <= m
<1> DEFINE n == Len(ls)
<1>1. PICK c : Counts(ls, m, c) BY DEF Heights
<1>2. n \in Nat \ {0} OBVIOUS
<1>3. /\ \A k \in 1..n : ls[k].level \in Nat
      /\ \A k \in 0..n : c[k] \in Nat
      /\ \A k \in 1..n : c[k] >= c[k - 1] + Pow2[ls[k].level]
      /\ c[n] <= m
  <2>1. \A k \in 1..n : ls[k] \in LevelType(N, L) OBVIOUS
  <2>2. \A k \in 1..n : ls[k].level \in Nat BY <2>1 DEF LevelType
  <2> QED BY <1>1, <2>2 DEF Counts
<1>4. \A k \in 1..(n - 1) : \/ ls[k].level > ls[k + 1].level
                            \/ (k = n - 1 /\ ls[k].level = ls[k + 1].level)
  BY DEF Heights, Falling
<1> HIDE DEF n
<1> DEFINE A == {d \in Nat : d < n => /\ c[n] - c[n - 1 - d] >= Pow2[d]
                                      /\ d > 0 => ls[n - d].level >= d - 1}
<1>5. 0 \in A
  <2>1. c[n] >= c[n - 1] + Pow2[ls[n].level] /\ c[n] \in Nat /\ c[n - 1] \in Nat
        /\ ls[n].level \in Nat /\ n - 1 - 0 = n - 1
    BY <1>2, <1>3
  <2>2. Pow2[ls[n].level] \in Nat \ {0} /\ Pow2[0] = 1 BY <2>1, Pow2Equations
  <2>3. c[n] - c[n - 1] >= 1
    <3> DEFINE a == c[n]
               b == c[n - 1]
               p == Pow2[ls[n].level]
    <3>1. a >= b + p /\ a \in Nat /\ b \in Nat /\ p \in Nat \ {0} BY <2>1, <2>2
    <3> HIDE DEF a, b, p
    <3>2. a - b >= 1 BY <3>1
    <3> QED BY <3>2 DEF a, b
  <2>4. c[n] - c[n - 1 - 0] >= Pow2[0]
    <3>1. c[n - 1 - 0] = c[n - 1] BY <2>1
    <3> QED BY <2>2, <2>3, <3>1
  <2> QED BY <2>4
<1>6. ASSUME NEW d \in Nat, d \in A PROVE d + 1 \in A
  <2> SUFFICES ASSUME d + 1 < n
               PROVE  /\ c[n] - c[n - 1 - (d + 1)] >= Pow2[d + 1]
                      /\ ls[n - (d + 1)].level >= (d + 1) - 1
    OBVIOUS
  <2> DEFINE k == n - (d + 1)
             h == ls[k].level
  <2>1. /\ k \in 1..n /\ k \in 1..(n - 1) /\ n - 1 - d = k /\ n - 1 - (d + 1) = k - 1
        /\ (d + 1) - 1 = d /\ k + 1 = n - d /\ (k = n - 1 <=> d = 0) /\ n - d \in 1..n
        /\ k - 1 \in 0..n /\ k \in 0..n /\ n \in 0..n
    BY <1>2
  <2>2. c[n] - c[k] >= Pow2[d] /\ (d > 0 => ls[k + 1].level >= d - 1) BY <1>6, <2>1
  <2>3. h \in Nat /\ ls[k + 1].level \in Nat BY <1>3, <2>1
  <2>4. h >= d
    <3>1. h > ls[k + 1].level \/ (d = 0 /\ h = ls[k + 1].level) BY <1>4, <2>1
    <3> QED BY <2>2, <2>3, <3>1
  <2>5. c[k] >= c[k - 1] + Pow2[h] /\ c[n] \in Nat /\ c[k] \in Nat /\ c[k - 1] \in Nat
    BY <1>3, <2>1
  <2>6. Pow2[d] <= Pow2[h] /\ Pow2[d + 1] = 2 * Pow2[d] /\ Pow2[d] \in Nat /\ Pow2[h] \in Nat
    BY <2>3, <2>4, Pow2Grows, Pow2Equations
  <2> HIDE DEF h
  <2> HIDE DEF k
  <2>7. c[n] - c[k - 1] >= Pow2[d + 1]
    <3>1. \A x, y, z, p, q \in Nat : x - y >= p /\ y >= z + q /\ p <= q => x - z >= 2 * p
      OBVIOUS
    <3>2. c[n] - c[k - 1] >= 2 * Pow2[d] BY <2>2, <2>5, <2>6, <3>1
    <3> QED BY <2>6, <3>2
  <2> QED BY <2>1, <2>4, <2>7 DEF h, k
<1>7. n - 1 \in A
  <2> HIDE DEF A
  <2>1. Nat \subseteq A BY <1>5, <1>6, SetInduction
  <2> QED BY <1>2, <2>1
<1>8. c[n] - c[0] >= Pow2[n - 1] /\ c[0] = 0
  <2>1. n - 1 - (n - 1) = 0 /\ n - 1 < n BY <1>2
  <2>2. c[0] = 0 BY <1>1 DEF Counts
  <2> QED BY <1>7, <2>1, <2>2
<1>9. c[n] \in Nat /\ c[n] <= m /\ Pow2[n - 1] \in Nat
  <2>1. n - 1 \in Nat /\ n \in 0..n BY <1>2
  <2> QED BY <1>3, <2>1, Pow2Equations
<1>10. Pow2[n - 1] <= m BY <1>8, <1>9
<1> QED BY <1>10 DEF n

(* No subtrees are of falling heights.                                     *)
LEMMA HeightsEmpty == ASSUME NEW m \in Nat PROVE Heights(<<>>, m)
<1>1. Counts(<<>>, m, [k \in {0} |-> 0]) BY DEF Counts
<1>2. Falling(<<>>) BY DEF Falling
<1> QED BY <1>1, <1>2 DEF Heights

(* A rule that decides like the one above it joins its range. *)
LEMMA HeightsMore ==
  ASSUME NEW N, NEW L, NEW ls \in Seq(LevelType(N, L)), ls # <<>>, NEW m \in Nat, Heights(ls, m), NEW nr
  PROVE  /\ [ls EXCEPT ![Len(ls)].nr = nr] \in Seq(LevelType(N \cup {nr}, L))
         /\ Heights([ls EXCEPT ![Len(ls)].nr = nr], m + 1)
<1> DEFINE t == [ls EXCEPT ![Len(ls)].nr = nr]
<1>1. Len(ls) \in Nat \ {0} /\ \A k \in 1..Len(ls) : ls[k] \in LevelType(N, L) OBVIOUS
<1>2. \A k \in 1..Len(ls) : t[k] \in LevelType(N \cup {nr}, L) /\ t[k].level = ls[k].level
  BY <1>1 DEF LevelType
<1>3. t \in Seq(LevelType(N \cup {nr}, L)) /\ Len(t) = Len(ls)
  <2>1. t = [k \in 1..Len(ls) |-> t[k]] OBVIOUS
  <2>2. Len(t) = Len(ls) OBVIOUS
  <2> DEFINE T == LevelType(N \cup {nr}, L)
  <2> HIDE DEF t, T
  <2>3. \A k \in 1..Len(ls) : t[k] \in T BY <1>2 DEF T
  <2>4. t \in Seq(T) BY <1>1, <2>1, <2>3
  <2> QED BY <2>2, <2>4 DEF T
<1>4. PICK c : Counts(ls, m, c) BY DEF Heights
<1> HIDE DEF t
<1>5. Counts(t, m + 1, c)
  <2>1. c[Len(ls)] \in Nat BY <1>1, <1>4 DEF Counts
  <2> QED BY <1>2, <1>3, <1>4, <2>1 DEF Counts
<1>6. Falling(t)
  <2>1. \A k \in 1..(Len(ls) - 1) : k \in 1..Len(ls) /\ k + 1 \in 1..Len(ls) BY <1>1
  <2> QED BY <1>2, <1>3, <2>1 DEF Heights, Falling
<1> QED BY <1>3, <1>5, <1>6 DEF t, Heights

(* A rule of its own is a subtree of level 0. *)
LEMMA HeightsAppend ==
  ASSUME NEW N, NEW L, NEW ls \in Seq(LevelType(N, L)), NEW m \in Nat, Heights(ls, m), NEW nr, NEW a,
         ~(Len(ls) >= 2 /\ ls[Len(ls) - 1].level = ls[Len(ls)].level)
  PROVE  /\ Append(ls, Level(0, nr, a)) \in Seq(LevelType(N \cup {nr}, L \cup {a}))
         /\ Heights(Append(ls, Level(0, nr, a)), m + 1)
<1> DEFINE n == Len(ls)
           T == LevelType(N \cup {nr}, L \cup {a})
           x == Level(0, nr, a)
           t == Append(ls, x)
<1>1. n \in Nat /\ \A k \in 1..n : ls[k] \in LevelType(N, L) OBVIOUS
<1>2. x \in T /\ x.level = 0 /\ \A k \in 1..n : ls[k] \in T /\ ls[k].level \in Nat
  BY <1>1 DEF LevelType, Level
<1>3. /\ t \in Seq(T) /\ Len(t) = n + 1 /\ t[n + 1] = x
      /\ \A k \in 1..n : t[k] = ls[k]
  <2> HIDE DEF T, x
  <2>1. ls \in Seq(T)
    <3>1. ls = [k \in 1..n |-> ls[k]] OBVIOUS
    <3> QED BY <1>1, <1>2, <3>1
  <2> QED BY <1>2, <2>1
<1>4. PICK c : Counts(ls, m, c) BY DEF Heights
<1> DEFINE e == [k \in 0..(n + 1) |-> IF k = n + 1 THEN m + 1 ELSE c[k]]
<1> HIDE DEF t, x
<1>5. c \in [0..n -> Nat] /\ c[0] = 0 /\ c[n] <= m /\ c[n] \in Nat
      /\ \A k \in 1..n : c[k] >= c[k - 1] + Pow2[ls[k].level]
  BY <1>1, <1>4 DEF Counts
<1>6. Counts(t, m + 1, e)
  <2>1. e \in [0..(n + 1) -> Nat] /\ e[0] = 0 /\ e[n + 1] = m + 1 BY <1>1, <1>5
  <2>2. ASSUME NEW k \in 1..(n + 1) PROVE e[k] >= e[k - 1] + Pow2[t[k].level]
    <3>1. CASE k = n + 1
      <4>1. e[k] = m + 1 /\ e[k - 1] = c[n] /\ t[k].level = 0 BY <1>1, <1>2, <1>3, <3>1
      <4>2. Pow2[t[k].level] = 1 BY <4>1, Pow2Equations
      <4> QED BY <1>5, <4>1, <4>2
    <3>2. CASE k \in 1..n
      <4>1. e[k] = c[k] /\ e[k - 1] = c[k - 1] /\ t[k] = ls[k] BY <1>1, <1>3, <3>2
      <4> QED BY <1>5, <3>2, <4>1
    <3> QED BY <1>1, <3>1, <3>2
  <2> HIDE DEF e
  <2> QED BY <1>3, <2>1, <2>2 DEF Counts
<1>7. Falling(t)
  <2> SUFFICES ASSUME NEW k \in 1..n
               PROVE  t[k].level > t[k + 1].level
                      \/ (k = n /\ t[k].level = t[k + 1].level)
    BY <1>1, <1>3 DEF Falling
  <2>1. CASE k = n
    <3>1. t[k].level \in Nat /\ t[k + 1].level = 0 BY <1>1, <1>2, <1>3, <2>1
    <3> QED BY <2>1, <3>1
  <2>2. CASE k < n
    <3>1. /\ k \in 1..(n - 1) /\ k + 1 \in 1..n /\ t[k] = ls[k] /\ t[k + 1] = ls[k + 1]
          /\ (k = n - 1 => n >= 2 /\ k + 1 = n)
      BY <1>1, <1>3, <2>2
    <3>2. ls[k].level > ls[k + 1].level \/ (k = n - 1 /\ ls[k].level = ls[k + 1].level)
      BY <3>1 DEF Heights, Falling
    <3>3. ~(k = n - 1 /\ ls[k].level = ls[k + 1].level) BY <3>1
    <3> QED BY <3>1, <3>2, <3>3
  <2> QED BY <1>1, <2>1, <2>2
<1> QED BY <1>3, <1>6, <1>7 DEF t, x, Heights

(* Two subtrees are joined: those of one level to the next level, and in   *)
(* the end, when no rule is left, the last to the level of the other.      *)
LEMMA HeightsJoin ==
  ASSUME NEW N, NEW L, NEW ls \in Seq(LevelType(N, L)), NEW m \in Nat, Heights(ls, m), NEW nr, NEW a,
         Len(ls) >= 2, NEW h, nr \in N,
         \/ h = ls[Len(ls)].level + 1 /\ ls[Len(ls) - 1].level = ls[Len(ls)].level
         \/ h = ls[Len(ls) - 1].level
  PROVE  /\ Append(SubSeq(ls, 1, Len(ls) - 2), Level(h, nr, a)) \in Seq(LevelType(N, L \cup {a}))
         /\ Heights(Append(SubSeq(ls, 1, Len(ls) - 2), Level(h, nr, a)), m)
<1> DEFINE n == Len(ls)
           T == LevelType(N, L \cup {a})
           x == Level(h, nr, a)
           s == SubSeq(ls, 1, n - 2)
           t == Append(s, x)
<1>1. /\ n \in Nat /\ n >= 2 /\ n - 1 \in 1..n /\ n \in 1..n
      /\ \A k \in 1..n : ls[k] \in LevelType(N, L)
  OBVIOUS
<1>2. \A k \in 1..n : ls[k] \in T /\ ls[k].level \in Nat BY <1>1 DEF LevelType
<1>3. h \in Nat BY <1>1, <1>2
<1>4. x \in T /\ x.level = h BY <1>3 DEF LevelType, Level
<1>5. /\ s \in Seq(T) /\ Len(s) = n - 2 /\ \A k \in 1..(n - 2) : s[k] = ls[k]
  <2> HIDE DEF T
  <2>1. \A k \in 1..(n - 2) : ls[k] \in T
    <3>1. \A k \in 1..(n - 2) : k \in 1..n BY <1>1
    <3> QED BY <1>2, <3>1
  <2>2. 1 \in Int /\ n - 2 \in Int BY <1>1
  <2>3. /\ s \in Seq(T) /\ Len(s) = IF 1 <= n - 2 THEN (n - 2) - 1 + 1 ELSE 0
        /\ \A k \in 1..((n - 2) - 1 + 1) : s[k] = ls[1 + k - 1]
    BY <2>1, <2>2, SubSeqProperties
  <2> HIDE DEF s
  <2>4. \A k \in 1..(n - 2) : s[k] = ls[k]
    <3> TAKE k \in 1..(n - 2)
    <3>1. k \in 1..((n - 2) - 1 + 1) /\ 1 + k - 1 = k BY <1>1
    <3> QED BY <2>3, <3>1
  <2>5. \A y \in Nat : y >= 2 => (IF 1 <= y - 2 THEN (y - 2) - 1 + 1 ELSE 0) = y - 2 OBVIOUS
  <2> QED BY <1>1, <2>3, <2>4, <2>5
<1> HIDE DEF s, x, T
<1>6. /\ t \in Seq(T) /\ Len(t) = n - 1 /\ t[n - 1] = x
      /\ \A k \in 1..(n - 2) : t[k] = ls[k]
  <2>1. Len(t) = Len(s) + 1 /\ t[Len(s) + 1] = x /\ t \in Seq(T)
        /\ \A k \in 1..Len(s) : t[k] = s[k]
    BY <1>4, <1>5
  <2> QED BY <1>1, <1>5, <2>1
<1> HIDE DEF t
<1>7. PICK c : Counts(ls, m, c) BY DEF Heights
<1>8. c \in [0..n -> Nat] /\ c[0] = 0 /\ c[n] <= m /\ c[n] \in Nat
      /\ \A k \in 1..n : c[k] >= c[k - 1] + Pow2[ls[k].level]
  BY <1>1, <1>7 DEF Counts
<1>9. c[n] >= c[n - 2] + Pow2[h]
  <2>1. /\ c[n] >= c[n - 1] + Pow2[ls[n].level]
        /\ c[n - 1] >= c[n - 2] + Pow2[ls[n - 1].level]
        /\ c[n - 1] \in Nat /\ c[n - 2] \in Nat
    <3>1. (n - 1) - 1 = n - 2 /\ n - 1 \in 0..n /\ n - 2 \in 0..n BY <1>1
    <3> QED BY <1>1, <1>8, <3>1
  <2>2. /\ Pow2[ls[n].level] \in Nat /\ Pow2[ls[n - 1].level] \in Nat
        /\ Pow2[ls[n].level + 1] = 2 * Pow2[ls[n].level]
    BY <1>1, <1>2, Pow2Equations
  <2>5. /\ c[n] >= c[n - 2] + Pow2[ls[n - 1].level]
        /\ Pow2[ls[n - 1].level] = Pow2[ls[n].level] => c[n] >= c[n - 2] + 2 * Pow2[ls[n].level]
    <3> DEFINE x2 == c[n]
               x1 == c[n - 1]
               x0 == c[n - 2]
               p == Pow2[ls[n].level]
               q == Pow2[ls[n - 1].level]
    <3>1. x2 >= x1 + p /\ x1 >= x0 + q BY <2>1
    <3>2. x2 \in Nat /\ x1 \in Nat /\ x0 \in Nat /\ p \in Nat /\ q \in Nat BY <1>8, <2>1, <2>2
    <3> HIDE DEF x0, x1, x2, p, q
    <3>3. x2 >= x0 + q /\ (q = p => x2 >= x0 + 2 * p) BY <3>1, <3>2
    <3> QED BY <3>3 DEF x0, x2, p, q
  <2>3. CASE h = ls[n].level + 1 /\ ls[n - 1].level = ls[n].level
    <3>1. Pow2[h] = 2 * Pow2[ls[n].level] /\ Pow2[ls[n - 1].level] = Pow2[ls[n].level]
      BY <2>2, <2>3
    <3> QED BY <2>5, <3>1
  <2>4. CASE h = ls[n - 1].level
    <3>1. Pow2[h] = Pow2[ls[n - 1].level] BY <2>4
    <3> QED BY <2>5, <3>1
  <2> QED BY <2>3, <2>4
<1> DEFINE e == [k \in 0..(n - 1) |-> IF k = n - 1 THEN c[n] ELSE c[k]]
<1>10. Counts(t, m, e)
  <2>1. e \in [0..(n - 1) -> Nat] /\ e[0] = 0 /\ e[n - 1] <= m BY <1>1, <1>8
  <2>2. ASSUME NEW k \in 1..(n - 1) PROVE e[k] >= e[k - 1] + Pow2[t[k].level]
    <3>1. CASE k = n - 1
      <4>1. e[k] = c[n] /\ e[k - 1] = c[n - 2] /\ t[k].level = h
        <5>1. k - 1 = n - 2 /\ k - 1 \in 0..(n - 1) /\ k - 1 # n - 1 BY <1>1, <3>1
        <5> QED BY <1>4, <1>6, <3>1, <5>1
      <4> QED BY <1>9, <4>1
    <3>2. CASE k \in 1..(n - 2)
      <4>1. k \in 1..n /\ k # n - 1 /\ k - 1 # n - 1 /\ k - 1 \in 0..(n - 1) BY <1>1, <3>2
      <4>2. e[k] = c[k] /\ e[k - 1] = c[k - 1] /\ t[k] = ls[k] BY <1>6, <3>2, <4>1
      <4> QED BY <1>8, <4>1, <4>2
    <3> QED BY <1>1, <3>1, <3>2
  <2> HIDE DEF e
  <2> QED BY <1>1, <1>6, <2>1, <2>2 DEF Counts
<1>11. Falling(t)
  <2> SUFFICES ASSUME NEW k \in 1..(n - 2)
               PROVE  t[k].level > t[k + 1].level
                      \/ (k = n - 2 /\ t[k].level = t[k + 1].level)
    BY <1>1, <1>6 DEF Falling
  <2>1. /\ k \in 1..n /\ k + 1 \in 1..n /\ k \in 1..(n - 1) /\ k # n - 1
        /\ ls[k].level \in Nat /\ ls[k + 1].level \in Nat /\ ls[n].level \in Nat
    BY <1>1, <1>2
  <2>2. ls[k].level > ls[k + 1].level BY <2>1 DEF Heights, Falling
  <2>3. CASE k = n - 2
    <3>1. k + 1 = n - 1 /\ t[k].level = ls[k].level /\ t[k + 1].level = h
      BY <1>1, <1>4, <1>6, <2>3
    <3> DEFINE p == ls[k].level
               q == ls[k + 1].level
    <3>2. h = q \/ (h = q + 1 /\ q = ls[n].level) BY <3>1
    <3>3. p \in Nat /\ q \in Nat /\ p > q BY <2>1, <2>2
    <3> HIDE DEF p, q
    <3>4. p > h \/ p = h BY <3>2, <3>3
    <3>5. t[k].level = p /\ t[k + 1].level = h BY <3>1 DEF p
    <3> QED BY <2>3, <3>4, <3>5
  <2>4. CASE k < n - 2
    <3>1. k + 1 \in 1..(n - 2) BY <1>1, <2>4
    <3> QED BY <1>6, <2>2, <3>1
  <2> QED BY <1>1, <2>3, <2>4
<1> QED BY <1>6, <1>10, <1>11 DEF t, s, x, T, Heights

Generating == {"generate", "action", "join"}

(* The parser leaves the rest of the compiler alone.                       *)
LEMMA ParseStages ==
  ASSUME CompileText PROVE stage' \in {"parse", "validate", "done"} /\ UNCHANGED <<source, genVars>>
<1>1. UNCHANGED <<source, genVars>> BY DEF CompileText
<1>2. CASE Compile BY <1>1, <1>2 DEF Compile
<1>3. CASE Parse
  <2>1. stage = "parse"
    BY <1>3 DEF Parse, DefineConst, DefinePolicy, MainStatements, DefaultAction, Include,
                EndOfInput, Reading
  <2>2. CASE DefineConst BY <1>1, <2>1, <2>2 DEF DefineConst, GiveUp, Next1, Finish
  <2>3. CASE DefinePolicy BY <1>1, <2>1, <2>3 DEF DefinePolicy, GiveUp, Next1, Finish
  <2>4. CASE MainStatements BY <1>1, <2>1, <2>4 DEF MainStatements, GiveUp, Next1, Finish
  <2>5. CASE DefaultAction BY <1>1, <2>1, <2>5 DEF DefaultAction, GiveUp, Next1, Finish
  <2>6. CASE Include BY <1>1, <2>1, <2>6 DEF Include, GiveUp, Finish
  <2>7. CASE EndOfInput BY <1>1, <2>1, <2>7 DEF EndOfInput, Finish
  <2> QED BY <1>1, <1>3, <2>2, <2>3, <2>4, <2>5, <2>6, <2>7 DEF Parse
<1> QED BY <1>1, <1>2, <1>3 DEF CompileText

(* The subtrees are not touched but by generate_rules.                     *)
LEMMA NotGenerating ==
  ASSUME Next, ~BeginRules, ~GenerateCode
  PROVE  UNCHANGED <<levels, done, next, tasks>> /\ stage' \notin Generating
<1>1. CASE CompileText BY <1>1, ParseStages DEF Generating, genVars
<1>2. CASE Validate BY <1>2 DEF Validate, Finish, Generating, genVars
<1>3. CASE BeginCode BY <1>3 DEF BeginCode, Generating
<1>4. CASE BeginArch BY <1>4 DEF BeginArch, Generating, genVars
<1>5. CASE CollectRules
  BY <1>5 DEF CollectRules, LeaveBody, UsePolicy, ActionEntry, RulesComplete, Generating, genVars
<1>6. CASE NormalizeRules
  BY <1>6, NormalizeStages DEF NormalizeRules, frontVars, Generating, genVars
<1>7. CASE FinishArch BY <1>7 DEF FinishArch, Generating
<1>8. CASE FinishCode BY <1>8 DEF FinishCode, Finish, Generating
<1>9. CASE Returned BY <1>9 DEF Returned, vars, genVars, normalVars, Generating
<1> QED BY <1>1, <1>2, <1>3, <1>4, <1>5, <1>6, <1>7, <1>8, <1>9 DEF Next

(* Joining the last two subtrees keeps the heights falling.                *)
LEMMA JoinLastKept ==
  ASSUME LevelsInv, stage \in Generating, Len(levels) >= 2, NEW h, JoinLast(h),
         \/ h = levels[Len(levels)].level + 1
            /\ levels[Len(levels) - 1].level = levels[Len(levels)].level
         \/ h = levels[Len(levels) - 1].level
  PROVE  LevelsShape' /\ Heights(levels', done)
<1>1. PICK N, L : levels \in Seq(LevelType(N, L)) BY DEF LevelsInv, LevelsShape
<1>2. PICK nr, a : /\ nr = levels[Len(levels)].nr
                   /\ levels' = Append(SubSeq(levels, 1, Len(levels) - 2), Level(h, nr, a))
  BY DEF JoinLast
<1>3. nr \in N
  <2>1. levels[Len(levels)] \in LevelType(N, L) BY <1>1
  <2> QED BY <1>2, <2>1 DEF LevelType
<1>4. done \in Nat /\ Heights(levels, done) BY DEF LevelsInv, Generating
<1>5. levels' \in Seq(LevelType(N, L \cup {a})) /\ Heights(levels', done)
  BY <1>1, <1>2, <1>3, <1>4, HeightsJoin
<1> QED BY <1>5 DEF LevelsShape

(* While generate_rules runs, the heights of its subtrees fall from left   *)
(* to right, and the subtrees make up no more ranges than are done         *)
(* (add_level).                                                            *)
THEOREM LevelsKept == Spec => []LevelsInv
<1>1. Init => LevelsInv
  <2> SUFFICES ASSUME Init PROVE LevelsInv OBVIOUS
  <2>1. levels \in Seq(LevelType({}, {})) BY DEF Init
  <2> QED BY <2>1 DEF Init, LevelsInv, LevelsShape
<1>2. LevelsInv /\ [Next]_vars => LevelsInv'
  <2> SUFFICES ASSUME LevelsInv, [Next]_vars PROVE LevelsInv' OBVIOUS
  <2>1. CASE BeginRules
    <3>1. levels' = <<>> /\ done' = 0 BY <2>1 DEF BeginRules
    <3>2. levels' \in Seq(LevelType({}, {})) BY <3>1
    <3>3. Heights(<<>>, 0) BY HeightsEmpty
    <3> QED BY <3>1, <3>2, <3>3 DEF LevelsInv, LevelsShape
  <2>2. CASE GenerateCode
    <3>1. stage \in Generating BY <2>2, GenerateStages DEF GenerateCode, Generating
    <3>2. done \in Nat /\ LevelsShape /\ Heights(levels, done)
      BY <3>1 DEF LevelsInv, Generating
    <3>3. PICK N, L : levels \in Seq(LevelType(N, L)) BY <3>2 DEF LevelsShape
    <3>4. CASE UNCHANGED <<levels, done>> BY <3>2, <3>4 DEF LevelsInv, LevelsShape
    <3>5. CASE PlaceRange /\ levels' # levels
      <4> DEFINE nr == LastRule.first
      <4>1. levels # <<>> /\ levels' = [levels EXCEPT ![Len(levels)].nr = nr] /\ done' = done + 1
        BY <3>5 DEF PlaceRange
      <4> HIDE DEF nr
      <4>2. levels' \in Seq(LevelType(N \cup {nr}, L)) /\ Heights(levels', done + 1)
        BY <3>2, <3>3, <4>1, HeightsMore
      <4> QED BY <3>2, <4>1, <4>2 DEF LevelsInv, LevelsShape
    <3>6. CASE AddSubtree
      <4> DEFINE nr == LastRule.first
      <4>1. levels' = Append(levels, Level(0, nr, next)) /\ done' = done + 1
        BY <3>6 DEF AddSubtree
      <4>2. ~(Len(levels) >= 2 /\ levels[Len(levels) - 1].level = levels[Len(levels)].level)
        BY <3>6 DEF AddSubtree, Joinable
      <4> HIDE DEF nr
      <4>3. /\ levels' \in Seq(LevelType(N \cup {nr}, L \cup {next}))
            /\ Heights(levels', done + 1)
        BY <3>2, <3>3, <4>1, <4>2, HeightsAppend
      <4> QED BY <3>2, <4>1, <4>3 DEF LevelsInv, LevelsShape
    <3>7. CASE JoinEqual
      <4>1. /\ Len(levels) >= 2 /\ levels[Len(levels) - 1].level = levels[Len(levels)].level
            /\ JoinLast(levels[Len(levels)].level + 1) /\ done' = done
        BY <3>7 DEF JoinEqual, Joinable
      <4>2. LevelsShape' /\ Heights(levels', done) BY <3>1, <4>1, JoinLastKept
      <4> QED BY <3>2, <4>1, <4>2 DEF LevelsInv
    <3>8. CASE JoinRest
      <4>1. /\ Len(levels) >= 2
            /\ JoinLast(levels[Len(levels) - 1].level) /\ done' = done
        BY <3>8 DEF JoinRest
      <4>2. LevelsShape' /\ Heights(levels', done) BY <3>1, <4>1, JoinLastKept
      <4> QED BY <3>2, <4>1, <4>2 DEF LevelsInv
    <3>9. CASE PlaceRange /\ levels' = levels
      <4>1. Heights(levels, done + 1) /\ done' \in {done, done + 1}
        <5>1. PICK c : Counts(levels, done, c) BY <3>2 DEF Heights
        <5>2. Len(levels) \in Nat BY <3>3
        <5>3. c[Len(levels)] \in Nat BY <5>1, <5>2 DEF Counts
        <5>4. Counts(levels, done + 1, c) BY <3>2, <5>1, <5>3 DEF Counts
        <5> QED BY <3>2, <3>9, <5>4 DEF Heights, PlaceRange
      <4> QED BY <3>2, <3>9, <4>1 DEF LevelsInv, LevelsShape
    <3>10. CASE GenerateAction BY <3>4, <3>10 DEF GenerateAction
    <3> QED BY <2>2, <3>4, <3>5, <3>6, <3>7, <3>8, <3>9, <3>10 DEF GenerateCode, GenerateRules
  <2>3. CASE Next /\ ~BeginRules /\ ~GenerateCode
    BY <2>3, NotGenerating DEF LevelsInv, LevelsShape, Generating
  <2>4. CASE UNCHANGED vars
    BY <2>4 DEF vars, normalVars, genVars, LevelsInv, LevelsShape
  <2> QED BY <2>1, <2>2, <2>3, <2>4
<1> QED BY <1>1, <1>2, PTL DEF Spec

(* The subtrees that generate_rules keeps in its array number at most one  *)
(* more than log2 of the ranges that are done, however many ranges there   *)
(* are and whichever of them share their code: 33 places are enough for    *)
(* 2^32 ranges (LevelsFit).                                                *)
THEOREM SubtreesFit == Spec => []LevelsFit
<1>1. LevelsInv => LevelsFit
  BY HeightsFit DEF LevelsInv, LevelsShape, LevelsFit
<1> QED BY <1>1, LevelsKept, PTL

-----------------------------------------------------------------------------
(* The policies.  X has the expressions that may occur in them.            *)

Actions == {a[1] + a[2] : a \in {x \in ActionSpecs : AcceptsAction(x)}}

CallType == [type : {"ID"}, id : STRING] \cup [type : {"CUSTOM"}, nr : Numbers]
FilterType(X) == [syscall : CallType, declared : BOOLEAN, args : Seq(STRING), expr : X]
EntryType(X) == [type : {"USE"}, used : PolicyNames]
                \cup [type : {"ACTION"}, action : Actions, filters : Seq(FilterType(X))]
Names == PolicyNames \cup {"@main"}
PolicyType(X) == [name : Names, entries : Seq(EntryType(X))]

Named(ps, name) == \E k \in DOMAIN ps : ps[k].name = name
Distinct(ps) == \A k, m \in DOMAIN ps : ps[k].name = ps[m].name => k = m
UsesNamed(ps, entries) ==
  \A m \in DOMAIN entries : entries[m].type = "USE" => Named(ps, entries[m].used)
PoliciesOK(ps) == /\ \E X : ps \in Seq(PolicyType(X))
                  /\ Distinct(ps)
                  /\ \A k \in DOMAIN ps : UsesNamed(ps, ps[k].entries)

PolicyInv ==
  /\ \A x \in DOMAIN constants : constants[x] \in Nat
  /\ default_action \in Actions \cup {NoAction}
  /\ stage \in Collecting => default_action \in Actions /\ Registered("@main")
  /\ PoliciesOK(policies)
  /\ stage \in Collecting \cup {"begin"} => \A a \in TargetArchs : ValidReferences(Archs[a])
  /\ todo \subseteq TargetArchs
  /\ stage \in Collecting \ {"arch"} => todo # {}

(* An action is a number between NoAction and twice ACTION_TRACE.          *)
LEMMA ActionRange ==
  /\ Actions \subseteq 1..(2 * ACTION_TRACE - 1) /\ ACTION_KILL \in Actions
  /\ NoAction \notin Actions /\ ACTION_TRACE \in Nat /\ Actions \subseteq Nat \ {0}
<1>1. /\ ACTION_TRACE \in Nat /\ DATA_MAX \in Nat /\ DATA_MAX < ACTION_TRACE
      /\ \A a \in {ACTION_TRAP, ACTION_ERRNO, ACTION_TRACE} : a \in Nat \ {0} /\ a <= ACTION_TRACE
      /\ ACTION_TRACE > 5
  BY SMT DEF ACTION_TRAP, ACTION_ERRNO, ACTION_TRACE, DATA_MAX
<1>2. ASSUME NEW x \in ActionSpecs, AcceptsAction(x) PROVE x[1] + x[2] \in 1..(2 * ACTION_TRACE - 1)
  <2>1. CASE x \in (1..ACTION_BASIC_MAX) \X {0}
    <3>1. x[1] \in 1..5 /\ x[2] = 0 BY <2>1 DEF ACTION_BASIC_MAX
    <3> QED BY <1>1, <3>1
  <2>2. CASE x \in {ACTION_TRAP, ACTION_ERRNO, ACTION_TRACE} \X Nat
    <3>1. x[1] \in {ACTION_TRAP, ACTION_ERRNO, ACTION_TRACE} /\ x[2] \in Nat BY <2>2
    <3>2. x[2] <= DATA_MAX BY <1>2 DEF AcceptsAction
    <3>3. x[1] \in Nat \ {0} /\ x[1] <= ACTION_TRACE BY <1>1, <3>1
    <3> QED BY <1>1, <3>1, <3>2, <3>3
  <2> QED BY <1>2, <2>1, <2>2 DEF ActionSpecs
<1>3. ACTION_KILL \in Actions
  <2>1. <<1, 0>> \in ActionSpecs BY DEF ActionSpecs, ACTION_BASIC_MAX
  <2>2. AcceptsAction(<<1, 0>>) BY <1>1 DEF AcceptsAction
  <2>3. <<1, 0>>[1] + <<1, 0>>[2] = 1 OBVIOUS
  <2> QED BY <2>1, <2>2, <2>3 DEF Actions, ACTION_KILL
<1>4. Actions \subseteq 1..(2 * ACTION_TRACE - 1) BY <1>2 DEF Actions
<1> QED BY <1>1, <1>3, <1>4 DEF NoAction

(* A sequence over a set is one over a larger set.                         *)
LEMMA SeqGrows == ASSUME NEW S, NEW T, S \subseteq T PROVE Seq(S) \subseteq Seq(T)
<1> SUFFICES ASSUME NEW s \in Seq(S) PROVE s \in Seq(T) OBVIOUS
<1>1. Len(s) \in Nat /\ s = [k \in 1..Len(s) |-> s[k]] OBVIOUS
<1>2. \A k \in 1..Len(s) : s[k] \in T OBVIOUS
<1> QED BY <1>1, <1>2

(* A policy over some expressions is one over more of them.                *)
LEMMA PolicyTypeGrows ==
  ASSUME NEW X, NEW Y, X \subseteq Y
  PROVE  /\ Seq(EntryType(X)) \subseteq Seq(EntryType(Y))
         /\ Seq(PolicyType(X)) \subseteq Seq(PolicyType(Y))
<1>1. FilterType(X) \subseteq FilterType(Y) BY DEF FilterType
<1>2. Seq(FilterType(X)) \subseteq Seq(FilterType(Y)) BY <1>1, SeqGrows
<1>3. EntryType(X) \subseteq EntryType(Y)
  <2> DEFINE F == Seq(FilterType(X))
             G == Seq(FilterType(Y))
  <2>1. F \subseteq G BY <1>2
  <2> HIDE DEF F, G
  <2>2. [type : {"ACTION"}, action : Actions, filters : F]
        \subseteq [type : {"ACTION"}, action : Actions, filters : G]
    BY <2>1
  <2> QED BY <2>2 DEF EntryType, F, G
<1>4. Seq(EntryType(X)) \subseteq Seq(EntryType(Y)) BY <1>3, SeqGrows
<1>5. PolicyType(X) \subseteq PolicyType(Y) BY <1>4 DEF PolicyType
<1> QED BY <1>4, <1>5, SeqGrows

(* What the parser makes of a list of entries. *)
LEMMA ParsedEntries ==
  ASSUME NEW es \in Seq(EntrySpecs), Accepts(es), \A x \in DOMAIN constants : constants[x] \in Nat
  PROVE  /\ \E X : Parsed(es) \in Seq(EntryType(X))
         /\ UsesNamed(policies, Parsed(es))
<1> DEFINE X == {ParsedExpr(e) : e \in {NULL} \cup ExprsTo[MAX_EXPRESSION_DEPTH + 1]}
<1>1. ASSUME NEW c \in SyscallIds PROVE ParsedCall(c) \in CallType
  <2>1. \A n \in Nat : n % (MAX_SYSCALL_NR + 1) \in Numbers BY MaxSyscallNr DEF Numbers
  <2>2. \A n \in Numbers : ByNumber(n) \in CallType BY DEF ByNumber, CallType
  <2>3. CASE c.type = "CUSTOM"
    <3>1. c.nr \in Nat BY <2>3 DEF SyscallIds
    <3> QED BY <2>1, <2>2, <2>3, <3>1 DEF ParsedCall
  <2>4. CASE c.type # "CUSTOM"
    <3>1. c \in CallType BY <2>4 DEF SyscallIds, CallType
    <3>2. CASE c.id \in DOMAIN constants BY <2>1, <2>2, <2>4, <3>2 DEF ParsedCall
    <3>3. CASE c.id \notin DOMAIN constants BY <2>4, <3>1, <3>3 DEF ParsedCall
    <3> QED BY <3>2, <3>3
  <2> QED BY <2>3, <2>4
<1>2. ASSUME NEW f \in FilterSpecs PROVE ParsedFilter(f) \in FilterType(X)
  <2>1. /\ f = [syscall |-> f.syscall, declared |-> f.declared, args |-> f.args, expr |-> f.expr]
        /\ f.syscall \in SyscallIds /\ f.declared \in BOOLEAN /\ f.args \in Seq(STRING)
        /\ f.expr \in {NULL} \cup ExprsTo[MAX_EXPRESSION_DEPTH + 1]
    BY DEF FilterSpecs
  <2>2. ParsedFilter(f) = [syscall |-> ParsedCall(f.syscall), declared |-> f.declared,
                           args |-> f.args, expr |-> ParsedExpr(f.expr)]
    <3> DEFINE g == [f EXCEPT !.syscall = ParsedCall(f.syscall)]
    <3>1. /\ g = [syscall |-> ParsedCall(f.syscall), declared |-> f.declared, args |-> f.args,
                   expr |-> f.expr]
      BY <2>1
    <3>2. ParsedFilter(f) = [g EXCEPT !.expr = ParsedExpr(f.expr)]
      BY DEF ParsedFilter
    <3> HIDE DEF g
    <3> QED BY <3>1, <3>2
  <2>3. ParsedExpr(f.expr) \in X BY <2>1
  <2> HIDE DEF X
  <2> QED BY <1>1, <2>1, <2>2, <2>3 DEF FilterType
<1> HIDE DEF X
<1>3. ASSUME NEW e \in EntrySpecs, AcceptsEntry(e) PROVE ParsedEntry(e) \in EntryType(X)
  <2>1. CASE e.type = "USE"
    BY <2>1 DEF EntrySpecs, ParsedEntry, EntryType
  <2>2. CASE e.type # "USE"
    <3>1. /\ e.action \in ActionSpecs /\ e.filters \in Seq(FilterSpecs)
          /\ AcceptsAction(e.action)
      BY <1>3, <2>2 DEF EntrySpecs, AcceptsEntry
    <3>2. e.action[1] + e.action[2] \in Actions BY <3>1 DEF Actions
    <3> DEFINE fs == [k \in DOMAIN e.filters |-> ParsedFilter(e.filters[k])]
    <3>3. fs \in Seq(FilterType(X))
      <4>1. Len(e.filters) \in Nat /\ DOMAIN e.filters = 1..Len(e.filters) BY <3>1
      <4>2. \A k \in 1..Len(e.filters) : ParsedFilter(e.filters[k]) \in FilterType(X)
        BY <1>2, <3>1
      <4> QED BY <4>1, <4>2
    <3>4. ParsedEntry(e) = [type |-> "ACTION", action |-> e.action[1] + e.action[2], filters |-> fs]
      BY <2>2 DEF ParsedEntry
    <3> HIDE DEF fs
    <3> QED BY <3>2, <3>3, <3>4 DEF EntryType
  <2> QED BY <2>1, <2>2
<1>4. Len(es) \in Nat /\ DOMAIN es = 1..Len(es) /\ \A k \in 1..Len(es) : es[k] \in EntrySpecs
  OBVIOUS
<1>5. \A k \in 1..Len(es) : AcceptsEntry(es[k]) BY <1>4 DEF Accepts
<1>6. \A k \in 1..Len(es) : ParsedEntry(es[k]) \in EntryType(X) BY <1>3, <1>4, <1>5
<1>7. Parsed(es) \in Seq(EntryType(X)) BY <1>4, <1>6 DEF Parsed
<1>8. UsesNamed(policies, Parsed(es))
  <2> SUFFICES ASSUME NEW k \in DOMAIN Parsed(es), Parsed(es)[k].type = "USE"
               PROVE  Named(policies, Parsed(es)[k].used)
    BY DEF UsesNamed
  <2>1. k \in 1..Len(es) /\ Parsed(es)[k] = ParsedEntry(es[k]) BY <1>4 DEF Parsed
  <2>2. es[k].type = "USE" BY <2>1 DEF ParsedEntry
  <2>3. Registered(es[k].used) BY <1>5, <2>1, <2>2 DEF AcceptsEntry
  <2> QED BY <2>1, <2>2, <2>3 DEF ParsedEntry, Registered, Named
<1> QED BY <1>7, <1>8

(* Registering a policy of a new name keeps the policies in order.         *)
LEMMA PolicyAdded ==
  ASSUME NEW ps, PoliciesOK(ps), NEW name \in Names, ~Named(ps, name),
         NEW X, NEW es \in Seq(EntryType(X)), UsesNamed(ps, es)
  PROVE  LET qs == Append(ps, [name |-> name, entries |-> es])
         IN /\ PoliciesOK(qs) /\ Named(qs, name) /\ \A x : Named(ps, x) => Named(qs, x)
            /\ DOMAIN qs = DOMAIN ps \cup {Len(ps) + 1}
            /\ \A k \in DOMAIN ps : qs[k] = ps[k]
            /\ qs[Len(ps) + 1] = [name |-> name, entries |-> es]
<1> DEFINE p == [name |-> name, entries |-> es]
           qs == Append(ps, p)
<1>1. PICK Y : ps \in Seq(PolicyType(Y)) BY DEF PoliciesOK
<1> DEFINE Z == X \cup Y
<1>2. ps \in Seq(PolicyType(Z)) /\ es \in Seq(EntryType(Z))
  BY <1>1, PolicyTypeGrows, X \subseteq Z, Y \subseteq Z
<1> HIDE DEF Z
<1>3. p \in PolicyType(Z) BY <1>2 DEF PolicyType
<1>4. p.name = name /\ p.entries = es OBVIOUS
<1> HIDE DEF p
<1>5. /\ qs \in Seq(PolicyType(Z)) /\ DOMAIN ps = 1..Len(ps) /\ DOMAIN qs = 1..(Len(ps) + 1)
      /\ Len(ps) \in Nat /\ qs[Len(ps) + 1] = p /\ \A k \in 1..Len(ps) : qs[k] = ps[k]
  BY <1>2, <1>3
<1>6. DOMAIN qs = DOMAIN ps \cup {Len(ps) + 1} BY <1>5
<1> HIDE DEF qs
<1>7. Named(qs, name) /\ \A x : Named(ps, x) => Named(qs, x) BY <1>4, <1>5, <1>6 DEF Named
<1>8. Distinct(qs)
  <2>1. Distinct(ps) BY DEF PoliciesOK
  <2>2. \A k \in DOMAIN ps : ps[k].name # name BY DEF Named
  <2> QED BY <1>4, <1>5, <1>6, <2>1, <2>2 DEF Distinct
<1>9. \A k \in DOMAIN qs : UsesNamed(qs, qs[k].entries)
  <2>1. \A k \in DOMAIN ps : UsesNamed(ps, ps[k].entries) BY DEF PoliciesOK
  <2>2. \A k \in DOMAIN qs : UsesNamed(ps, qs[k].entries) BY <1>4, <1>5, <1>6, <2>1
  <2> QED BY <1>7, <2>2 DEF UsesNamed
<1>10. PoliciesOK(qs) BY <1>5, <1>8, <1>9 DEF PoliciesOK
<1> QED BY <1>5, <1>6, <1>7, <1>10 DEF qs, p

(* Further statements at the end of @main keep the policies in order.      *)
LEMMA MainExtended ==
  ASSUME PoliciesOK(policies), Registered("@main"),
         NEW es, \E X : Parsed(es) \in Seq(EntryType(X)), UsesNamed(policies, Parsed(es))
  PROVE  PoliciesOK(AddEntries(es))
<1> DEFINE more == Parsed(es)
           qs == AddEntries(es)
           both(k) == policies[k].entries \o more
<1>1. PICK X : more \in Seq(EntryType(X)) OBVIOUS
<1>2. PICK Y : policies \in Seq(PolicyType(Y)) BY DEF PoliciesOK
<1> DEFINE Z == X \cup Y
<1>3. policies \in Seq(PolicyType(Z)) /\ more \in Seq(EntryType(Z))
  BY <1>1, <1>2, PolicyTypeGrows, X \subseteq Z, Y \subseteq Z
<1> HIDE DEF Z, more
<1>4. Len(policies) \in Nat /\ DOMAIN policies = 1..Len(policies) BY <1>3
<1>5. ASSUME NEW k \in DOMAIN policies
      PROVE  /\ policies[k] = [name |-> policies[k].name, entries |-> policies[k].entries]
             /\ policies[k].name \in Names /\ policies[k].entries \in Seq(EntryType(Z))
  <2>1. policies[k] \in PolicyType(Z) BY <1>3, <1>4
  <2> QED BY <2>1 DEF PolicyType
<1>6. qs = [k \in DOMAIN policies |-> IF policies[k].name = "@main"
                                      THEN [policies[k] EXCEPT !.entries = @ \o more]
                                      ELSE policies[k]]
  BY DEF AddEntries, more
<1> HIDE DEF qs
<1>7. ASSUME NEW k \in DOMAIN policies
      PROVE  /\ k \in DOMAIN qs /\ qs[k].name = policies[k].name /\ qs[k] \in PolicyType(Z)
             /\ qs[k].entries \in {policies[k].entries, both(k)}
  <2>1. CASE policies[k].name = "@main"
    <3>1. qs[k] = [name |-> policies[k].name, entries |-> both(k)]
      <4>1. qs[k] = [policies[k] EXCEPT !.entries = both(k)] BY <1>6, <2>1
      <4> HIDE DEF both
      <4> QED BY <1>5, <4>1
    <3>2. both(k) \in Seq(EntryType(Z)) BY <1>3, <1>5
    <3> HIDE DEF both
    <3> QED BY <1>5, <1>6, <3>1, <3>2 DEF PolicyType
  <2>2. CASE policies[k].name # "@main"
    <3>1. qs[k] = policies[k] BY <1>6, <2>2
    <3>2. k \in DOMAIN qs BY <1>6
    <3>3. policies[k] \in PolicyType(Z) BY <1>3, <1>4
    <3> QED BY <3>1, <3>2, <3>3
  <2> QED BY <2>1, <2>2
<1>8. DOMAIN qs = DOMAIN policies BY <1>6
<1>9. qs \in Seq(PolicyType(Z))
  <2>1. qs = [k \in 1..Len(policies) |-> qs[k]] BY <1>4, <1>6
  <2>2. \A k \in 1..Len(policies) : qs[k] \in PolicyType(Z) BY <1>4, <1>7
  <2> QED BY <1>4, <2>1, <2>2
<1>10. Distinct(qs)
  <2>1. Distinct(policies) BY DEF PoliciesOK
  <2> QED BY <1>7, <1>8, <2>1 DEF Distinct
<1>11. \A x : Named(policies, x) => Named(qs, x) BY <1>7, <1>8 DEF Named
<1>12. ASSUME NEW k \in DOMAIN qs PROVE UsesNamed(qs, qs[k].entries)
  <2>1. UsesNamed(policies, policies[k].entries) BY <1>8 DEF PoliciesOK
  <2>2. UsesNamed(policies, more) BY DEF more
  <2>3. UsesNamed(policies, both(k))
    <3> SUFFICES ASSUME NEW m \in DOMAIN both(k), both(k)[m].type = "USE"
                 PROVE  Named(policies, both(k)[m].used)
      BY DEF UsesNamed
    <3> DEFINE es1 == policies[k].entries
    <3>1. es1 \in Seq(EntryType(Z)) BY <1>5, <1>8
    <3>2. /\ Len(es1) \in Nat /\ Len(more) \in Nat /\ m \in 1..(Len(es1) + Len(more))
          /\ DOMAIN es1 = 1..Len(es1) /\ DOMAIN more = 1..Len(more)
          /\ both(k)[m] = IF m <= Len(es1) THEN es1[m] ELSE more[m - Len(es1)]
      BY <1>3, <3>1
    <3> HIDE DEF both, es1
    <3>3. CASE m <= Len(es1)
      <4>1. m \in DOMAIN es1 /\ both(k)[m] = es1[m] BY <3>2, <3>3
      <4> QED BY <2>1, <4>1 DEF UsesNamed, es1
    <3>4. CASE m > Len(es1)
      <4>1. m - Len(es1) \in DOMAIN more /\ both(k)[m] = more[m - Len(es1)] BY <3>2, <3>4
      <4> QED BY <2>2, <4>1 DEF UsesNamed
    <3> QED BY <3>2, <3>3, <3>4
  <2>4. UsesNamed(policies, qs[k].entries) BY <1>7, <1>8, <2>1, <2>3
  <2> QED BY <1>11, <2>4 DEF UsesNamed
<1> QED BY <1>9, <1>10, <1>12 DEF PoliciesOK, qs

(* A call begins with no policies.                                         *)
LEMMA NoPolicies == PoliciesOK(<<>>)
<1>1. <<>> \in Seq(PolicyType({})) OBVIOUS
<1> QED BY <1>1 DEF PoliciesOK, Distinct

(* The first statements register @main.                                    *)
LEMMA MainStarted ==
  ASSUME PoliciesOK(policies), ~Registered("@main"),
         NEW es, \E X : es \in Seq(EntryType(X)), UsesNamed(policies, es)
  PROVE  LET qs == Append(policies, [name |-> "@main", entries |-> es])
         IN /\ PoliciesOK(qs) /\ Named(qs, "@main")
            /\ DOMAIN qs = DOMAIN policies \cup {Len(policies) + 1}
            /\ \A k \in DOMAIN policies : qs[k] = policies[k]
            /\ qs[Len(policies) + 1] = [name |-> "@main", entries |-> es]
<1> DEFINE main == "@main"
<1>1. ~Named(policies, main) BY DEF Registered, Named
<1>4. main \in Names BY DEF Names
<1>2. PICK X : es \in Seq(EntryType(X)) OBVIOUS
<1> HIDE DEF main
<1>3. LET qs == Append(policies, [name |-> main, entries |-> es])
      IN /\ PoliciesOK(qs) /\ Named(qs, main)
         /\ DOMAIN qs = DOMAIN policies \cup {Len(policies) + 1}
         /\ \A k \in DOMAIN policies : qs[k] = policies[k]
         /\ qs[Len(policies) + 1] = [name |-> main, entries |-> es]
  BY <1>1, <1>2, <1>4, PolicyAdded
<1> QED BY <1>3 DEF main

(* A step of the parser keeps constants, default and policies in order.    *)
LEMMA ParseKeepsPolicies ==
  ASSUME TextInv, PolicyInv, Parse, source' = source
  PROVE  /\ \A x \in DOMAIN constants' : constants'[x] \in Nat
         /\ default_action' \in Actions \cup {NoAction}
         /\ PoliciesOK(policies')
<1>1. stage = "parse"
  BY DEF Parse, DefineConst, DefinePolicy, MainStatements, DefaultAction, Include, EndOfInput,
         Reading
<1>2. /\ \A x \in DOMAIN constants : constants[x] \in Nat
      /\ default_action \in Actions \cup {NoAction}
      /\ PoliciesOK(policies)
  BY DEF PolicyInv
<1> DEFINE s == Head(Top)
<1>3. Top # <<>> => s \in Statement BY <1>1, TopOf
<1> HIDE DEF s
<1>4. CASE DefineConst
  <2>1. Top # <<>> /\ s.kind = "const" BY <1>4 DEF DefineConst, Reading, s
  <2>2. s.value \in Nat BY <1>3, <2>1, StatementParts
  <2>3. /\ default_action' = default_action /\ policies' = policies
        /\ \/ constants' = constants
           \/ constants' = [x \in DOMAIN constants \cup {s.name} |->
                              IF x = s.name THEN s.value ELSE constants[x]]
    BY <1>4 DEF DefineConst, s
  <2> QED BY <1>2, <2>2, <2>3
<1>5. CASE DefinePolicy
  <2>1. Top # <<>> /\ s.kind = "policy" BY <1>5 DEF DefinePolicy, Reading, s
  <2>2. s.name \in PolicyNames /\ s.entries \in Seq(EntrySpecs) BY <1>3, <2>1, StatementParts
  <2>3. default_action' = default_action /\ constants' = constants BY <1>5 DEF DefinePolicy
  <2>4. CASE Accepts(s.entries) /\ ~Registered(s.name)
    <3>1. policies' = Append(policies, [name |-> s.name, entries |-> Parsed(s.entries)])
      BY <1>5, <2>4 DEF DefinePolicy, s
    <3>2. /\ \E X : Parsed(s.entries) \in Seq(EntryType(X))
          /\ UsesNamed(policies, Parsed(s.entries))
      BY <1>2, <2>2, <2>4, ParsedEntries
    <3>3. s.name \in Names /\ ~Named(policies, s.name)
      BY <2>2, <2>4 DEF Names, Registered, Named
    <3>4. PoliciesOK(policies') BY <1>2, <3>1, <3>2, <3>3, PolicyAdded
    <3> QED BY <1>2, <2>3, <3>4
  <2>5. CASE ~(Accepts(s.entries) /\ ~Registered(s.name))
    <3>1. policies' = policies BY <1>5, <2>5 DEF DefinePolicy, s
    <3> QED BY <1>2, <2>3, <3>1
  <2> QED BY <2>4, <2>5
<1>6. CASE MainStatements
  <2>1. Top # <<>> /\ s.kind = "statements" BY <1>6 DEF MainStatements, Reading, s
  <2>2. s.entries \in Seq(EntrySpecs) BY <1>3, <2>1, StatementParts
  <2>3. default_action' = default_action /\ constants' = constants BY <1>6 DEF MainStatements
  <2>4. CASE Accepts(s.entries)
    <3>1. policies' = AddEntries(s.entries) BY <1>6, <2>4 DEF MainStatements, s
    <3>2. /\ \E X : Parsed(s.entries) \in Seq(EntryType(X))
          /\ UsesNamed(policies, Parsed(s.entries))
      BY <1>2, <2>2, <2>4, ParsedEntries
    <3>3. CASE Registered("@main")
      <4>1. PoliciesOK(policies') BY <1>2, <3>1, <3>2, <3>3, MainExtended
      <4> QED BY <1>2, <2>3, <4>1
    <3>4. CASE ~Registered("@main")
      <4>1. policies' = Append(policies, [name |-> "@main", entries |-> Parsed(s.entries)])
        BY <3>1, <3>4 DEF AddEntries
      <4>2. PoliciesOK(policies') BY <1>2, <3>2, <3>4, <4>1, MainStarted
      <4> QED BY <1>2, <2>3, <4>2
    <3> QED BY <3>3, <3>4
  <2>5. CASE ~Accepts(s.entries)
    <3>1. policies' = policies BY <1>6, <2>5 DEF MainStatements, s
    <3> QED BY <1>2, <2>3, <3>1
  <2> QED BY <2>4, <2>5
<1>7. CASE DefaultAction
  <2>1. Top # <<>> /\ s.kind = "default" BY <1>7 DEF DefaultAction, Reading, s
  <2>2. s.action \in ActionSpecs BY <1>3, <2>1, StatementParts
  <2>3. /\ policies' = policies /\ constants' = constants
        /\ \/ default_action' = default_action
           \/ AcceptsAction(s.action) /\ default_action' = s.action[1] + s.action[2]
    BY <1>7 DEF DefaultAction, s
  <2>4. AcceptsAction(s.action) => s.action[1] + s.action[2] \in Actions BY <2>2 DEF Actions
  <2> QED BY <1>2, <2>3, <2>4
<1>8. CASE Include BY <1>2, <1>8 DEF Include
<1>9. CASE EndOfInput BY <1>2, <1>9 DEF EndOfInput
<1> QED BY <1>4, <1>5, <1>6, <1>7, <1>8, <1>9 DEF Parse

(* The lowest bit of a set of bits is one of them.                         *)
LEMMA LowestIn == ASSUME NEW T, T \subseteq Nat, T # {} PROVE Lowest(T) \in T
<1>1. PICK x \in T : \A y \in T : ~ (<<y, x>> \in OpToRel(<, Nat))
  BY NatLessThanWellFounded, WFMin
<1>2. \A y \in T : x <= y
  <2> TAKE y \in T
  <2>1. x \in Nat /\ y \in Nat OBVIOUS
  <2>2. ~(y < x) BY <1>1, <2>1 DEF OpToRel
  <2> QED BY <2>1, <2>2
<1> QED BY <1>2 DEF Lowest

(* The bits of the target architectures number entries of Archs.           *)
LEMMA ArchNumbers == TargetArchs \subseteq DOMAIN Archs /\ DOMAIN Archs \subseteq Nat
<1>1. DOMAIN Archs = 1..7 BY DEF Archs
<1> QED BY <1>1 DEF TargetArchs

(* Every policy has a name of its own and uses none but registered ones,   *)
(* and every constant and every action in use is a number in its range     *)
(* (the parser's checks).                                                  *)
THEOREM PoliciesKept == Spec => []PolicyInv
<1>1. Init => PolicyInv
  <2> SUFFICES ASSUME Init PROVE PolicyInv OBVIOUS
  <2>1. stage = "idle" /\ policies = <<>> /\ constants = <<>> /\ default_action = NoAction /\ todo = {}
    BY DEF Init
  <2> QED BY <2>1, NoPolicies DEF PolicyInv, Collecting
<1>2. TextInv /\ PolicyInv /\ [Next]_vars => PolicyInv'
  <2> SUFFICES ASSUME TextInv, PolicyInv, [Next]_vars PROVE PolicyInv' OBVIOUS
  <2>1. /\ \A x \in DOMAIN constants : constants[x] \in Nat
        /\ default_action \in Actions \cup {NoAction}
        /\ stage \in Collecting => default_action \in Actions /\ Registered("@main")
        /\ PoliciesOK(policies)
        /\ stage \in Collecting \cup {"begin"} => \A a \in TargetArchs : ValidReferences(Archs[a])
        /\ todo \subseteq TargetArchs
        /\ stage \in Collecting \ {"arch"} => todo # {}
    BY DEF PolicyInv
  <2>2. CASE CompileText
    <3>1. /\ stage' \notin Collecting \cup {"begin"} /\ todo' = todo /\ TargetArchs' = TargetArchs
      BY <2>2, ParseStages DEF Collecting, genVars, TargetArchs
    <3>2. CASE Compile
      <4>1. policies' = <<>> /\ constants' = <<>> /\ default_action' = NoAction
        BY <3>2 DEF Compile
      <4> QED BY <2>1, <3>1, <4>1, NoPolicies DEF PolicyInv
    <3>3. CASE Parse
      <4>1. /\ \A x \in DOMAIN constants' : constants'[x] \in Nat
            /\ default_action' \in Actions \cup {NoAction}
            /\ PoliciesOK(policies')
        BY <2>2, <3>3, ParseKeepsPolicies DEF CompileText
      <4> QED BY <2>1, <3>1, <4>1 DEF PolicyInv
    <3> QED BY <2>2, <3>2, <3>3 DEF CompileText
  <2>3. CASE BeginCode
    <3>1. /\ stage = "begin" /\ todo' = TargetArchs /\ source' = source /\ constants' = constants
          /\ stage' = "arch" /\ default_action' \in Actions
      BY <2>1, <2>3, ActionRange DEF BeginCode
    <3>2. TargetArchs' = TargetArchs BY <3>1 DEF TargetArchs
    <3>3. CASE Registered("@main")
      <4>1. policies' = policies BY <2>3, <3>3 DEF BeginCode
      <4>2. Registered("@main")' BY <3>3, <4>1 DEF Registered
      <4>3. \A a \in TargetArchs : ValidReferences(Archs[a])'
        BY <2>1, <3>1, <4>1 DEF ValidReferences
      <4> QED BY <2>1, <3>1, <3>2, <4>1, <4>2, <4>3 DEF PolicyInv
    <3>4. CASE ~Registered("@main")
      <4>1. policies' = Append(policies, [name |-> "@main", entries |-> <<>>])
        BY <2>3, <3>4 DEF BeginCode
      <4>2. <<>> \in Seq(EntryType({})) /\ UsesNamed(policies, <<>>) BY DEF UsesNamed
      <4>4. /\ PoliciesOK(policies') /\ Named(policies', "@main")
            /\ DOMAIN policies' = DOMAIN policies \cup {Len(policies) + 1}
            /\ \A k \in DOMAIN policies : policies'[k] = policies[k]
            /\ policies'[Len(policies) + 1] = [name |-> "@main", entries |-> <<>>]
        BY <2>1, <3>4, <4>1, <4>2, MainStarted
      <4>5. Registered("@main")' BY <4>4 DEF Registered, Named
      <4>6. ASSUME NEW a \in TargetArchs PROVE ValidReferences(Archs[a])'
        <5>1. ValidReferences(Archs[a]) BY <2>1, <3>1
        <5>2. \A p \in DOMAIN policies' :
                policies'[p].entries = <<>> \/ (p \in DOMAIN policies /\ policies'[p] = policies[p])
          BY <4>4
        <5> QED BY <5>1, <5>2 DEF ValidReferences
      <4> QED BY <2>1, <3>1, <3>2, <4>4, <4>5, <4>6 DEF PolicyInv
    <3> QED BY <3>3, <3>4
  <2>4. CASE Next /\ ~CompileText /\ ~BeginCode
    <3>1. /\ UNCHANGED <<source, constants, policies, default_action>>
          /\ todo' \subseteq todo
          /\ stage' \in Collecting => stage \in Collecting
          /\ stage' = "begin" => \A a \in TargetArchs : ValidReferences(Archs[a])
          /\ stage' \in Collecting \ {"arch"} => todo' # {}
      <4>1. CASE Validate
        BY <2>4, <4>1 DEF Validate, Finish, genVars, Collecting
      <4>2. CASE BeginArch BY <4>2 DEF BeginArch, genVars, Collecting
      <4>3. CASE CollectRules
        BY <2>1, <4>3 DEF CollectRules, LeaveBody, UsePolicy, ActionEntry, RulesComplete, genVars,
                          Collecting
      <4>4. CASE NormalizeRules
        BY <2>1, <4>4, NormalizeStages DEF NormalizeRules, frontVars, genVars, Collecting
      <4>5. CASE BeginRules
        BY <2>1, <4>5 DEF BeginRules, frontVars, Collecting
      <4>6. CASE GenerateCode
        BY <2>1, <4>6, GenerateStages DEF GenerateCode, frontVars, Collecting
      <4>7. CASE FinishArch BY <2>1, <4>7 DEF FinishArch, frontVars, Collecting
      <4>8. CASE FinishCode BY <2>1, <4>8 DEF FinishCode, Finish, Collecting
      <4>9. CASE Returned
        BY <2>1, <4>9 DEF Returned, vars, normalVars, frontVars, genVars, Collecting
      <4> QED BY <2>4, <4>1, <4>2, <4>3, <4>4, <4>5, <4>6, <4>7, <4>8, <4>9 DEF Next
    <3>2. TargetArchs' = TargetArchs BY <3>1 DEF TargetArchs
    <3>3. Registered("@main")' <=> Registered("@main") BY <3>1 DEF Registered
    <3>4. \A a \in TargetArchs : ValidReferences(Archs[a])' <=> ValidReferences(Archs[a])
      BY <3>1 DEF ValidReferences
    <3> QED BY <2>1, <3>1, <3>2, <3>3, <3>4 DEF PolicyInv
  <2>5. CASE UNCHANGED vars
    <3>1. UNCHANGED <<source, constants, policies, default_action, todo, stage>>
      BY <2>5 DEF vars, normalVars, frontVars, genVars
    <3> QED BY <2>1, <3>1 DEF PolicyInv, TargetArchs, Registered, ValidReferences
  <2> QED BY <2>2, <2>3, <2>4, <2>5
<1> QED BY <1>1, <1>2, TextKept, PTL DEF Spec

-----------------------------------------------------------------------------
(* The walk through the policies.                                          *)

FrameOK(w) ==
  /\ w \in Names \X (Nat \ {0}) \X (Nat \ {0})
  /\ Registered(w[1])
  /\ w[3] > 1 => /\ w[2] <= Len(Body(w[1])) /\ Body(w[1])[w[2]].type = "ACTION"
                 /\ w[3] <= Len(Body(w[1])[w[2]].filters)
Frames == {w \in Names \X (Nat \ {0}) \X (Nat \ {0}) :
             FrameOK(w) /\ w[1] \in used \cup {"@main"}}

(* No policy is read by two frames. *)
Apart(ws) == \A d, e \in DOMAIN ws : ws[d][1] = ws[e][1] => d = e

WalkInv ==
  /\ stage # "entries" => work = <<>>
  /\ stage = "entries" => work \in Seq(Frames) /\ Apart(work) /\ used \subseteq PolicyNames

(* The entries of a registered policy are among the policies.              *)
LEMMA BodyOf ==
  ASSUME NEW name, Registered(name), PoliciesOK(policies)
  PROVE  /\ \E X : Body(name) \in Seq(EntryType(X))
         /\ \E k \in DOMAIN policies : policies[k].name = name /\ Body(name) = policies[k].entries
         /\ UsesNamed(policies, Body(name))
<1>1. PICK X : policies \in Seq(PolicyType(X)) BY DEF PoliciesOK
<1> DEFINE k == CHOOSE n \in DOMAIN policies : policies[n].name = name
<1>2. k \in DOMAIN policies /\ policies[k].name = name /\ Body(name) = policies[k].entries
  BY DEF Registered, Body
<1> HIDE DEF k
<1>3. policies[k] \in PolicyType(X) BY <1>1, <1>2
<1>4. Body(name) \in Seq(EntryType(X)) BY <1>2, <1>3 DEF PolicyType
<1>5. UsesNamed(policies, Body(name)) BY <1>2 DEF PoliciesOK
<1> QED BY <1>2, <1>4, <1>5

(* The frames below the top one stay apart from each other.                *)
LEMMA ApartSteps ==
  ASSUME NEW F, NEW ws \in Seq(F), ws # <<>>, Apart(ws), NEW x
  PROVE  LET us == SubSeq(ws, 1, Len(ws) - 1)
         IN /\ Apart(us)
            /\ x[1] = ws[Len(ws)][1] => Apart(Append(us, x))
            /\ (\A d \in DOMAIN ws : x[1] # ws[d][1]) => Apart(Append(us, x))
<1> DEFINE us == SubSeq(ws, 1, Len(ws) - 1)
           n == Len(ws)
<1>1. /\ us \in Seq(F) /\ Len(us) = n - 1 /\ n \in Nat \ {0} /\ \A k \in 1..(n - 1) : us[k] = ws[k]
  BY FrontOf
<1>2. DOMAIN us = 1..(n - 1) /\ DOMAIN ws = 1..n BY <1>1
<1> HIDE DEF us
<1>3. Apart(us) BY <1>1, <1>2 DEF Apart
<1> DEFINE ts == Append(us, x)
<1>4. /\ DOMAIN ts = 1..n /\ ts[n] = x /\ \A k \in 1..(n - 1) : ts[k] = ws[k]
  <2>1. us \in Seq(F \cup {x}) BY <1>1, SeqGrows, F \subseteq F \cup {x}
  <2>2. /\ ts \in Seq(F \cup {x}) /\ Len(ts) = Len(us) + 1 /\ ts[Len(us) + 1] = x
        /\ \A k \in 1..Len(us) : ts[k] = us[k]
    BY <2>1
  <2> HIDE DEF ts
  <2>3. DOMAIN ts = 1..Len(ts) BY <2>2
  <2> QED BY <1>1, <2>2, <2>3
<1> HIDE DEF ts
<1>5. ASSUME \A d \in 1..(n - 1) : x[1] # ws[d][1] PROVE Apart(ts)
  <2> SUFFICES ASSUME NEW d \in 1..n, NEW e \in 1..n, ts[d][1] = ts[e][1] PROVE d = e
    BY <1>4 DEF Apart
  <2>1. CASE d \in 1..(n - 1) /\ e \in 1..(n - 1)
    BY <1>2, <1>4, <2>1 DEF Apart
  <2>2. CASE d = n \/ e = n
    <3>1. (d = n \/ d \in 1..(n - 1)) /\ (e = n \/ e \in 1..(n - 1)) BY <1>1
    <3> QED BY <1>4, <1>5, <2>2, <3>1
  <2> QED BY <1>1, <2>1, <2>2
<1>6. x[1] = ws[n][1] => \A d \in 1..(n - 1) : x[1] # ws[d][1]
  <2>1. \A d \in 1..(n - 1) : d \in DOMAIN ws /\ n \in DOMAIN ws /\ d # n BY <1>1, <1>2
  <2> QED BY <2>1 DEF Apart
<1>7. (\A d \in DOMAIN ws : x[1] # ws[d][1]) => \A d \in 1..(n - 1) : x[1] # ws[d][1]
  <2>1. \A d \in 1..(n - 1) : d \in DOMAIN ws BY <1>1, <1>2
  <2> QED BY <2>1
<1> QED BY <1>3, <1>5, <1>6, <1>7 DEF us, ts

(* The frame on top, and the entry it reads. *)
LEMMA CurrentOK ==
  ASSUME PolicyInv, WalkInv, stage = "entries", work # <<>>
  PROVE  /\ Current \in Frames /\ Under \in Seq(Frames) /\ Len(work) \in Nat \ {0}
         /\ Len(Under) = Len(work) - 1 /\ \A k \in 1..(Len(work) - 1) : Under[k] = work[k]
         /\ Current[1] \in Names /\ Registered(Current[1])
         /\ Current[2] \in Nat \ {0} /\ Current[3] \in Nat \ {0}
         /\ After(Current) \in Frames
         /\ ~Ended(Current) =>
              /\ \E X : EntryAt(Current) \in EntryType(X)
              /\ Current[2] \in DOMAIN Body(Current[1])
              /\ EntryAt(Current).type = "USE" =>
                   Registered(EntryAt(Current).used) /\ EntryAt(Current).used \in PolicyNames
              /\ EntryAt(Current).type = "ACTION" =>
                   /\ EntryAt(Current).action \in Actions
                   /\ EntryAt(Current).filters # <<>> => Current[3] \in DOMAIN EntryAt(Current).filters
<1>1. work \in Seq(Frames) BY DEF WalkInv
<1>2. /\ Current \in Frames /\ Under \in Seq(Frames) /\ Len(work) \in Nat \ {0}
      /\ Len(Under) = Len(work) - 1 /\ \A k \in 1..(Len(work) - 1) : Under[k] = work[k]
  BY <1>1, FrontOf DEF Current, Under
<1> DEFINE w == Current
<1> HIDE DEF w
<1>3. w \in Names \X (Nat \ {0}) \X (Nat \ {0}) /\ FrameOK(w) /\ w[1] \in used \cup {"@main"}
  BY <1>2 DEF w, Frames
<1>4. /\ w[1] \in Names /\ w[2] \in Nat \ {0} /\ w[3] \in Nat \ {0} /\ Registered(w[1])
  BY <1>3 DEF FrameOK
<1>5. After(w) \in Frames
  <2> DEFINE v == <<w[1], w[2] + 1, 1>>
  <2>1. /\ v \in Names \X (Nat \ {0}) \X (Nat \ {0}) /\ v[1] = w[1] /\ v[3] = 1 BY <1>4
  <2> HIDE DEF v
  <2>2. FrameOK(v) BY <1>4, <2>1 DEF FrameOK
  <2>3. v \in Frames BY <1>3, <2>1, <2>2 DEF Frames
  <2> QED BY <2>3 DEF v, After
<1>6. ASSUME ~Ended(w)
      PROVE  /\ \E X : EntryAt(w) \in EntryType(X)
             /\ w[2] \in DOMAIN Body(w[1])
             /\ EntryAt(w).type = "USE" =>
                  Registered(EntryAt(w).used) /\ EntryAt(w).used \in PolicyNames
             /\ EntryAt(w).type = "ACTION" =>
                  /\ EntryAt(w).action \in Actions
                  /\ EntryAt(w).filters # <<>> => w[3] \in DOMAIN EntryAt(w).filters
  <2>1. PoliciesOK(policies) BY DEF PolicyInv
  <2>2. PICK X : Body(w[1]) \in Seq(EntryType(X)) BY <1>4, <2>1, BodyOf
  <2>3. Len(Body(w[1])) \in Nat /\ DOMAIN Body(w[1]) = 1..Len(Body(w[1])) BY <2>2
  <2>4. w[2] \in DOMAIN Body(w[1]) BY <1>4, <1>6, <2>3 DEF Ended
  <2>5. EntryAt(w) \in EntryType(X) BY <2>2, <2>3, <2>4 DEF EntryAt
  <2> DEFINE e == EntryAt(w)
  <2> HIDE DEF e
  <2>6. ASSUME e.type = "USE" PROVE Registered(e.used) /\ e.used \in PolicyNames
    <3>1. e.used \in PolicyNames BY <2>5, <2>6 DEF EntryType, e
    <3>2. UsesNamed(policies, Body(w[1])) BY <1>4, <2>1, BodyOf
    <3>3. Named(policies, e.used) BY <2>4, <2>6, <3>2 DEF UsesNamed, EntryAt, e
    <3> QED BY <3>1, <3>3 DEF Named, Registered
  <2>7. ASSUME e.type = "ACTION"
        PROVE  e.action \in Actions /\ (e.filters # <<>> => w[3] \in DOMAIN e.filters)
    <3>1. e.action \in Actions /\ e.filters \in Seq(FilterType(X)) BY <2>5, <2>7 DEF EntryType, e
    <3>2. Len(e.filters) \in Nat /\ DOMAIN e.filters = 1..Len(e.filters)
          /\ (e.filters # <<>> => Len(e.filters) >= 1)
      BY <3>1
    <3>3. w[3] > 1 => w[3] <= Len(e.filters) BY <1>3 DEF FrameOK, EntryAt, e
    <3> QED BY <1>4, <3>1, <3>2, <3>3
  <2> QED BY <2>4, <2>5, <2>6, <2>7 DEF e
<1> QED BY <1>2, <1>4, <1>5, <1>6 DEF w

(* A step of the walk, for what the rules it gives are to be.              *)
LEMMA FramesStay ==
  ASSUME UNCHANGED policies, used \subseteq used' PROVE Frames \subseteq Frames'
<1>1. \A name : Registered(name)' <=> Registered(name) BY DEF Registered
<1>2. \A name : Body(name)' = Body(name) BY DEF Body
<1> QED BY <1>1, <1>2 DEF Frames, FrameOK

(* A registered policy can be entered at its first entry.                  *)
LEMMA FrameNew ==
  ASSUME UNCHANGED policies, NEW p \in Names, Registered(p), p \in used' \cup {"@main"}
  PROVE  <<p, 1, 1>> \in Frames'
<1> DEFINE w == <<p, 1, 1>>
<1>1. w \in Names \X (Nat \ {0}) \X (Nat \ {0}) /\ w[1] = p /\ w[3] = 1 OBVIOUS
<1>2. Registered(p)' BY DEF Registered
<1> HIDE DEF w
<1>3. FrameOK(w)' BY <1>1, <1>2 DEF FrameOK
<1> QED BY <1>1, <1>3 DEF Frames, w

(* A step of the walk leaves frames that are apart from each other.        *)
LEMMA WalkStep ==
  ASSUME PolicyInv, WalkInv, stage = "entries", NEW arch,
         LeaveBody \/ UsePolicy \/ ActionEntry(arch), UNCHANGED policies
  PROVE  work' \in Seq(Frames') /\ Apart(work') /\ used' \subseteq PolicyNames
<1>1. work # <<>> /\ used \subseteq PolicyNames /\ work \in Seq(Frames) /\ Apart(work)
  BY DEF LeaveBody, UsePolicy, ActionEntry, WalkInv
<1>2. /\ Current \in Frames /\ Under \in Seq(Frames) /\ After(Current) \in Frames
      /\ Current[1] \in Names /\ Current[2] \in Nat \ {0} /\ Current[3] \in Nat \ {0}
  BY <1>1, CurrentOK
<1>3. Apart(Under) /\ \A x : x[1] = Current[1] => Apart(Append(Under, x))
  BY <1>1, ApartSteps DEF Current, Under
<1>4. CASE LeaveBody
  <2>1. work' = Under /\ used' = used BY <1>4 DEF LeaveBody
  <2>2. Seq(Frames) \subseteq Seq(Frames') BY <2>1, FramesStay, SeqGrows
  <2> QED BY <1>1, <1>2, <1>3, <2>1, <2>2
<1>5. CASE UsePolicy
  <2> DEFINE p == EntryAt(Current).used
             top == After(Current)
             new == <<p, 1, 1>>
             below == IF Ended(top) THEN Under ELSE Append(Under, top)
  <2>1. ~Ended(Current) /\ EntryAt(Current).type = "USE" BY <1>5 DEF UsePolicy
  <2>2. Registered(p) /\ p \in PolicyNames BY <1>1, <2>1, CurrentOK
  <2>3. top[1] = Current[1] BY DEF After
  <2>4. CASE p \in used
    <3>1. work' = Append(Under, top) /\ used' = used BY <1>5, <2>4 DEF UsePolicy
    <3>2. Append(Under, top) \in Seq(Frames) BY <1>2
    <3>3. Seq(Frames) \subseteq Seq(Frames') BY <3>1, FramesStay, SeqGrows
    <3> HIDE DEF top
    <3> QED BY <1>1, <1>3, <2>3, <3>1, <3>2, <3>3
  <2>5. CASE p \notin used
    <3>1. used' = used \cup {p} /\ work' = Append(below, new) BY <1>5, <2>5 DEF UsePolicy
    <3>2. Frames \subseteq Frames' BY <3>1, FramesStay
    <3>3. new \in Frames'
      <4>1. p \in Names /\ p \in used' \cup {"@main"} BY <2>2, <3>1 DEF Names
      <4> HIDE DEF p
      <4> QED BY <2>2, <4>1, FrameNew
    <3> HIDE DEF p, top, new
    <3>4. below \in Seq(Frames) /\ Apart(below)
      <4>1. top \in Frames /\ top[1] = Current[1] BY <1>2, <2>3 DEF top
      <4> QED BY <1>2, <1>3, <4>1
    <3> HIDE DEF below
    <3>5. \A d \in DOMAIN below : below[d][1] \in used \cup {"@main"}
      <4>1. \A d \in DOMAIN below : below[d] \in Frames BY <3>4
      <4> QED BY <4>1 DEF Frames
    <3>6. new[1] = p /\ p # "@main" BY <2>2 DEF new, PolicyNames
    <3>7. work' \in Seq(Frames')
      <4>1. below \in Seq(Frames') BY <3>2, <3>4, SeqGrows
      <4> QED BY <3>1, <3>3, <4>1
    <3>8. Apart(Append(below, new))
      <4> DEFINE n == Len(below)
                 ts == Append(below, new)
      <4>1. n \in Nat /\ DOMAIN below = 1..n BY <3>4
      <4>2. below \in Seq(Frames \cup {new}) BY <3>4, SeqGrows, Frames \subseteq Frames \cup {new}
      <4>3. /\ DOMAIN ts = 1..(n + 1) /\ ts[n + 1] = new /\ \A k \in 1..n : ts[k] = below[k]
        BY <4>1, <4>2
      <4> HIDE DEF n, ts
      <4>4. \A d \in 1..n : below[d][1] # new[1] BY <2>5, <3>5, <3>6, <4>1
      <4>5. ASSUME NEW d \in 1..(n + 1), NEW e \in 1..(n + 1), ts[d][1] = ts[e][1] PROVE d = e
        <5>1. (d = n + 1 \/ d \in 1..n) /\ (e = n + 1 \/ e \in 1..n) BY <4>1
        <5>2. CASE d \in 1..n /\ e \in 1..n BY <3>4, <4>1, <4>3, <4>5, <5>2 DEF Apart
        <5> QED BY <4>3, <4>4, <4>5, <5>1, <5>2
      <4> QED BY <4>3, <4>5 DEF Apart, ts
    <3> QED BY <1>1, <2>2, <3>1, <3>7, <3>8
  <2> QED BY <2>4, <2>5
<1>6. CASE ActionEntry(arch)
  <2> DEFINE e == EntryAt(Current)
             x == IF Current[3] < Len(e.filters) THEN <<Current[1], Current[2], Current[3] + 1>>
                  ELSE After(Current)
  <2>1. /\ ~Ended(Current) /\ e.type = "ACTION" /\ used' = used
        /\ work' = Append(Under, x)
    BY <1>6 DEF ActionEntry
  <2>2. PICK X : e \in EntryType(X) BY <1>1, <2>1, CurrentOK
  <2>3. x \in Frames /\ x[1] = Current[1]
    <3>1. CASE ~(Current[3] < Len(e.filters)) BY <1>2, <3>1 DEF After
    <3>2. CASE Current[3] < Len(e.filters)
      <4> DEFINE v == <<Current[1], Current[2], Current[3] + 1>>
      <4>1. e.filters \in Seq(FilterType(X)) BY <2>1, <2>2 DEF EntryType
      <4>2. Len(e.filters) \in Nat BY <4>1
      <4>3. /\ v \in Names \X (Nat \ {0}) \X (Nat \ {0}) /\ v[1] = Current[1] /\ v[2] = Current[2]
            /\ v[3] <= Len(e.filters)
        BY <1>2, <3>2, <4>2
      <4>4. FrameOK(Current) /\ Current[1] \in used \cup {"@main"} BY <1>2 DEF Frames
      <4>5. Current[2] <= Len(Body(Current[1]))
        <5>1. PICK Y : Body(Current[1]) \in Seq(EntryType(Y))
          BY <4>4, BodyOf DEF FrameOK, PolicyInv
        <5>2. Len(Body(Current[1])) \in Nat BY <5>1
        <5> QED BY <1>2, <2>1, <5>2 DEF Ended
      <4>6. Body(Current[1])[Current[2]] = e BY DEF EntryAt
      <4> HIDE DEF v, e
      <4>7. FrameOK(v) BY <2>1, <4>3, <4>4, <4>5, <4>6 DEF FrameOK
      <4>8. v \in Frames BY <4>3, <4>4, <4>7 DEF Frames
      <4> QED BY <3>2, <4>3, <4>8 DEF v, e
    <3> QED BY <3>1, <3>2
  <2> HIDE DEF x
  <2>4. Append(Under, x) \in Seq(Frames) BY <1>2, <2>3
  <2>5. Seq(Frames) \subseteq Seq(Frames') BY <2>1, FramesStay, SeqGrows
  <2> QED BY <1>1, <1>3, <2>1, <2>3, <2>4, <2>5
<1> QED BY <1>4, <1>5, <1>6

(* The walk over the used policies is in an existing entry of each, no     *)
(* policy is walked twice at a time, and those under way but @main are     *)
(* marked used (add_policy_rules).                                         *)
THEOREM WalkKept == Spec => []WalkInv
<1>1. Init => WalkInv BY DEF Init, WalkInv
<1>2. PolicyInv /\ WalkInv /\ [Next]_vars => WalkInv'
  <2> SUFFICES ASSUME PolicyInv, WalkInv, [Next]_vars PROVE WalkInv' OBVIOUS
  <2>1. CASE BeginArch
    <3> DEFINE w == <<"@main", 1, 1>>
    <3>1. /\ work' = <<w>> /\ used' = {} /\ stage' = "entries" /\ stage = "arch"
          /\ policies' = policies
      BY <2>1 DEF BeginArch
    <3>2. Registered("@main")' BY <3>1 DEF PolicyInv, Collecting, Registered
    <3>3. w \in Names \X (Nat \ {0}) \X (Nat \ {0}) /\ w[1] = "@main" /\ w[3] = 1 BY DEF Names
    <3> HIDE DEF w
    <3>4. FrameOK(w)' BY <3>2, <3>3 DEF FrameOK
    <3>5. w \in Frames' BY <3>3, <3>4 DEF Frames
    <3>6. work' \in Seq(Frames') /\ DOMAIN work' = 1..1 BY <3>1, <3>5
    <3> QED BY <3>1, <3>6 DEF WalkInv, Apart
  <2>2. CASE CollectRules
    <3>1. policies' = policies BY <2>2 DEF CollectRules
    <3>2. CASE RulesComplete
      BY <2>2, <3>2 DEF CollectRules, RulesComplete, WalkInv, LeaveBody, UsePolicy, ActionEntry
    <3>3. CASE ~RulesComplete
      <4>1. /\ LeaveBody \/ UsePolicy \/ ActionEntry(Archs[Lowest(todo)])
            /\ stage' = stage /\ stage = "entries"
        BY <2>2, <3>3 DEF CollectRules, LeaveBody, UsePolicy, ActionEntry
      <4>2. work' \in Seq(Frames') /\ Apart(work') /\ used' \subseteq PolicyNames
        BY <3>1, <4>1, WalkStep
      <4> QED BY <4>1, <4>2 DEF WalkInv
    <3> QED BY <3>2, <3>3
  <2>3. CASE Next /\ ~BeginArch /\ ~CollectRules
    <3>1. UNCHANGED work /\ stage' # "entries" /\ stage # "entries"
      <4>1. CASE CompileText
        <5>1. stage' # "entries" BY <4>1, ParseStages
        <5>2. CASE Compile BY <5>1, <5>2 DEF Compile
        <5>3. CASE Parse
          BY <5>1, <5>3 DEF Parse, DefineConst, DefinePolicy, MainStatements, DefaultAction, Include,
                            EndOfInput, Reading
        <5> QED BY <4>1, <5>2, <5>3 DEF CompileText
      <4>2. CASE Validate BY <4>2 DEF Validate, Finish
      <4>3. CASE BeginCode BY <4>3 DEF BeginCode
      <4>4. CASE NormalizeRules BY <4>4, NormalizeStages DEF NormalizeRules, frontVars
      <4>5. CASE BeginRules BY <4>5 DEF BeginRules, frontVars
      <4>6. CASE GenerateCode BY <4>6, GenerateStages DEF GenerateCode, frontVars
      <4>7. CASE FinishArch BY <4>7 DEF FinishArch, frontVars
      <4>8. CASE FinishCode BY <4>8 DEF FinishCode, Finish
      <4>9. CASE Returned BY <4>9 DEF Returned, vars, frontVars, normalVars
      <4> QED BY <2>3, <4>1, <4>2, <4>3, <4>4, <4>5, <4>6, <4>7, <4>8, <4>9 DEF Next
    <3> QED BY <3>1 DEF WalkInv
  <2>4. CASE UNCHANGED vars
    <3>1. UNCHANGED <<stage, work, used, policies>> BY <2>4 DEF vars, frontVars, normalVars
    <3> QED BY <3>1 DEF WalkInv, Frames, FrameOK, Registered, Body
  <2> QED BY <2>1, <2>2, <2>3, <2>4
<1> QED BY <1>1, <1>2, PoliciesKept, PTL DEF Spec

-----------------------------------------------------------------------------
(* The list of rules: what add_filters puts into it is what normalize_rules *)
(* expects.                                                                *)

RulesInv ==
  /\ i \in Nat /\ j \in Nat /\ toAdd \in Nat
  /\ stage \notin {"count", "fill"} => toAdd = 0
  /\ \E E : NULL \in E /\ rules \in Seq(RuleType(E, Actions))
  /\ stage \in {"entries", "sort"} => Listed(rules)
  /\ stage \in {"count", "fill", "normalized"} => rules # <<>>
  /\ NormalInv
  /\ stage \in {"normalized"} \cup Generating =>
       \A k \in DOMAIN rules : IsConditional(rules[k]) => rules[k].exprs # <<>>

(* A rule over some expressions is one over more of them.                  *)
LEMMA RuleTypeGrows ==
  ASSUME NEW E, NEW F, E \subseteq F, NEW A
  PROVE  Seq(RuleType(E, A)) \subseteq Seq(RuleType(F, A))
<1>1. MappingType(E, A) \subseteq MappingType(F, A) BY DEF MappingType
<1>2. Seq(MappingType(E, A)) \subseteq Seq(MappingType(F, A)) BY <1>1, SeqGrows
<1>3. RuleType(E, A) \subseteq RuleType(F, A) BY <1>2 DEF RuleType
<1> QED BY <1>3, SeqGrows

(* A filter adds at most one rule to a list of rules.                      *)
LEMMA FilterAdded ==
  ASSUME NEW E, NULL \in E, NEW rs \in Seq(RuleType(E, Actions)), Listed(rs),
         NEW f, NEW action \in Actions, NEW arch, SpecNr(f, arch) \in Numbers
  PROVE  LET ts == AddFilter(rs, f, action, arch)
         IN /\ \E F : NULL \in F /\ ts \in Seq(RuleType(F, Actions))
            /\ Listed(ts)
            /\ ts = rs \/ Len(ts) = Len(rs) + 1
<1> DEFINE e == FilterExpr(f, arch)
           nr == SpecNr(f, arch)
           F == E \cup {e}
           n == Len(rs) + 1
           r == IF e = NULL THEN Rule(nr, nr, action)
                ELSE [Rule(nr, nr, ACTION_CONDITIONAL) EXCEPT !.exprs = <<Mapping(e, action)>>]
           x == [r EXCEPT !.priority = n]
           ts == Append(rs, x)
<1>1. CASE e = False
  <2>1. AddFilter(rs, f, action, arch) = rs BY <1>1 DEF AddFilter
  <2> QED BY <2>1
<1>2. CASE e # False
  <2>1. AddFilter(rs, f, action, arch) = ts BY <1>2 DEF AddFilter, AddRule
  <2> HIDE DEF e, nr
  <2>2. PICK a, es : /\ r = [first |-> nr, last |-> nr, action |-> a, priority |-> 0, exprs |-> es]
                     /\ a \in Actions \cup {ACTION_CONDITIONAL} /\ es \in Seq(MappingType(F, Actions))
    <3>1. CASE e = NULL
      <4>1. <<>> \in Seq(MappingType(F, Actions)) OBVIOUS
      <4> QED BY <3>1, <4>1 DEF Rule
    <3>2. CASE e # NULL
      <4> DEFINE m == Mapping(e, action)
      <4>1. m \in MappingType(F, Actions) BY DEF Mapping, MappingType
      <4> HIDE DEF m, F
      <4>2. <<m>> \in Seq(MappingType(F, Actions)) BY <4>1
      <4>3. Rule(nr, nr, ACTION_CONDITIONAL)
            = [first |-> nr, last |-> nr, action |-> ACTION_CONDITIONAL, priority |-> 0, exprs |-> <<>>]
        BY DEF Rule
      <4>4. r = [first |-> nr, last |-> nr, action |-> ACTION_CONDITIONAL, priority |-> 0,
                 exprs |-> <<m>>]
        BY <3>2, <4>3 DEF m
      <4> QED BY <4>2, <4>4
    <3> QED BY <3>1, <3>2
  <2> HIDE DEF r
  <2>3. Len(rs) \in Nat /\ n \in Nat BY Len(rs) \in Nat
  <2> HIDE DEF n, F
  <2>4. x = [first |-> nr, last |-> nr, action |-> a, priority |-> n, exprs |-> es] BY <2>2
  <2>5. nr \in Numbers BY DEF nr
  <2> HIDE DEF x
  <2>6. x \in RuleType(F, Actions) /\ x.priority = n /\ x.first = x.last
    BY <2>2, <2>3, <2>4, <2>5 DEF RuleType
  <2>7. rs \in Seq(RuleType(F, Actions)) BY RuleTypeGrows, E \subseteq F DEF F
  <2>8. /\ ts \in Seq(RuleType(F, Actions)) /\ Len(ts) = n /\ ts[n] = x
        /\ \A k \in 1..Len(rs) : ts[k] = rs[k]
    BY <2>6, <2>7 DEF n
  <2> HIDE DEF ts
  <2>9. Listed(ts)
    <3> SUFFICES ASSUME NEW k \in 1..n PROVE ts[k].priority = k /\ ts[k].first = ts[k].last
      BY <2>8 DEF Listed
    <3>1. CASE k = n BY <2>6, <2>8, <3>1
    <3>2. CASE k # n
      <4>1. k \in 1..Len(rs) BY <2>3, <3>2 DEF n
      <4> QED BY <2>8, <4>1 DEF Listed
    <3> QED BY <3>1, <3>2
  <2>10. NULL \in F BY DEF F
  <2> QED BY <2>1, <2>8, <2>9, <2>10 DEF n
<1> QED BY <1>1, <1>2

(* The number of a filter that the walk comes to. *)
LEMMA NumberOf ==
  ASSUME PolicyInv, WalkInv, stage = "entries", work # <<>>, ~Ended(Current),
         EntryAt(Current).type = "ACTION", NEW m \in DOMAIN EntryAt(Current).filters
  PROVE  SpecNr(EntryAt(Current).filters[m], Archs[Lowest(todo)]) \in Numbers
<1> DEFINE e == EntryAt(Current)
           f == e.filters[m]
           arch == Archs[Lowest(todo)]
<1>1. Lowest(todo) \in TargetArchs /\ Lowest(todo) \in DOMAIN Archs
  <2>1. todo \subseteq TargetArchs /\ todo # {} BY DEF PolicyInv, Collecting
  <2>2. todo \subseteq Nat BY <2>1, ArchNumbers
  <2> QED BY <2>1, <2>2, ArchNumbers, LowestIn
<1>2. /\ Registered(Current[1]) /\ Current[2] \in DOMAIN Body(Current[1])
      /\ \E X : e \in EntryType(X)
  BY CurrentOK
<1>3. PICK p \in DOMAIN policies : Body(Current[1]) = policies[p].entries
  BY <1>2, BodyOf DEF PolicyInv
<1>4. ValidFilter(f, arch)
  <2>1. ValidReferences(arch) BY <1>1 DEF PolicyInv, Collecting
  <2>2. e = policies[p].entries[Current[2]] /\ Current[2] \in DOMAIN policies[p].entries
    BY <1>2, <1>3 DEF EntryAt
  <2> QED BY <2>1, <2>2 DEF ValidReferences
<1>5. f.syscall \in CallType
  <2>1. PICK X : e \in EntryType(X) BY <1>2
  <2>2. e.filters \in Seq(FilterType(X)) BY <2>1 DEF EntryType
  <2>3. f \in FilterType(X) BY <2>2
  <2> QED BY <2>3 DEF FilterType
<1> HIDE DEF f, e
<1>6. CASE f.syscall.type = "ID"
  <2>1. f.syscall.id \in DOMAIN syscalls_lookup[arch] BY <1>4, <1>6 DEF ValidFilter, Known
  <2>2. NrOf(arch, f.syscall.id) \in Numbers BY <1>1, <2>1, TableNumbers DEF Numbers
  <2> HIDE DEF arch
  <2>3. SpecNr(f, arch) \in Numbers BY <1>6, <2>2 DEF SpecNr
  <2> QED BY <2>3 DEF f, e, arch
<1>7. CASE f.syscall.type # "ID"
  <2>1. f.syscall.nr \in Numbers BY <1>5, <1>7 DEF CallType
  <2> HIDE DEF arch
  <2>2. SpecNr(f, arch) \in Numbers BY <1>7, <2>1 DEF SpecNr
  <2> QED BY <2>2 DEF f, e, arch
<1> QED BY <1>6, <1>7

(* An entry adds at most the rule of its next filter.                      *)
LEMMA RulesCollected ==
  ASSUME PolicyInv, WalkInv, RulesInv, stage = "entries", ActionEntry(Archs[Lowest(todo)])
  PROVE  /\ \E E : NULL \in E /\ rules' \in Seq(RuleType(E, Actions))
         /\ Listed(rules')
         /\ \/ rules' = rules
            \/ /\ Len(rules') = Len(rules) + 1
               /\ Current[3] \in DOMAIN EntryAt(Current).filters
<1>1. PICK E : NULL \in E /\ rules \in Seq(RuleType(E, Actions)) BY DEF RulesInv
<1>2. Listed(rules) BY DEF RulesInv
<1> DEFINE e == EntryAt(Current)
           m == Current[3]
           arch == Archs[Lowest(todo)]
<1>3. /\ work # <<>> /\ ~Ended(Current) /\ e.type = "ACTION"
      /\ rules' = IF e.filters = <<>> THEN rules ELSE AddFilter(rules, e.filters[m], e.action, arch)
  BY DEF ActionEntry
<1>4. CASE e.filters = <<>> BY <1>1, <1>2, <1>3, <1>4
<1>5. CASE e.filters # <<>>
  <2>1. m \in DOMAIN e.filters /\ e.action \in Actions BY <1>3, <1>5, CurrentOK
  <2>2. SpecNr(e.filters[m], arch) \in Numbers BY <1>3, <2>1, NumberOf
  <2>3. rules' = AddFilter(rules, e.filters[m], e.action, arch) BY <1>3, <1>5
  <2> DEFINE f == e.filters[m]
             a == e.action
  <2>4. a \in Actions /\ SpecNr(f, arch) \in Numbers /\ rules' = AddFilter(rules, f, a, arch)
    BY <2>1, <2>2, <2>3
  <2> HIDE DEF f, a, arch
  <2>5. /\ \E F : NULL \in F /\ rules' \in Seq(RuleType(F, Actions))
        /\ Listed(rules')
        /\ rules' = rules \/ Len(rules') = Len(rules) + 1
    BY <1>1, <1>2, <2>4, FilterAdded
  <2> QED BY <2>1, <2>5
<1> QED BY <1>4, <1>5

(* NormalInv says nothing outside of normalize_rules.                      *)
LEMMA IdleNormal == stage \notin {"count", "fill", "normalized"} => NormalInv
BY DEF NormalInv, CountInv, FillInv, NormalizedRules

(* The same of the next state.                                             *)
LEMMA IdleNormalNext ==
  ASSUME stage' \notin {"count", "fill", "normalized"} PROVE NormalInv'
BY DEF NormalInv, CountInv, FillInv, NormalizedRules

(* A step of normalize_rules keeps the rules in order.                     *)
LEMMA RulesNormalized ==
  ASSUME PolicyInv, RulesInv, NormalizeRules PROVE RulesInv'
<1>1. PICK E : NULL \in E /\ rules \in Seq(RuleType(E, Actions)) BY DEF RulesInv
<1>2. Parts(E, Actions) BY <1>1, ActionRange DEF Parts, ACTION_CONDITIONAL, NoAction
<1>3. stage \in {"sort", "count", "fill"} /\ stage' \in {"count", "fill", "normalized"}
  BY NormalizeStages DEF NormalizeRules
<1>4. default_action \in Actions /\ default_action' = default_action /\ Normalize
  BY <1>3 DEF PolicyInv, Collecting, NormalizeRules
<1>5. NormalInit(E, Actions) \/ (RulesType(E, Actions) /\ NormalInv)
  <2>1. CASE stage = "sort"
    <3>1. NormalInit(E, Actions) BY <1>1, <1>4, <2>1 DEF NormalInit, RulesInv
    <3> QED BY <3>1
  <2>2. CASE stage # "sort"
    <3>1. RulesType(E, Actions) /\ NormalInv BY <1>1, <1>3, <1>4, <2>2 DEF RulesType, RulesInv
    <3> QED BY <3>1
  <2> QED BY <2>1, <2>2
<1>6. RulesType(E, Actions)' /\ NormalInv' BY <1>2, <1>4, <1>5, NormalStep
<1>7. /\ i' \in Nat /\ j' \in Nat /\ toAdd' \in Nat /\ rules' # <<>>
      /\ rules' \in Seq(RuleType(E, Actions))
      /\ stage' \in {"count", "fill", "normalized"}
  BY <1>6 DEF RulesType
<1>8. stage' = "normalized" => toAdd' = 0 BY <1>6 DEF NormalInv
<1>9. stage' = "normalized" =>
        \A k \in DOMAIN rules' : IsConditional(rules'[k]) => rules'[k].exprs # <<>>
  BY <1>6 DEF NormalInv, NormalizedRules, HasCatchAll
<1> QED BY <1>1, <1>6, <1>7, <1>8, <1>9 DEF RulesInv, Generating

(* The rules are listed while they are collected and as normalize_rules    *)
(* promises while and after it runs.                                       *)
THEOREM RulesKept == Spec => []RulesInv
<1>1. Init => RulesInv
  <2> SUFFICES ASSUME Init PROVE RulesInv OBVIOUS
  <2>1. rules \in Seq(RuleType({NULL}, Actions)) BY DEF Init
  <2>2. stage = "idle" /\ i = 0 /\ j = 0 /\ toAdd = 0 BY DEF Init
  <2>3. NULL \in {NULL} OBVIOUS
  <2>4. NormalInv BY <2>2, IdleNormal
  <2> QED BY <2>1, <2>2, <2>3, <2>4 DEF RulesInv, Generating
<1>2. PolicyInv /\ WalkInv /\ RulesInv /\ [Next]_vars => RulesInv'
  <2> SUFFICES ASSUME PolicyInv, WalkInv, RulesInv, [Next]_vars PROVE RulesInv' OBVIOUS
  <2>1. /\ i \in Nat /\ j \in Nat /\ toAdd \in Nat
        /\ stage \notin {"count", "fill"} => toAdd = 0
        /\ \E E : NULL \in E /\ rules \in Seq(RuleType(E, Actions))
        /\ stage \in {"entries", "sort"} => Listed(rules)
    BY DEF RulesInv
  <2>2. CASE BeginArch
    <3>1. /\ stage = "arch" /\ stage' = "entries" /\ rules' = <<>> /\ UNCHANGED <<i, j, toAdd>>
      BY <2>2 DEF BeginArch
    <3>2. rules' \in Seq(RuleType({NULL}, Actions)) /\ Listed(rules') BY <3>1 DEF Listed
    <3>3. NormalInv' BY <3>1, IdleNormalNext
    <3>4. NULL \in {NULL} OBVIOUS
    <3> QED BY <2>1, <3>1, <3>2, <3>3, <3>4 DEF RulesInv, Generating
  <2>3. CASE CollectRules
    <3>1. /\ stage = "entries" /\ stage' \in {"entries", "sort"} /\ UNCHANGED <<i, j, toAdd>>
      BY <2>3 DEF CollectRules, LeaveBody, UsePolicy, ActionEntry, RulesComplete
    <3>2. (\E E : NULL \in E /\ rules' \in Seq(RuleType(E, Actions))) /\ Listed(rules')
      <4>1. CASE rules' = rules BY <2>1, <3>1, <4>1
      <4>2. CASE ActionEntry(Archs[Lowest(todo)]) BY <3>1, <4>2, RulesCollected
      <4> QED BY <2>3, <4>1, <4>2 DEF CollectRules, LeaveBody, UsePolicy
    <3>3. NormalInv' BY <3>1, IdleNormalNext
    <3> QED BY <2>1, <3>1, <3>2, <3>3 DEF RulesInv, Generating
  <2>4. CASE NormalizeRules BY <2>4, RulesNormalized
  <2>5. CASE BeginRules \/ GenerateCode
    <3>1. /\ UNCHANGED <<rules, i, j, toAdd>> /\ stage \in {"normalized"} \cup Generating
          /\ stage' \in Generating
      BY <2>5, GenerateStages DEF BeginRules, GenerateCode, Generating
    <3>2. NormalInv' BY <3>1, IdleNormalNext DEF Generating
    <3> QED BY <2>1, <3>1, <3>2 DEF RulesInv, Generating
  <2>6. CASE Next /\ ~BeginArch /\ ~CollectRules /\ ~NormalizeRules /\ ~BeginRules /\ ~GenerateCode
    <3>1. /\ UNCHANGED <<rules, i, j, toAdd>> /\ stage \notin {"count", "fill"}
          /\ stage' \notin {"entries", "sort", "count", "fill", "normalized"} \cup Generating
      <4>1. CASE CompileText
        <5>1. stage' \in {"parse", "validate", "done"} BY <4>1, ParseStages
        <5>2. CASE Compile BY <5>1, <5>2 DEF Compile, Generating
        <5>3. CASE Parse
          BY <5>1, <5>3 DEF Parse, DefineConst, DefinePolicy, MainStatements, DefaultAction, Include,
                            EndOfInput, Reading, Generating
        <5> QED BY <4>1, <5>2, <5>3 DEF CompileText
      <4>2. CASE Validate BY <4>2 DEF Validate, Finish, Generating
      <4>3. CASE BeginCode BY <4>3 DEF BeginCode, Generating
      <4>4. CASE FinishArch BY <4>4 DEF FinishArch, Generating
      <4>5. CASE FinishCode BY <4>5 DEF FinishCode, Finish, Generating
      <4>6. CASE Returned BY <4>6 DEF Returned, vars, normalVars, Generating
      <4> QED BY <2>6, <4>1, <4>2, <4>3, <4>4, <4>5, <4>6 DEF Next
    <3>2. NormalInv' BY <3>1, IdleNormalNext
    <3> QED BY <2>1, <3>1, <3>2 DEF RulesInv, Generating
  <2>7. CASE UNCHANGED vars
    <3>1. UNCHANGED <<rules, i, j, toAdd, stage>> BY <2>7 DEF vars, normalVars
    <3>2. NormalInv BY DEF RulesInv
    <3>3. default_action' = default_action BY <2>7 DEF vars
    <3>4. NormalInv'
      BY <3>1, <3>2, <3>3 DEF NormalInv, CountInv, FillInv, NormalizedRules, FirstFinal, NextHole,
                              FrontHole, HoleAbove, Cur
    <3> QED BY <3>1, <3>4 DEF RulesInv
  <2> QED BY <2>2, <2>3, <2>4, <2>5, <2>6, <2>7
<1> QED BY <1>1, <1>2, PoliciesKept, WalkKept, PTL DEF Spec

(* Whatever rules a policy gives, normalize_rules fills every slot that it *)
(* has counted, and the finished part of the list is in order at every     *)
(* pass of its loops, in every compilation (NormalInv).                    *)
THEOREM SlotsFitTheRules == Spec => []NormalInv
<1>1. RulesInv => NormalInv BY DEF RulesInv
<1> QED BY <1>1, RulesKept, PTL

(* In every compilation the code is generated from ranges that cover every *)
(* system call number once, of which one with expressions ends in a        *)
(* mapping that is always taken (NormalizedRules).                         *)
THEOREM CompiledRangesNormal == Spec => []NormalizedRules
<1>1. RulesInv => NormalizedRules BY DEF RulesInv, NormalInv
<1> QED BY <1>1, RulesKept, PTL

-----------------------------------------------------------------------------
(* What the rules decide while they are collected and normalized.          *)

(* No rule of the list is taken for nr when the expressions S hold.        *)
Undecided(rs, nr, S) == \A k \in 1..Len(rs) : Covers(rs[k], nr) => Passes(rs[k], S)

(* A rule that is passed gives nothing.                                    *)
LEMMA PassedGivesNothing ==
  ASSUME NEW r, NEW S, Passes(r, S) PROVE \A a : ~Gives(r, S, a)
BY DEF Passes, Gives, NoneOf, FirstOf

(* The rule added last decides what no rule before it does.                *)
LEMMA AppendDecides ==
  ASSUME NEW T, NEW rs \in Seq(T), NEW r, NEW nr, NEW S, NEW a
  PROVE  Decides(Append(rs, r), 1..Len(Append(rs, r)), nr, S, a)
         <=> IF ~Undecided(rs, nr, S) THEN Decides(rs, 1..Len(rs), nr, S, a)
             ELSE IF Covers(r, nr) /\ ~Passes(r, S) THEN Gives(r, S, a)
             ELSE a = default_action
<1> DEFINE n == Len(rs)
           ts == Append(rs, r)
<1>1. n \in Nat /\ Len(ts) = n + 1 /\ ts[n + 1] = r /\ \A k \in 1..n : ts[k] = rs[k]
  OBVIOUS
<1> HIDE DEF n, ts
<1>2. 1..(n + 1) = 1..n \cup {n + 1} /\ \A k \in 1..n : k < n + 1 /\ ~(n + 1 < k) BY <1>1
<1>3. ~(n + 1 < n + 1) BY <1>1
<1> DEFINE Rests == \A m \in 1..n : Covers(rs[m], nr) => Passes(rs[m], S)
           Early == \E k \in 1..n : /\ Covers(rs[k], nr) /\ Gives(rs[k], S, a)
                                    /\ \A m \in 1..n : m < k /\ Covers(rs[m], nr) => Passes(rs[m], S)
<1>4. Undecided(rs, nr, S) <=> Rests BY DEF Undecided, n
<1>5. Decides(rs, 1..n, nr, S, a) <=> Early \/ (a = default_action /\ Rests) BY DEF Decides
<1>6. Decides(ts, 1..(n + 1), nr, S, a)
      <=> \/ Early
          \/ Covers(r, nr) /\ Gives(r, S, a) /\ Rests
          \/ a = default_action /\ Rests /\ (Covers(r, nr) => Passes(r, S))
  <2> DEFINE First(k) == /\ Covers(ts[k], nr) /\ Gives(ts[k], S, a)
                         /\ \A m \in 1..(n + 1) : m < k /\ Covers(ts[m], nr) => Passes(ts[m], S)
  <2>1. (\E k \in 1..n : First(k)) <=> Early
    <3>1. ASSUME NEW k \in 1..n
          PROVE  First(k) <=> /\ Covers(rs[k], nr) /\ Gives(rs[k], S, a)
                              /\ \A m \in 1..n : m < k /\ Covers(rs[m], nr) => Passes(rs[m], S)
      BY <1>1, <1>2
    <3> QED BY <3>1
  <2>2. First(n + 1) <=> Covers(r, nr) /\ Gives(r, S, a) /\ Rests BY <1>1, <1>2, <1>3
  <2>3. (\A k \in 1..(n + 1) : Covers(ts[k], nr) => Passes(ts[k], S))
        <=> Rests /\ (Covers(r, nr) => Passes(r, S))
    BY <1>1, <1>2
  <2>4. Decides(ts, 1..(n + 1), nr, S, a)
        <=> \/ \E k \in 1..(n + 1) : First(k)
            \/ a = default_action /\ \A k \in 1..(n + 1) : Covers(ts[k], nr) => Passes(ts[k], S)
    BY DEF Decides
  <2> HIDE DEF First, Rests, Early
  <2>5. (\E k \in 1..(n + 1) : First(k)) <=> (\E k \in 1..n : First(k)) \/ First(n + 1) BY <1>2
  <2> QED BY <2>1, <2>2, <2>3, <2>4, <2>5
<1>7. Rests => ~Early BY PassedGivesNothing
<1>8. Passes(r, S) => ~Gives(r, S, a) BY PassedGivesNothing
<1> HIDE DEF Rests, Early
<1>9. Decides(ts, 1..(n + 1), nr, S, a)
      <=> IF ~Rests THEN Decides(rs, 1..n, nr, S, a)
          ELSE IF Covers(r, nr) /\ ~Passes(r, S) THEN Gives(r, S, a)
          ELSE a = default_action
  BY <1>5, <1>6, <1>7, <1>8
<1> QED BY <1>1, <1>4, <1>9 DEF n, ts

(* A filter is matched when its expression, as resolved and simplified for *)
(* the architecture, holds.                                                *)
Matched(f, arch, S) ==
  LET e == FilterExpr(f, arch) IN e = NULL \/ (e # False /\ e \in S)

(* add_rule gives the filter's action to its number if it is matched, and  *)
(* leaves what is decided already.                                         *)
LEMMA FilterDecidesNext ==
  ASSUME NEW T, rules \in Seq(T), NEW f, NEW b \in Actions, NEW arch, SpecNr(f, arch) \in Numbers,
         NEW nr \in Numbers, NEW S, NEW a
  PROVE  LET rs == AddFilter(rules, f, b, arch)
         IN Decides(rs, 1..Len(rs), nr, S, a)
            <=> IF ~Undecided(rules, nr, S) THEN Decides(rules, 1..Len(rules), nr, S, a)
                ELSE IF SpecNr(f, arch) = nr /\ Matched(f, arch, S) THEN a = b
                ELSE a = default_action
<1> DEFINE e == FilterExpr(f, arch)
           num == SpecNr(f, arch)
           plain == Rule(num, num, b)
           cond == [Rule(num, num, ACTION_CONDITIONAL) EXCEPT !.exprs = <<Mapping(e, b)>>]
           r == IF e = NULL THEN plain ELSE cond
           p == [r EXCEPT !.priority = Len(rules) + 1]
<1>1. num \in Numbers /\ MAX_SYSCALL_NR \in Nat BY MaxSyscallNr
<1>2. b # ACTION_CONDITIONAL BY ActionRange DEF ACTION_CONDITIONAL, NoAction
<1>3. CASE e = False
  <2>1. e # NULL BY <1>3 DEF False, NULL
  <2>2. AddFilter(rules, f, b, arch) = rules BY <1>3 DEF AddFilter
  <2>3. ~Matched(f, arch, S) BY <1>3, <2>1 DEF Matched
  <2>4. ASSUME Undecided(rules, nr, S)
        PROVE  Decides(rules, 1..Len(rules), nr, S, a) <=> a = default_action
    <3>1. \A k \in 1..Len(rules) : Covers(rules[k], nr) => ~Gives(rules[k], S, a)
      BY <2>4, PassedGivesNothing DEF Undecided
    <3> QED BY <2>4, <3>1 DEF Decides, Undecided
  <2> QED BY <2>2, <2>3, <2>4
<1>4. CASE e # False
  <2>1. AddFilter(rules, f, b, arch) = Append(rules, p) BY <1>4 DEF AddFilter, AddRule
  <2>2. p.first = num /\ p.last = num
    <3>1. plain.first = num /\ plain.last = num /\ cond.first = num /\ cond.last = num BY DEF Rule
    <3>2. r \in {plain, cond} OBVIOUS
    <3> HIDE DEF r, plain, cond
    <3>3. r.first = num /\ r.last = num BY <3>1, <3>2
    <3> HIDE DEF num
    <3> QED BY <3>3
  <2>3. Covers(p, nr) <=> num = nr
    <3> HIDE DEF p, num
    <3> QED BY <1>1, <2>2 DEF Covers, Numbers
  <2>4. CASE e = NULL
    <3>1. p.action = b BY <2>4 DEF Rule
    <3>2. ~Passes(p, S) /\ (Gives(p, S, a) <=> b = a) BY <1>2, <3>1 DEF Passes, Gives, IsConditional
    <3>3. Matched(f, arch, S) BY <2>4 DEF Matched
    <3> HIDE DEF p, num
    <3> QED BY <2>1, <2>3, <3>2, <3>3, AppendDecides DEF num
  <2>5. CASE e # NULL
    <3>1. p.action = ACTION_CONDITIONAL /\ p.exprs = <<Mapping(e, b)>>
      <4>1. r = cond BY <2>5
      <4>2. cond.action = ACTION_CONDITIONAL /\ cond.exprs = <<Mapping(e, b)>> BY DEF Rule
      <4> HIDE DEF r, cond, e
      <4> QED BY <4>1, <4>2
    <3>2. Matched(f, arch, S) <=> e \in S BY <1>4, <2>5 DEF Matched
    <3> HIDE DEF e
    <3> DEFINE xs == <<Mapping(e, b)>>
    <3>3. DOMAIN xs = {1} /\ xs[1].expr = e /\ xs[1].action = b BY DEF Mapping
    <3>4. 1..(1 - 1) = {} OBVIOUS
    <3> HIDE DEF xs
    <3>5. NoneOf(xs, S) <=> e \notin S BY <3>3 DEF NoneOf
    <3>6. FirstOf(xs, S, a) <=> e \in S /\ b = a BY <3>3, <3>4 DEF FirstOf
    <3>7. p.exprs = xs BY <3>1 DEF xs
    <3> HIDE DEF p, num
    <3>8. Passes(p, S) <=> e \notin S BY <3>1, <3>5, <3>7 DEF Passes, IsConditional
    <3>9. Gives(p, S, a) <=> e \in S /\ b = a BY <3>1, <3>6, <3>7 DEF Gives, IsConditional
    <3> QED BY <2>1, <2>3, <3>2, <3>8, <3>9, AppendDecides DEF num
  <2> QED BY <2>4, <2>5
<1> QED BY <1>3, <1>4

(* One step of add_policy_rules at a filter.                               *)
ReadsFilter ==
  stage = "entries" /\ work # <<>> /\ ~Ended(Current) /\ EntryAt(Current).type = "ACTION"
  /\ EntryAt(Current).filters # <<>>

FirstMatchDecides ==
  CollectRules /\ ReadsFilter =>
    LET b    == EntryAt(Current).action
        f    == EntryAt(Current).filters[Current[3]]
        arch == Archs[Lowest(todo)]
    IN \A nr \in Numbers : \A S : \A a :
         Decides(rules', 1..Len(rules'), nr, S, a)
         <=> IF ~Undecided(rules, nr, S) THEN Decides(rules, 1..Len(rules), nr, S, a)
             ELSE IF SpecNr(f, arch) = nr /\ Matched(f, arch, S) THEN a = b
             ELSE a = default_action

(* A filter that is read decides the calls of its number that match it and *)
(* that no filter read before it decides, and no other call: "Target of    *)
(* first rule matched is the policy decision", whichever expressions hold  *)
(* (add_policy_rules, add_rule).                                           *)
THEOREM FirstMatched == Spec => [][FirstMatchDecides]_vars
<1>1. PolicyInv /\ WalkInv /\ RulesInv => [FirstMatchDecides]_vars
  <2> SUFFICES ASSUME PolicyInv, WalkInv, RulesInv, CollectRules, ReadsFilter,
                      NEW nr \in Numbers, NEW S, NEW a
               PROVE  LET b    == EntryAt(Current).action
                          f    == EntryAt(Current).filters[Current[3]]
                          arch == Archs[Lowest(todo)]
                      IN Decides(rules', 1..Len(rules'), nr, S, a)
                         <=> IF ~Undecided(rules, nr, S) THEN Decides(rules, 1..Len(rules), nr, S, a)
                             ELSE IF SpecNr(f, arch) = nr /\ Matched(f, arch, S) THEN a = b
                             ELSE a = default_action
    BY DEF FirstMatchDecides
  <2> DEFINE e == EntryAt(Current)
             m == Current[3]
             arch == Archs[Lowest(todo)]
  <2>1. PICK E : rules \in Seq(RuleType(E, Actions)) BY DEF RulesInv
  <2>2. ActionEntry(arch)
    BY DEF CollectRules, ReadsFilter, LeaveBody, UsePolicy, RulesComplete
  <2>3. m \in DOMAIN e.filters /\ e.action \in Actions BY CurrentOK DEF ReadsFilter
  <2>4. SpecNr(e.filters[m], arch) \in Numbers BY <2>3, NumberOf DEF ReadsFilter
  <2>5. rules' = AddFilter(rules, e.filters[m], e.action, arch) BY <2>2 DEF ActionEntry, ReadsFilter
  <2> DEFINE f == e.filters[m]
             b == e.action
             T == RuleType(E, Actions)
  <2>6. b \in Actions /\ SpecNr(f, arch) \in Numbers /\ rules \in Seq(T)
    BY <2>1, <2>3, <2>4
  <2>7. rules' = AddFilter(rules, f, b, arch) BY <2>5
  <2> HIDE DEF f, b, arch, T
  <2>8. Decides(rules', 1..Len(rules'), nr, S, a)
        <=> IF ~Undecided(rules, nr, S) THEN Decides(rules, 1..Len(rules), nr, S, a)
            ELSE IF SpecNr(f, arch) = nr /\ Matched(f, arch, S) THEN a = b
            ELSE a = default_action
    BY <2>6, <2>7, FilterDecidesNext
  <2> QED BY <2>8 DEF f, b, arch
<1> QED BY <1>1, PoliciesKept, WalkKept, RulesKept, PTL DEF Spec

(* The list decides after a step as before, whichever expressions hold.    *)
NormalizingDecides ==
  NormalizeRules =>
    \A E : NULL \in E /\ rules \in Seq(RuleType(E, Actions)) =>
      /\ rules' \in Seq(RuleType(E, Actions))
      /\ \A nr \in Numbers : \A S \in Worlds(E) : \A a :
           Decides(rules, Live, nr, S, a) <=> Decides(rules', Live', nr, S, a)

(* No step of normalize_rules changes what the rules of the policy decide, *)
(* in any compilation: for every number and whichever expressions hold     *)
(* together, from the list as it was collected to the ranges that code is  *)
(* generated from.                                                         *)
THEOREM NormalizedDecides == Spec => [][NormalizingDecides]_vars
<1>1. PolicyInv /\ RulesInv => [NormalizingDecides]_vars
  <2> SUFFICES ASSUME PolicyInv, RulesInv, NormalizeRules, NEW E, NULL \in E,
                      rules \in Seq(RuleType(E, Actions))
               PROVE  /\ rules' \in Seq(RuleType(E, Actions))
                      /\ \A nr \in Numbers : \A S \in Worlds(E) : \A a :
                           Decides(rules, Live, nr, S, a) <=> Decides(rules', Live', nr, S, a)
    BY DEF NormalizingDecides
  <2>1. Parts(E, Actions) BY ActionRange DEF Parts, ACTION_CONDITIONAL, NoAction
  <2>2. stage \in {"sort", "count", "fill"} BY NormalizeStages DEF NormalizeRules
  <2>3. default_action \in Actions /\ default_action' = default_action /\ Normalize
    BY <2>2 DEF PolicyInv, Collecting, NormalizeRules
  <2>4. NormalInit(E, Actions) \/ (RulesType(E, Actions) /\ NormalInv)
    <3>1. CASE stage = "sort"
      <4>1. NormalInit(E, Actions) BY <2>3, <3>1 DEF NormalInit, RulesInv
      <4> QED BY <4>1
    <3>2. CASE stage # "sort"
      <4>1. RulesType(E, Actions) /\ NormalInv BY <2>2, <2>3, <3>2 DEF RulesType, RulesInv
      <4> QED BY <4>1
    <3> QED BY <3>1, <3>2
  <2>5. rules' \in Seq(RuleType(E, Actions))
    <3>1. RulesType(E, Actions)' BY <2>1, <2>3, <2>4, NormalStep
    <3> QED BY <3>1 DEF RulesType
  <2> QED BY <2>1, <2>3, <2>4, <2>5, StepDecides
<1> QED BY <1>1, PoliciesKept, RulesKept, PTL DEF Spec

-----------------------------------------------------------------------------
(* A filter gives at most one rule, and the walk reads none twice.         *)

(* There are finitely many filters, and a policy's are among them.         *)
LEMMA FiltersFinite ==
  ASSUME PoliciesOK(policies)
  PROVE  /\ IsFiniteSet(AllFilters)
         /\ \A name : Registered(name) => FiltersOf(name) \subseteq AllFilters
<1>1. PICK X : policies \in Seq(PolicyType(X)) BY DEF PoliciesOK
<1>2. Len(policies) \in Nat /\ DOMAIN policies = 1..Len(policies) BY <1>1
<1>3. IsFiniteSet(DOMAIN policies) BY <1>2, FS_Interval
<1>4. ASSUME NEW name, Registered(name) PROVE IsFiniteSet(FiltersOf(name))
  <2> DEFINE B == Body(name)
             K == {x \in DOMAIN B : B[x].type = "ACTION"}
             F(k) == {<<name, k, m>> : m \in DOMAIN B[k].filters}
  <2>1. PICK Y : B \in Seq(EntryType(Y)) BY <1>4, BodyOf
  <2>2. Len(B) \in Nat /\ DOMAIN B = 1..Len(B) BY <2>1
  <2>3. IsFiniteSet(DOMAIN B) BY <2>2, FS_Interval
  <2>4. IsFiniteSet(K) BY <2>3, FS_Subset
  <2>5. ASSUME NEW k \in K PROVE IsFiniteSet(F(k))
    <3>1. B[k] \in EntryType(Y) /\ B[k].type = "ACTION" BY <2>1
    <3>2. B[k].filters \in Seq(FilterType(Y)) BY <3>1 DEF EntryType
    <3> DEFINE D == DOMAIN B[k].filters
    <3>3. D = 1..Len(B[k].filters) /\ Len(B[k].filters) \in Nat BY <3>2
    <3>4. IsFiniteSet(D) BY <3>3, FS_Interval
    <3> HIDE DEF D, B
    <3> DEFINE f == [m \in D |-> <<name, k, m>>]
    <3>5. IsFiniteSet({f[m] : m \in D}) /\ f \in [D -> {f[m] : m \in D}]
      <4>1. f \in Surjection(D, {f[m] : m \in D}) BY DEF Surjection
      <4> QED BY <3>4, <4>1, FS_Surjection
    <3>6. {f[m] : m \in D} = F(k) BY DEF D
    <3> QED BY <3>5, <3>6
  <2>6. FiltersOf(name) = UNION {F(k) : k \in K} BY DEF FiltersOf
  <2> DEFINE g == [k \in K |-> F(k)]
  <2> HIDE DEF F, K
  <2>7. IsFiniteSet({g[k] : k \in K})
    <3>1. g \in Surjection(K, {g[k] : k \in K}) BY DEF Surjection
    <3> QED BY <2>4, <3>1, FS_Surjection
  <2>8. {g[k] : k \in K} = {F(k) : k \in K} OBVIOUS
  <2>9. IsFiniteSet({F(k) : k \in K}) /\ \A S \in {F(k) : k \in K} : IsFiniteSet(S)
    BY <2>5, <2>7, <2>8
  <2> QED BY <2>6, <2>9, FS_UNION
<1> DEFINE G == {FiltersOf(policies[p].name) : p \in DOMAIN policies}
           h == [p \in DOMAIN policies |-> FiltersOf(policies[p].name)]
<1>5. IsFiniteSet(G)
  <2> HIDE DEF h
  <2>1. h \in Surjection(DOMAIN policies, G) BY DEF Surjection, h
  <2> QED BY <1>3, <2>1, FS_Surjection
<1>6. \A S \in G : IsFiniteSet(S) BY <1>4 DEF Registered
<1>7. IsFiniteSet(AllFilters) BY <1>5, <1>6, FS_UNION DEF AllFilters
<1>8. \A name : Registered(name) => FiltersOf(name) \subseteq AllFilters
  BY DEF AllFilters, Registered
<1> QED BY <1>7, <1>8

(* Filters that a frame has gone past, and those that the walk has. *)
Passed(w, x) == x[2] < w[2] \/ (x[2] = w[2] /\ x[3] < w[3])
ReadOf(ws, us) ==
  {x \in AllFilters : /\ x[1] \in us \cup {"@main"}
                      /\ \A d \in DOMAIN ws : ws[d][1] = x[1] => Passed(ws[d], x)}

(* The walk has read at least as many filters as there are rules. *)
BoundInv ==
  /\ stage = "entries" => Len(rules) <= Cardinality(ReadOf(work, used))
  /\ stage = "sort" => Len(rules) <= Cardinality(AllFilters)

(* The filters of an entry, by their places.                               *)
LEMMA FilterPlaces ==
  ASSUME PoliciesOK(policies)
  PROVE  /\ \A x \in AllFilters : x[2] \in Nat /\ x[3] \in Nat
         /\ \A name : Registered(name) =>
              \A k \in DOMAIN Body(name) : Body(name)[k].type = "ACTION" =>
                \A m \in DOMAIN Body(name)[k].filters : <<name, k, m>> \in AllFilters
<1>1. ASSUME NEW name, Registered(name), NEW k \in DOMAIN Body(name),
             Body(name)[k].type = "ACTION", NEW m \in DOMAIN Body(name)[k].filters
      PROVE  k \in Nat /\ m \in Nat /\ <<name, k, m>> \in AllFilters
  <2>1. PICK X : Body(name) \in Seq(EntryType(X)) BY <1>1, BodyOf
  <2> DEFINE B == Body(name)
  <2>2. k \in DOMAIN B /\ B \in Seq(EntryType(X)) BY <2>1
  <2>3. <<name, k, m>> \in FiltersOf(name) BY <1>1 DEF FiltersOf
  <2> HIDE DEF B
  <2>4. k \in Nat /\ B[k] \in EntryType(X) BY <2>2
  <2>5. B[k].type = "ACTION" /\ m \in DOMAIN B[k].filters BY <1>1 DEF B
  <2>6. B[k].filters \in Seq(FilterType(X)) BY <2>4, <2>5 DEF EntryType
  <2>7. m \in Nat BY <2>5, <2>6
  <2> QED BY <1>1, <2>3, <2>4, <2>7, FiltersFinite
<1>2. ASSUME NEW x \in AllFilters PROVE x[2] \in Nat /\ x[3] \in Nat
  <2>1. PICK p \in DOMAIN policies : x \in FiltersOf(policies[p].name) BY DEF AllFilters
  <2> DEFINE name == policies[p].name
  <2>2. Registered(name) BY DEF Registered
  <2>3. PICK k \in DOMAIN Body(name) : /\ Body(name)[k].type = "ACTION"
                                       /\ \E m \in DOMAIN Body(name)[k].filters : x = <<name, k, m>>
    BY <2>1 DEF FiltersOf
  <2> HIDE DEF name
  <2>4. PICK m \in DOMAIN Body(name)[k].filters : x = <<name, k, m>> BY <2>3
  <2>5. k \in Nat /\ m \in Nat BY <1>1, <2>2, <2>3, <2>4
  <2> QED BY <2>4, <2>5
<1> QED BY <1>1, <1>2

(* An element more at the end.                                             *)
LEMMA Appended ==
  ASSUME NEW F, NEW ws \in Seq(F), NEW x
  PROVE  /\ Len(ws) \in Nat /\ DOMAIN ws = 1..Len(ws)
         /\ DOMAIN Append(ws, x) = 1..(Len(ws) + 1)
         /\ Append(ws, x)[Len(ws) + 1] = x
         /\ \A k \in 1..Len(ws) : Append(ws, x)[k] = ws[k]
<1>1. ws \in Seq(F \cup {x}) BY SeqGrows, F \subseteq F \cup {x}
<1> QED BY <1>1

(* A walk has read what another has if each of its frames is as far, or    *)
(* reads a policy that was not used.                                       *)
LEMMA ReadGrows ==
  ASSUME NEW ws, NEW vs, NEW us, NEW us2, us \subseteq us2,
         \A d \in DOMAIN vs :
           \/ vs[d][1] \notin us \cup {"@main"}
           \/ \E e \in DOMAIN ws : /\ ws[e][1] = vs[d][1]
                                   /\ \A x \in AllFilters : Passed(ws[e], x) => Passed(vs[d], x)
  PROVE  ReadOf(ws, us) \subseteq ReadOf(vs, us2)
<1> SUFFICES ASSUME NEW x \in ReadOf(ws, us) PROVE x \in ReadOf(vs, us2) OBVIOUS
<1>1. /\ x \in AllFilters /\ x[1] \in us \cup {"@main"}
      /\ \A d \in DOMAIN ws : ws[d][1] = x[1] => Passed(ws[d], x)
  BY DEF ReadOf
<1>2. ASSUME NEW d \in DOMAIN vs, vs[d][1] = x[1] PROVE Passed(vs[d], x)
  <2>1. PICK e \in DOMAIN ws : /\ ws[e][1] = vs[d][1]
                               /\ \A y \in AllFilters : Passed(ws[e], y) => Passed(vs[d], y)
    BY <1>1, <1>2
  <2> QED BY <1>1, <1>2, <2>1
<1> QED BY <1>1, <1>2 DEF ReadOf

(* A step of the walk reads what no step has read, and forgets nothing.    *)
LEMMA WalkReads ==
  ASSUME PolicyInv, WalkInv, stage = "entries", NEW arch,
         LeaveBody \/ UsePolicy \/ ActionEntry(arch)
  PROVE  /\ ReadOf(work, used) \subseteq ReadOf(work', used')
         /\ ActionEntry(arch) /\ Current[3] \in DOMAIN EntryAt(Current).filters =>
              <<Current[1], Current[2], Current[3]>>
                \in ReadOf(work', used') \ ReadOf(work, used)
<1> DEFINE n == Len(work)
<1>1. work # <<>> /\ work \in Seq(Frames) /\ Apart(work)
  BY DEF LeaveBody, UsePolicy, ActionEntry, WalkInv
<1>2. /\ Under \in Seq(Frames) /\ Len(Under) = n - 1 /\ n \in Nat \ {0}
      /\ \A k \in 1..(n - 1) : Under[k] = work[k]
      /\ Current[1] \in Names /\ Registered(Current[1])
      /\ Current[2] \in Nat \ {0} /\ Current[3] \in Nat \ {0}
      /\ Current \in Frames
  BY <1>1, CurrentOK
<1>3. DOMAIN Under = 1..(n - 1) /\ DOMAIN work = 1..n /\ work[n] = Current
      /\ \A d \in 1..(n - 1) : d \in 1..n
  BY <1>1, <1>2 DEF Current
<1> HIDE DEF n
<1>4. \A d \in DOMAIN Under : d \in DOMAIN work /\ Under[d] = work[d] BY <1>2, <1>3
<1>5. n \in DOMAIN work BY <1>2, <1>3
<1>6. \A x \in AllFilters : x[2] \in Nat /\ x[3] \in Nat BY FilterPlaces DEF PolicyInv
<1>7. \A x \in AllFilters : Passed(Current, x) => Passed(After(Current), x)
  <2> DEFINE w == After(Current)
  <2>1. w[2] = Current[2] + 1 BY DEF After
  <2> HIDE DEF w
  <2>2. SUFFICES ASSUME NEW x \in AllFilters, Passed(Current, x) PROVE Passed(w, x) BY DEF w
  <2>3. x[2] \in Nat /\ (x[2] < Current[2] \/ x[2] = Current[2]) BY <1>6, <2>2 DEF Passed
  <2>4. x[2] < w[2] BY <1>2, <2>1, <2>3
  <2> QED BY <2>4 DEF Passed
<1>8. ASSUME NEW w, w[1] = Current[1],
             \A x \in AllFilters : Passed(Current, x) => Passed(w, x)
      PROVE  ReadOf(work, used) \subseteq ReadOf(Append(Under, w), used)
  <2> DEFINE vs == Append(Under, w)
  <2>1. /\ DOMAIN vs = 1..n /\ vs[n] = w /\ \A d \in 1..(n - 1) : vs[d] = Under[d]
    <3>1. /\ DOMAIN vs = 1..(Len(Under) + 1) /\ vs[Len(Under) + 1] = w
          /\ \A d \in 1..Len(Under) : vs[d] = Under[d]
      BY <1>2, Appended
    <3> HIDE DEF vs
    <3> QED BY <1>2, <3>1
  <2> HIDE DEF vs
  <2>2. ASSUME NEW d \in DOMAIN vs
        PROVE  \E e \in DOMAIN work : /\ work[e][1] = vs[d][1]
                                      /\ \A x \in AllFilters : Passed(work[e], x) => Passed(vs[d], x)
    <3>1. CASE d = n BY <1>3, <1>5, <1>8, <2>1, <3>1
    <3>2. CASE d # n
      <4>1. d \in 1..(n - 1) BY <1>2, <2>1, <3>2
      <4>2. vs[d] = work[d] /\ d \in DOMAIN work BY <1>3, <1>4, <2>1, <4>1
      <4> QED BY <4>2
    <3> QED BY <3>1, <3>2
  <2>3. used \subseteq used OBVIOUS
  <2>4. ReadOf(work, used) \subseteq ReadOf(vs, used) BY <2>2, <2>3, ReadGrows
  <2> QED BY <2>4 DEF vs
<1>9. ReadOf(work, used) \subseteq ReadOf(Under, used)
  <2>1. \A d \in DOMAIN Under :
          \E e \in DOMAIN work : /\ work[e][1] = Under[d][1]
                                 /\ \A x \in AllFilters : Passed(work[e], x) => Passed(Under[d], x)
    BY <1>4
  <2>2. used \subseteq used OBVIOUS
  <2> QED BY <2>1, <2>2, ReadGrows
<1>10. CASE LeaveBody
  <2>1. work' = Under /\ used' = used BY <1>10 DEF LeaveBody
  <2>2. ~ActionEntry(arch) BY <1>10 DEF LeaveBody, ActionEntry
  <2> QED BY <1>9, <2>1, <2>2
<1>11. CASE UsePolicy
  <2> DEFINE p == EntryAt(Current).used
             top == After(Current)
             new == <<p, 1, 1>>
             below == IF Ended(top) THEN Under ELSE Append(Under, top)
  <2>1. ~Ended(Current) /\ EntryAt(Current).type = "USE" /\ ~ActionEntry(arch)
    BY <1>11 DEF UsePolicy, ActionEntry
  <2>2. top[1] = Current[1] /\ \A x \in AllFilters : Passed(Current, x) => Passed(top, x)
    BY <1>7 DEF After
  <2>3. CASE p \in used
    <3>1. work' = Append(Under, top) /\ used' = used BY <1>11, <2>3 DEF UsePolicy
    <3> HIDE DEF top
    <3>2. ReadOf(work, used) \subseteq ReadOf(Append(Under, top), used) BY <1>8, <2>2
    <3> QED BY <2>1, <3>1, <3>2
  <2>4. CASE p \notin used
    <3>1. used' = used \cup {p} /\ work' = Append(below, new) BY <1>11, <2>4 DEF UsePolicy
    <3>2. p \in PolicyNames BY <1>1, <2>1, CurrentOK
    <3>3. new[1] = p /\ p \notin used \cup {"@main"} BY <2>4, <3>2 DEF PolicyNames
    <3>4. top \in Frames BY <1>1, CurrentOK
    <3> HIDE DEF p, new, top
    <3>5. ReadOf(work, used) \subseteq ReadOf(below, used) /\ below \in Seq(Frames)
      <4>1. Append(Under, top) \in Seq(Frames) BY <1>2, <3>4
      <4> QED BY <1>2, <1>8, <1>9, <2>2, <4>1
    <3> HIDE DEF below
    <3> DEFINE vs == Append(below, new)
    <3>6. /\ DOMAIN below = 1..Len(below) /\ Len(below) \in Nat
          /\ DOMAIN vs = 1..(Len(below) + 1) /\ vs[Len(below) + 1] = new
          /\ \A d \in 1..Len(below) : vs[d] = below[d]
      BY <3>5, Appended
    <3> HIDE DEF vs
    <3>7. ASSUME NEW d \in DOMAIN vs
          PROVE  \/ vs[d][1] \notin used \cup {"@main"}
                 \/ \E e \in DOMAIN below :
                      /\ below[e][1] = vs[d][1]
                      /\ \A x \in AllFilters : Passed(below[e], x) => Passed(vs[d], x)
      <4>1. d = Len(below) + 1 \/ d \in 1..Len(below) BY <3>6
      <4> QED BY <3>3, <3>6, <4>1
    <3>8. used \subseteq used' BY <3>1
    <3>9. ReadOf(below, used) \subseteq ReadOf(vs, used') BY <3>7, <3>8, ReadGrows
    <3> QED BY <2>1, <3>1, <3>5, <3>9 DEF vs
  <2> QED BY <2>3, <2>4
<1>12. CASE ActionEntry(arch)
  <2> DEFINE e == EntryAt(Current)
             w == IF Current[3] < Len(e.filters) THEN <<Current[1], Current[2], Current[3] + 1>>
                  ELSE After(Current)
             z == <<Current[1], Current[2], Current[3]>>
  <2>1. /\ ~Ended(Current) /\ e.type = "ACTION" /\ used' = used
        /\ work' = Append(Under, w)
    BY <1>12 DEF ActionEntry
  <2>2. w[1] = Current[1] /\ (w[2] = Current[2] + 1 \/ (w[2] = Current[2] /\ w[3] = Current[3] + 1))
    BY DEF After
  <2>3. z[1] = Current[1] /\ z[2] = Current[2] /\ z[3] = Current[3] OBVIOUS
  <2>4. Current[2] \in DOMAIN Body(Current[1]) BY <1>1, <2>1, CurrentOK
  <2>5. Current[3] \in DOMAIN e.filters => z \in AllFilters
    BY <1>2, <2>1, <2>4, FilterPlaces DEF PolicyInv, EntryAt
  <2> HIDE DEF w, z, e
  <2>6. \A x \in AllFilters : Passed(Current, x) => Passed(w, x)
    <3> SUFFICES ASSUME NEW x \in AllFilters, Passed(Current, x) PROVE Passed(w, x) OBVIOUS
    <3>1. x[2] \in Nat /\ x[3] \in Nat BY <1>6
    <3>2. x[2] < Current[2] \/ (x[2] = Current[2] /\ x[3] < Current[3]) BY DEF Passed
    <3>3. x[2] < w[2] \/ (x[2] = w[2] /\ x[3] < w[3]) BY <1>2, <2>2, <3>1, <3>2
    <3> QED BY <3>3 DEF Passed
  <2>7. ReadOf(work, used) \subseteq ReadOf(work', used') BY <1>8, <2>1, <2>2, <2>6
  <2>8. ASSUME Current[3] \in DOMAIN e.filters PROVE z \in ReadOf(work', used') \ ReadOf(work, used)
    <3>1. z \in AllFilters BY <2>5, <2>8
    <3>2. z[1] \in used' \cup {"@main"} BY <1>2, <2>1, <2>3 DEF Frames
    <3>3. ~Passed(Current, z) BY <1>2, <2>3 DEF Passed
    <3>4. z \notin ReadOf(work, used) BY <1>3, <1>5, <2>3, <3>3 DEF ReadOf
    <3>5. Passed(w, z) BY <1>2, <2>2, <2>3 DEF Passed
    <3>6. /\ DOMAIN work' = 1..(Len(Under) + 1) /\ work'[Len(Under) + 1] = w
          /\ \A d \in 1..Len(Under) : work'[d] = Under[d]
      BY <1>2, <2>1, Appended
    <3>7. ASSUME NEW d \in DOMAIN work', work'[d][1] = z[1] PROVE Passed(work'[d], z)
      <4>1. CASE d = n BY <1>2, <3>5, <3>6, <4>1
      <4>2. CASE d # n
        <5>1. d \in 1..(n - 1) BY <1>2, <3>6, <4>2
        <5>2. work'[d] = work[d] /\ d \in DOMAIN work BY <1>2, <1>3, <1>4, <3>6, <5>1
        <5>3. work[d][1] = work[n][1] BY <1>3, <2>3, <3>7, <5>2
        <5> QED BY <1>1, <1>5, <4>2, <5>2, <5>3 DEF Apart
      <4> QED BY <4>1, <4>2
    <3>8. z \in ReadOf(work', used') BY <3>1, <3>2, <3>7 DEF ReadOf
    <3> QED BY <3>4, <3>8
  <2> QED BY <2>7, <2>8 DEF e, z
<1> QED BY <1>10, <1>11, <1>12

(* The filters are those of the policies.                                  *)
LEMMA FiltersUnchanged ==
  ASSUME UNCHANGED policies PROVE AllFilters' = AllFilters
<1>1. \A name : Body(name)' = Body(name) BY DEF Body
<1>2. \A name : FiltersOf(name)' = FiltersOf(name) BY <1>1 DEF FiltersOf
<1> QED BY <1>2 DEF AllFilters

(* In every compilation there are at most as many rules as filters that    *)
(* the walk has read, and it reads none twice.                             *)
THEOREM BoundKept == Spec => []BoundInv
<1>1. Init => BoundInv BY DEF Init, BoundInv
<1>2. PolicyInv /\ WalkInv /\ RulesInv /\ BoundInv /\ [Next]_vars => BoundInv'
  <2> SUFFICES ASSUME PolicyInv, WalkInv, RulesInv, BoundInv, [Next]_vars PROVE BoundInv' OBVIOUS
  <2> DEFINE Read == ReadOf(work, used)
             Now  == ReadOf(work', used')
  <2>1. IsFiniteSet(AllFilters) BY FiltersFinite DEF PolicyInv
  <2>2. Read \subseteq AllFilters /\ Now \subseteq AllFilters BY DEF ReadOf
  <2>3. IsFiniteSet(Read) /\ IsFiniteSet(Now) BY <2>1, <2>2, FS_Subset
  <2>4. /\ Cardinality(Read) \in Nat /\ Cardinality(Now) \in Nat /\ Cardinality(AllFilters) \in Nat
        /\ Cardinality(Read) <= Cardinality(AllFilters)
    BY <2>1, <2>2, <2>3, FS_CardinalityType, FS_Subset
  <2>5. Len(rules) \in Nat
    <3>1. PICK E : rules \in Seq(RuleType(E, Actions)) BY DEF RulesInv
    <3> QED BY <3>1
  <2> HIDE DEF Read, Now
  <2>6. CASE BeginArch
    <3>1. rules' = <<>> /\ stage' = "entries" /\ policies' = policies BY <2>6 DEF BeginArch
    <3>2. AllFilters' = AllFilters BY <3>1, FiltersUnchanged
    <3>3. ReadOf(work, used)' = Now BY <3>2 DEF ReadOf, Now
    <3>4. Len(rules') = 0 BY <3>1
    <3> QED BY <2>4, <3>1, <3>3, <3>4 DEF BoundInv
  <2>7. CASE CollectRules
    <3>1. stage = "entries" /\ policies' = policies
      BY <2>7 DEF CollectRules, LeaveBody, UsePolicy, ActionEntry, RulesComplete
    <3>2. AllFilters' = AllFilters BY <3>1, FiltersUnchanged
    <3>3. ReadOf(work, used)' = Now BY <3>2 DEF ReadOf, Now
    <3>4. Len(rules) <= Cardinality(Read) BY <3>1 DEF BoundInv, Read
    <3>5. CASE RulesComplete /\ stage' = "sort" /\ rules' = rules
      <4>1. Len(rules') <= Cardinality(AllFilters) BY <2>4, <2>5, <3>4, <3>5
      <4> QED BY <3>2, <3>5, <4>1 DEF BoundInv
    <3>6. CASE LeaveBody \/ UsePolicy \/ ActionEntry(Archs[Lowest(todo)])
      <4>1. stage' = stage
        BY <2>7, <3>6 DEF CollectRules, LeaveBody, UsePolicy, ActionEntry, RulesComplete
      <4>2. Read \subseteq Now BY <3>1, <3>6, WalkReads DEF Read, Now
      <4>3. Cardinality(Read) <= Cardinality(Now) BY <2>3, <4>2, FS_Subset
      <4>4. CASE rules' = rules
        <5>1. Len(rules') <= Cardinality(Now) BY <2>4, <2>5, <3>4, <4>3, <4>4
        <5> QED BY <3>1, <3>3, <4>1, <5>1 DEF BoundInv
      <4>5. CASE rules' # rules
        <5>1. ActionEntry(Archs[Lowest(todo)]) BY <3>6, <4>5 DEF LeaveBody, UsePolicy
        <5>2. Len(rules') = Len(rules) + 1 /\ Current[3] \in DOMAIN EntryAt(Current).filters
          BY <3>1, <4>5, <5>1, RulesCollected
        <5> DEFINE z == <<Current[1], Current[2], Current[3]>>
        <5>3. z \in Now /\ z \notin Read BY <3>1, <3>6, <5>1, <5>2, WalkReads DEF Read, Now
        <5> HIDE DEF z
        <5>4. Read \cup {z} \subseteq Now BY <4>2, <5>3
        <5>5. IsFiniteSet(Read \cup {z}) /\ Cardinality(Read \cup {z}) = Cardinality(Read) + 1
          BY <2>3, <5>3, FS_AddElement
        <5>6. Cardinality(Read \cup {z}) <= Cardinality(Now) BY <2>3, <5>4, FS_Subset
        <5>7. Len(rules') <= Cardinality(Now) BY <2>4, <2>5, <3>4, <5>2, <5>5, <5>6
        <5> QED BY <3>1, <3>3, <4>1, <5>7 DEF BoundInv
      <4> QED BY <4>4, <4>5
    <3> QED BY <2>7, <3>5, <3>6 DEF CollectRules
  <2>8. CASE Next /\ ~BeginArch /\ ~CollectRules
    <3>1. stage' \notin {"entries", "sort"}
      <4>1. CASE CompileText BY <4>1, ParseStages
      <4>2. CASE Validate BY <4>2 DEF Validate, Finish
      <4>3. CASE BeginCode BY <4>3 DEF BeginCode
      <4>4. CASE NormalizeRules BY <4>4, NormalizeStages DEF NormalizeRules
      <4>5. CASE BeginRules BY <4>5 DEF BeginRules
      <4>6. CASE GenerateCode BY <4>6, GenerateStages DEF GenerateCode
      <4>7. CASE FinishArch BY <4>7 DEF FinishArch
      <4>8. CASE FinishCode BY <4>8 DEF FinishCode, Finish
      <4>9. CASE Returned BY <4>9 DEF Returned, vars, normalVars
      <4> QED BY <2>8, <4>1, <4>2, <4>3, <4>4, <4>5, <4>6, <4>7, <4>8, <4>9 DEF Next
    <3> QED BY <3>1 DEF BoundInv
  <2>9. CASE UNCHANGED vars
    <3>1. UNCHANGED <<stage, rules, work, used, policies>> BY <2>9 DEF vars, normalVars, frontVars
    <3>2. AllFilters' = AllFilters BY <3>1, FiltersUnchanged
    <3>3. ReadOf(work, used)' = ReadOf(work, used) BY <3>1, <3>2 DEF ReadOf
    <3> QED BY <3>1, <3>2, <3>3 DEF BoundInv
  <2> QED BY <2>6, <2>7, <2>8, <2>9
<1> QED BY <1>1, <1>2, PoliciesKept, WalkKept, RulesKept, PTL DEF Spec

(* However often a text uses a policy, its filters give their rules once   *)
(* (RulesBounded).                                                         *)
THEOREM FiltersReadOnce == Spec => []RulesBounded
<1>1. PolicyInv /\ BoundInv => RulesBounded
  <2> SUFFICES ASSUME PolicyInv, BoundInv, stage \in {"entries", "sort"}
               PROVE  Len(rules) <= Cardinality(AllFilters)
    BY DEF RulesBounded
  <2>1. CASE stage = "sort" BY <2>1 DEF BoundInv
  <2>2. CASE stage = "entries"
    <3> DEFINE Read == ReadOf(work, used)
    <3>1. IsFiniteSet(AllFilters) BY FiltersFinite DEF PolicyInv
    <3>2. Read \subseteq AllFilters BY DEF ReadOf
    <3>3. Len(rules) <= Cardinality(Read) BY <2>2 DEF BoundInv
    <3> HIDE DEF Read
    <3>4. IsFiniteSet(Read) BY <3>1, <3>2, FS_Subset
    <3>5. Cardinality(Read) <= Cardinality(AllFilters) BY <3>1, <3>2, FS_Subset
    <3>6. Cardinality(Read) \in Nat /\ Cardinality(AllFilters) \in Nat
      BY <3>1, <3>4, FS_CardinalityType
    <3> QED BY <3>3, <3>5, <3>6
  <2> QED BY <2>1, <2>2
<1> QED BY <1>1, PoliciesKept, BoundKept, PTL

-----------------------------------------------------------------------------
(* The code and its caches.                                                *)

RetAt(c, loc, a) == loc \in 0..(Len(c.buf) - 1) /\ c.buf[loc + 1] = Ret(a)

CtxOK(c) ==
  /\ c = [buf |-> c.buf, basic |-> c.basic, cache |-> c.cache, stack |-> c.stack, missed |-> c.missed]
  /\ (\E I : c.buf \in Seq(I)) /\ c.stack \in Nat
  /\ c.basic = [a \in 1..ACTION_BASIC_MAX |-> c.basic[a]]
  /\ c.cache = [a \in DOMAIN c.cache |-> c.cache[a]]
  /\ IsFiniteSet(DOMAIN c.cache) /\ Cardinality(DOMAIN c.cache) <= MAX_JUMP
  /\ \A a \in 1..ACTION_BASIC_MAX : c.basic[a] # NOWHERE => RetAt(c, c.basic[a], a)
  /\ \A a \in DOMAIN c.cache : RetAt(c, c.cache[a], a)

(* At most the last k instructions of b are returns that nothing follows. *)
Rests(b, k) == Len(b) <= k \/ \E m \in 1..Len(b) : m >= Len(b) - k /\ b[m].op # "RET"

(* One more instruction, of whatever kind, in the buffer.                  *)
LEMMA RestsStep ==
  ASSUME NEW I, NEW b \in Seq(I), NEW k \in Nat, Rests(b, k), NEW x
  PROVE  /\ Rests(Append(b, x), k + 1) /\ Rests(b, k + 1)
         /\ x.op # "RET" => \A m \in Nat : Rests(Append(b, x), m)
<1> DEFINE t == Append(b, x)
           n == Len(b)
<1>1. /\ n \in Nat /\ DOMAIN t = 1..(n + 1) /\ t[n + 1] = x /\ \A m \in 1..n : t[m] = b[m]
  BY Appended
<1>2. Len(t) = n + 1
  <2>1. t \in Seq(I \cup {x}) BY SeqGrows, I \subseteq I \cup {x}
  <2> QED BY <1>1, <2>1
<1> HIDE DEF t, n
<1>3. n <= k \/ \E m \in 1..n : m >= n - k /\ b[m].op # "RET" BY DEF Rests, n
<1>4. Rests(t, k + 1)
  <2>1. CASE n <= k BY <1>1, <1>2, <2>1 DEF Rests
  <2>2. CASE \E m \in 1..n : m >= n - k /\ b[m].op # "RET"
    <3>1. PICK m \in 1..n : m >= n - k /\ b[m].op # "RET" BY <2>2
    <3>2. m \in 1..(n + 1) /\ m >= (n + 1) - (k + 1) /\ t[m].op # "RET" BY <1>1, <3>1
    <3> QED BY <1>2, <3>2 DEF Rests
  <2> QED BY <1>3, <2>1, <2>2
<1>5. Rests(b, k + 1)
  <2>1. CASE n <= k
    <3>1. n <= k + 1 BY <1>1, <2>1
    <3> QED BY <3>1 DEF Rests, n
  <2>2. CASE \E m \in 1..n : m >= n - k /\ b[m].op # "RET"
    <3>1. PICK m \in 1..n : m >= n - k /\ b[m].op # "RET" BY <2>2
    <3>2. m >= n - (k + 1) BY <1>1, <3>1
    <3> QED BY <3>1, <3>2 DEF Rests, n
  <2> QED BY <1>3, <2>1, <2>2
<1>6. ASSUME x.op # "RET", NEW m \in Nat PROVE Rests(t, m)
  <2>1. n + 1 \in 1..(n + 1) /\ n + 1 >= (n + 1) - m /\ t[n + 1].op # "RET" BY <1>1, <1>6
  <2> QED BY <1>2, <2>1 DEF Rests
<1> QED BY <1>4, <1>5, <1>6 DEF t

(* An instruction more. *)
LEMMA Written ==
  ASSUME NEW c, CtxOK(c), NEW x, NEW s \in Nat, NEW m
  PROVE  LET d == [buf |-> Append(c.buf, x), basic |-> c.basic, cache |-> c.cache,
                   stack |-> s, missed |-> m]
         IN /\ CtxOK(d) /\ Len(d.buf) = Len(c.buf) + 1 /\ Len(c.buf) \in Nat
            /\ \A loc, a : RetAt(c, loc, a) => RetAt(d, loc, a)
<1> DEFINE t == Append(c.buf, x)
           n == Len(c.buf)
           d == [buf |-> t, basic |-> c.basic, cache |-> c.cache, stack |-> s, missed |-> m]
<1>1. PICK I : c.buf \in Seq(I) BY DEF CtxOK
<1>2. /\ n \in Nat /\ t[n + 1] = x /\ \A k \in 1..n : t[k] = c.buf[k]
  BY <1>1, Appended
<1>3. t \in Seq(I \cup {x}) /\ Len(t) = n + 1
  <2>1. c.buf \in Seq(I \cup {x}) BY <1>1, SeqGrows, I \subseteq I \cup {x}
  <2> QED BY <1>2, <2>1
<1> HIDE DEF t, n
<1>4. d.buf = t /\ d.basic = c.basic /\ d.cache = c.cache /\ d.stack = s /\ d.missed = m OBVIOUS
<1> HIDE DEF d
<1>5. ASSUME NEW loc, NEW a, RetAt(c, loc, a) PROVE RetAt(d, loc, a)
  <2>1. loc \in 0..(n - 1) /\ c.buf[loc + 1] = Ret(a) BY <1>5 DEF RetAt, n
  <2>2. loc \in 0..n /\ loc + 1 \in 1..n BY <1>2, <2>1
  <2>3. loc \in 0..(Len(t) - 1) /\ t[loc + 1] = Ret(a) BY <1>2, <1>3, <2>1, <2>2
  <2> QED BY <1>4, <2>3 DEF RetAt
<1>6. /\ c.basic = [a \in 1..ACTION_BASIC_MAX |-> c.basic[a]]
      /\ c.cache = [a \in DOMAIN c.cache |-> c.cache[a]]
      /\ IsFiniteSet(DOMAIN c.cache) /\ Cardinality(DOMAIN c.cache) <= MAX_JUMP
      /\ \A a \in 1..ACTION_BASIC_MAX : c.basic[a] # NOWHERE => RetAt(c, c.basic[a], a)
      /\ \A a \in DOMAIN c.cache : RetAt(c, c.cache[a], a)
  BY DEF CtxOK
<1>7. d = [buf |-> d.buf, basic |-> d.basic, cache |-> d.cache, stack |-> d.stack, missed |-> d.missed]
  BY <1>4 DEF d
<1>8. CtxOK(d) BY <1>3, <1>4, <1>5, <1>6, <1>7 DEF CtxOK
<1> QED BY <1>2, <1>3, <1>4, <1>5, <1>8 DEF d, t, n

(* What Add makes of the buffer and of nothing else.                       *)
LEMMA AddTo ==
  ASSUME NEW b, NEW bs, NEW h, NEW s, NEW m, NEW x
  PROVE  Add([buf |-> b, basic |-> bs, cache |-> h, stack |-> s, missed |-> m], x)
         = [buf |-> Append(b, x), basic |-> bs, cache |-> h, stack |-> s, missed |-> m]
BY DEF Add

(* The same of a context in order.                                         *)
LEMMA AddToCtx ==
  ASSUME NEW c, CtxOK(c), NEW x
  PROVE  Add(c, x) = [buf |-> Append(c.buf, x), basic |-> c.basic, cache |-> c.cache,
                      stack |-> c.stack, missed |-> c.missed]
<1> DEFINE e == [buf |-> c.buf, basic |-> c.basic, cache |-> c.cache, stack |-> c.stack,
                 missed |-> c.missed]
<1>1. Add(e, x) = [buf |-> Append(c.buf, x), basic |-> c.basic, cache |-> c.cache,
                   stack |-> c.stack, missed |-> c.missed]
  BY AddTo
<1>2. c = e BY DEF CtxOK
<1> HIDE DEF e
<1> QED BY <1>1, <1>2

(* A context with an instruction more is a context.                        *)
LEMMA AddedOK ==
  ASSUME NEW c, CtxOK(c), NEW x, NEW d, d = Add(c, x)
  PROVE  CtxOK(d)
<1> DEFINE s == c.stack
           m == c.missed
<1>1. s \in Nat BY DEF CtxOK
<1>2. d = [buf |-> Append(c.buf, x), basic |-> c.basic, cache |-> c.cache, stack |-> s, missed |-> m]
  BY AddToCtx
<1> HIDE DEF s, m
<1> DEFINE e == [buf |-> Append(c.buf, x), basic |-> c.basic, cache |-> c.cache, stack |-> s, missed |-> m]
<1>3. CtxOK(e) BY <1>1, Written
<1> HIDE DEF e
<1> QED BY <1>2, <1>3 DEF e

(* A return more, which one of the caches knows of. *)
LEMMA NotedBasic ==
  ASSUME NEW c, CtxOK(c), NEW a
  PROVE  LET d == Add([c EXCEPT !.basic[a] = Len(c.buf)], Ret(a))
         IN CtxOK(d) /\ d.buf = Append(c.buf, Ret(a))
<1> DEFINE n == Len(c.buf)
           x == Ret(a)
           b == [c.basic EXCEPT ![a] = n]
           w == [buf |-> Append(c.buf, x), basic |-> c.basic, cache |-> c.cache,
                 stack |-> c.stack, missed |-> c.missed]
           d == [buf |-> Append(c.buf, x), basic |-> b, cache |-> c.cache,
                 stack |-> c.stack, missed |-> c.missed]
<1>1. Add([c EXCEPT !.basic[a] = n], x) = d
  <2>1. c = [buf |-> c.buf, basic |-> c.basic, cache |-> c.cache, stack |-> c.stack, missed |-> c.missed]
    BY DEF CtxOK
  <2> HIDE DEF x, n
  <2>2. [c EXCEPT !.basic[a] = n] = [c EXCEPT !.basic = b] BY <2>1
  <2> HIDE DEF b
  <2>3. [c EXCEPT !.basic = b]
        = [buf |-> c.buf, basic |-> b, cache |-> c.cache, stack |-> c.stack, missed |-> c.missed]
    BY <2>1
  <2> DEFINE e == [c EXCEPT !.basic[a] = n]
  <2>4. e = [buf |-> c.buf, basic |-> b, cache |-> c.cache, stack |-> c.stack, missed |-> c.missed]
    BY <2>2, <2>3
  <2> HIDE DEF e
  <2>5. Add(e, x) = d BY <2>4, AddTo
  <2> QED BY <2>5 DEF e
<1>2. /\ CtxOK(w) /\ Len(w.buf) = n + 1 /\ n \in Nat
      /\ \A loc, y : RetAt(c, loc, y) => RetAt(w, loc, y)
  <2>1. c.stack \in Nat BY DEF CtxOK
  <2> HIDE DEF x
  <2> QED BY <2>1, Written
<1>3. w.buf[n + 1] = Ret(a)
  <2>1. PICK I : c.buf \in Seq(I) BY DEF CtxOK
  <2> HIDE DEF x
  <2>2. Append(c.buf, x)[n + 1] = x BY <2>1, Appended
  <2> QED BY <2>2 DEF x
<1>4. d.buf = w.buf /\ d.cache = w.cache /\ d.basic = b /\ d.stack = w.stack /\ d.missed = w.missed
      /\ d.buf = Append(c.buf, Ret(a)) /\ w.basic = c.basic
  OBVIOUS
<1>5. d = [buf |-> d.buf, basic |-> d.basic, cache |-> d.cache, stack |-> d.stack, missed |-> d.missed]
  OBVIOUS
<1> HIDE DEF d, w, n
<1>6. c.basic = [y \in 1..ACTION_BASIC_MAX |-> c.basic[y]] BY DEF CtxOK
<1>7. b = [y \in 1..ACTION_BASIC_MAX |-> b[y]]
      /\ \A y \in 1..ACTION_BASIC_MAX : b[y] = IF y = a THEN n ELSE c.basic[y]
  BY <1>6
<1> HIDE DEF b
<1>8. \A loc, y : RetAt(w, loc, y) => RetAt(d, loc, y) BY <1>4 DEF RetAt
<1>9. ASSUME NEW y \in 1..ACTION_BASIC_MAX, b[y] # NOWHERE PROVE RetAt(d, b[y], y)
  <2>1. CASE y = a
    <3>1. b[y] = n BY <1>7, <2>1
    <3>2. n \in 0..(Len(d.buf) - 1) /\ d.buf[n + 1] = Ret(y) BY <1>2, <1>3, <1>4, <2>1
    <3> QED BY <3>1, <3>2 DEF RetAt
  <2>2. CASE y # a
    <3>1. b[y] = c.basic[y] /\ RetAt(c, c.basic[y], y) BY <1>7, <1>9, <2>2 DEF CtxOK
    <3> QED BY <1>2, <1>8, <3>1
  <2> QED BY <2>1, <2>2
<1>10. CtxOK(d) BY <1>2, <1>4, <1>5, <1>7, <1>8, <1>9 DEF CtxOK
<1> QED BY <1>1, <1>4, <1>10 DEF n

(* purge_location_cache leaves room for one entry more: the instructions   *)
(* that MAX_JUMP reaches are not all returns.                              *)
LEMMA KeptFit ==
  ASSUME NEW c, CtxOK(c), Rests(c.buf, 2)
  PROVE  LET kept == {b \in DOMAIN c.cache : LocToJump(c, c.cache[b]) < MAX_JUMP}
         IN IsFiniteSet(kept) /\ Cardinality(kept) <= MAX_JUMP - 1
<1> DEFINE n == Len(c.buf)
           kept == {b \in DOMAIN c.cache : LocToJump(c, c.cache[b]) < MAX_JUMP}
<1>1. n \in Nat /\ \A b \in DOMAIN c.cache : RetAt(c, c.cache[b], b)
  <2>1. PICK I : c.buf \in Seq(I) BY DEF CtxOK
  <2> QED BY <2>1 DEF CtxOK
<1>2. MAX_JUMP \in Nat /\ MAX_JUMP >= 3 BY CodegenConstants
<1>3. \A b \in kept : /\ c.cache[b] \in 0..(n - 1) /\ c.buf[c.cache[b] + 1] = Ret(b)
                      /\ (n - 1) - c.cache[b] < MAX_JUMP
  BY <1>1 DEF RetAt, LocToJump, CurrentLoc
<1>4. IsFiniteSet(DOMAIN c.cache) BY DEF CtxOK
<1>5. IsFiniteSet(kept) BY <1>4, FS_Subset
<1>6. \A b1, b2 : Ret(b1) = Ret(b2) => b1 = b2
  <2> SUFFICES ASSUME NEW b1, NEW b2, Ret(b1) = Ret(b2) PROVE b1 = b2 OBVIOUS
  <2>1. Ret(b1).k = b1 /\ Ret(b2).k = b2 BY DEF Ret
  <2> QED BY <2>1
<1>7. \A b : Ret(b).op = "RET" BY DEF Ret
<1> DEFINE f == [b \in kept |-> c.cache[b] + 1]
<1>8. ASSUME NEW W, IsFiniteSet(W), \A b \in kept : c.cache[b] + 1 \in W
      PROVE  Cardinality(kept) <= Cardinality(W)
  <2> HIDE DEF kept
  <2>1. \A b \in kept : f[b] = c.cache[b] + 1 /\ f[b] \in W BY <1>8
  <2>2. f \in [kept -> W] BY <1>8
  <2> HIDE DEF f
  <2>3. \A b1, b2 \in kept : f[b1] = f[b2] => b1 = b2
    <3> SUFFICES ASSUME NEW b1 \in kept, NEW b2 \in kept, f[b1] = f[b2] PROVE b1 = b2 OBVIOUS
    <3>1. c.buf[f[b1]] = Ret(b1) /\ c.buf[f[b2]] = Ret(b2) BY <1>3, <2>1
    <3> QED BY <1>6, <3>1
  <2>4. f \in Injection(kept, W) BY <2>2, <2>3 DEF Injection, IsInjective
  <2> QED BY <1>8, <2>4, FS_Injection
<1>9. CASE n <= 2
  <2>1. IsFiniteSet(1..n) /\ Cardinality(1..n) = n
    <3>1. 1 \in Int /\ n \in Int /\ (1 > n => n = 0) BY <1>1
    <3>2. IsFiniteSet(1..n) /\ Cardinality(1..n) = IF 1 > n THEN 0 ELSE n - 1 + 1
      BY <3>1, FS_Interval
    <3> QED BY <1>1, <3>1, <3>2
  <2>2. \A b \in kept : c.cache[b] + 1 \in 1..n BY <1>1, <1>3
  <2>3. Cardinality(kept) <= n BY <1>8, <2>1, <2>2
  <2>4. Cardinality(kept) \in Nat BY <1>5, FS_CardinalityType
  <2> HIDE DEF kept, n
  <2>5. Cardinality(kept) <= MAX_JUMP - 1
    <3> DEFINE z == Cardinality(kept)
    <3>1. z <= n /\ z \in Nat BY <2>3, <2>4
    <3> HIDE DEF z
    <3>2. z <= MAX_JUMP - 1 BY <1>1, <1>2, <1>9, <3>1
    <3> QED BY <3>2 DEF z
  <2> QED BY <1>5, <2>5 DEF kept
<1>10. CASE n > 2
  <2>1. PICK m \in 1..n : m >= n - 2 /\ c.buf[m].op # "RET" BY <1>1, <1>10 DEF Rests
  <2> DEFINE lo == n - MAX_JUMP + 1
             V == lo..n
             W == V \ {m}
  <2>2. lo \in Int /\ n \in Int /\ lo <= n /\ n - lo + 1 = MAX_JUMP /\ m \in V
    BY <1>1, <1>2, <2>1
  <2>3. IsFiniteSet(V) /\ Cardinality(V) = MAX_JUMP
    <3>1. IsFiniteSet(V) /\ Cardinality(V) = IF lo > n THEN 0 ELSE n - lo + 1
      BY <2>2, FS_Interval
    <3> QED BY <2>2, <3>1
  <2>4. IsFiniteSet(W) /\ Cardinality(W) = MAX_JUMP - 1
    <3> HIDE DEF V
    <3> QED BY <2>2, <2>3, FS_RemoveElement
  <2>5. ASSUME NEW b \in kept PROVE c.cache[b] + 1 \in W
    <3> DEFINE loc == c.cache[b]
    <3>1. loc \in 0..(n - 1) /\ c.buf[loc + 1] = Ret(b) /\ (n - 1) - loc < MAX_JUMP BY <1>3
    <3> HIDE DEF loc
    <3>2. loc + 1 \in V BY <1>1, <1>2, <3>1
    <3>3. loc + 1 # m BY <1>7, <2>1, <3>1
    <3> HIDE DEF V
    <3> QED BY <3>2, <3>3 DEF loc
  <2> HIDE DEF W, kept
  <2>6. Cardinality(kept) <= Cardinality(W) BY <1>8, <2>4, <2>5
  <2> QED BY <1>5, <2>4, <2>6 DEF kept
<1> QED BY <1>1, <1>9, <1>10

(* A return with data more, which the cache knows of.                      *)
LEMMA NotedCache ==
  ASSUME NEW c, CtxOK(c), NEW a, NEW h, h = [b \in DOMAIN h |-> h[b]], a \in DOMAIN h,
         IsFiniteSet(DOMAIN h), Cardinality(DOMAIN h) <= MAX_JUMP, h[a] = Len(c.buf),
         \A b \in DOMAIN h \ {a} : b \in DOMAIN c.cache /\ h[b] = c.cache[b]
  PROVE  LET d == Add([c EXCEPT !.cache = h], Ret(a))
         IN CtxOK(d) /\ d.buf = Append(c.buf, Ret(a))
<1> DEFINE n == Len(c.buf)
           x == Ret(a)
           w == [buf |-> Append(c.buf, x), basic |-> c.basic, cache |-> c.cache,
                 stack |-> c.stack, missed |-> c.missed]
           d == [buf |-> Append(c.buf, x), basic |-> c.basic, cache |-> h,
                 stack |-> c.stack, missed |-> c.missed]
<1>1. Add([c EXCEPT !.cache = h], x) = d
  <2>1. c = [buf |-> c.buf, basic |-> c.basic, cache |-> c.cache, stack |-> c.stack, missed |-> c.missed]
    BY DEF CtxOK
  <2> HIDE DEF x
  <2> DEFINE e == [c EXCEPT !.cache = h]
  <2>2. e = [buf |-> c.buf, basic |-> c.basic, cache |-> h, stack |-> c.stack, missed |-> c.missed]
    BY <2>1
  <2> HIDE DEF e
  <2>3. Add(e, x) = d BY <2>2, AddTo
  <2> QED BY <2>3 DEF e
<1>2. /\ CtxOK(w) /\ Len(w.buf) = n + 1 /\ n \in Nat
      /\ \A loc, y : RetAt(c, loc, y) => RetAt(w, loc, y)
  <2>1. c.stack \in Nat BY DEF CtxOK
  <2> HIDE DEF x
  <2> QED BY <2>1, Written
<1>3. w.buf[n + 1] = Ret(a)
  <2>1. PICK I : c.buf \in Seq(I) BY DEF CtxOK
  <2> HIDE DEF x
  <2>2. Append(c.buf, x)[n + 1] = x BY <2>1, Appended
  <2> QED BY <2>2 DEF x
<1>4. d.buf = w.buf /\ d.cache = h /\ d.basic = w.basic /\ d.stack = w.stack /\ d.missed = w.missed
      /\ d.buf = Append(c.buf, Ret(a))
  OBVIOUS
<1>5. d = [buf |-> d.buf, basic |-> d.basic, cache |-> d.cache, stack |-> d.stack, missed |-> d.missed]
  OBVIOUS
<1> HIDE DEF d, w
<1>6. \A loc, y : RetAt(w, loc, y) => RetAt(d, loc, y) BY <1>4 DEF RetAt
<1>7. ASSUME NEW y \in DOMAIN h PROVE RetAt(d, h[y], y)
  <2>1. CASE y = a
    <3>1. n \in 0..(Len(d.buf) - 1) /\ d.buf[n + 1] = Ret(y) BY <1>2, <1>3, <1>4, <2>1
    <3> QED BY <2>1, <3>1 DEF RetAt
  <2>2. CASE y # a
    <3>1. h[y] = c.cache[y] /\ RetAt(c, c.cache[y], y) BY <2>2 DEF CtxOK
    <3> QED BY <1>2, <1>6, <3>1
  <2> QED BY <2>1, <2>2
<1> HIDE DEF n
<1>8. CtxOK(d) BY <1>2, <1>4, <1>5, <1>6, <1>7 DEF CtxOK
<1> QED BY <1>1, <1>4, <1>8

(* resolve_action keeps the context in order.                              *)
LEMMA ResolvedAction ==
  ASSUME NEW c, CtxOK(c), Rests(c.buf, 2), NEW a
  PROVE  LET d == ResolveAction(c, a).c
         IN CtxOK(d) /\ (d = c \/ d.buf = Append(c.buf, Ret(a)))
<1>1. CASE a <= ACTION_BASIC_MAX
  <2>1. ResolveAction(c, a) = BasicAction(c, a) BY <1>1 DEF ResolveAction
  <2>2. CASE Near(c, c.basic[a])
    <3>1. BasicAction(c, a).c = c BY <2>2 DEF BasicAction, At
    <3> QED BY <2>1, <3>1
  <2>3. CASE ~Near(c, c.basic[a])
    <3> DEFINE d == Add([c EXCEPT !.basic[a] = Len(c.buf)], Ret(a))
    <3>1. BasicAction(c, a).c = d BY <2>3 DEF BasicAction, Added, At
    <3>2. CtxOK(d) /\ d.buf = Append(c.buf, Ret(a)) BY NotedBasic
    <3> HIDE DEF d
    <3> QED BY <2>1, <3>1, <3>2
  <2> QED BY <2>2, <2>3
<1>2. CASE ~(a <= ACTION_BASIC_MAX)
  <2>1. ResolveAction(c, a) = DataAction(c, a) BY <1>2 DEF ResolveAction
  <2>2. CASE a \notin DOMAIN c.cache
    <3> DEFINE h == Cached(c, a)
               kept == {b \in DOMAIN c.cache : LocToJump(c, c.cache[b]) < MAX_JUMP}
               d == Add([c EXCEPT !.cache = h], Ret(a))
    <3>1. DataAction(c, a).c = d BY <2>2 DEF DataAction, Added, At
    <3>2. IsFiniteSet(kept) /\ Cardinality(kept) <= MAX_JUMP - 1 BY KeptFit
    <3>3. /\ h = [b \in DOMAIN h |-> h[b]] /\ DOMAIN h = kept \cup {a} /\ h[a] = Len(c.buf)
          /\ \A b \in kept : b # a => h[b] = c.cache[b]
      BY DEF Cached
    <3>4. kept \subseteq DOMAIN c.cache OBVIOUS
    <3> HIDE DEF h, kept
    <3>5. IsFiniteSet(DOMAIN h) /\ Cardinality(DOMAIN h) <= MAX_JUMP
      <4>1. /\ IsFiniteSet(kept \cup {a})
            /\ Cardinality(kept \cup {a}) = IF a \in kept THEN Cardinality(kept) ELSE Cardinality(kept) + 1
        BY <3>2, FS_AddElement
      <4>2. Cardinality(kept) \in Nat /\ MAX_JUMP \in Nat
        BY <3>2, FS_CardinalityType, CodegenConstants
      <4> QED BY <3>2, <3>3, <4>1, <4>2
    <3>6. \A b \in DOMAIN h \ {a} : b \in DOMAIN c.cache /\ h[b] = c.cache[b] BY <3>3, <3>4
    <3>7. a \in DOMAIN h BY <3>3
    <3>8. CtxOK(d) /\ d.buf = Append(c.buf, Ret(a)) BY <3>3, <3>5, <3>6, <3>7, NotedCache
    <3> HIDE DEF d
    <3> QED BY <2>1, <3>1, <3>8
  <2>3. CASE a \in DOMAIN c.cache /\ Near(c, c.cache[a])
    <3>1. DataAction(c, a).c = c BY <2>3 DEF DataAction, At
    <3> QED BY <2>1, <3>1
  <2>4. CASE a \in DOMAIN c.cache /\ ~Near(c, c.cache[a])
    <3> DEFINE h == [c.cache EXCEPT ![a] = Len(c.buf)]
               d == Add([c EXCEPT !.cache = h], Ret(a))
    <3>1. DataAction(c, a).c = d BY <2>4 DEF DataAction, Added, At
    <3>2. c.cache = [b \in DOMAIN c.cache |-> c.cache[b]] BY DEF CtxOK
    <3>3. /\ h = [b \in DOMAIN h |-> h[b]] /\ DOMAIN h = DOMAIN c.cache /\ h[a] = Len(c.buf)
          /\ \A b \in DOMAIN h \ {a} : h[b] = c.cache[b]
      BY <2>4, <3>2
    <3>4. IsFiniteSet(DOMAIN c.cache) /\ Cardinality(DOMAIN c.cache) <= MAX_JUMP BY DEF CtxOK
    <3> HIDE DEF h
    <3>5. CtxOK(d) /\ d.buf = Append(c.buf, Ret(a)) BY <2>4, <3>3, <3>4, NotedCache
    <3> HIDE DEF d
    <3> QED BY <2>1, <3>1, <3>5
  <2> QED BY <2>2, <2>3, <2>4
<1> QED BY <1>1, <1>2

(* resolve_location does, and adds one return at most.                     *)
LEMMA Resolved ==
  ASSUME NEW c, CtxOK(c), NEW k \in 0..2, Rests(c.buf, k), Rests(c.buf, 2), NEW loc
  PROVE  LET d == ResolveLocation(c, loc).c
         IN /\ CtxOK(d) /\ Rests(d.buf, k + 1)
            /\ Len(c.buf) \in Nat /\ Len(d.buf) \in Nat /\ Len(d.buf) >= Len(c.buf)
<1>1. PICK I : c.buf \in Seq(I) BY DEF CtxOK
<1>2. Len(c.buf) \in Nat BY <1>1
<1>3. k \in Nat OBVIOUS
<1>4. ASSUME NEW d, CtxOK(d), NEW x, d = c \/ d.buf = Append(c.buf, x)
      PROVE  Rests(d.buf, k + 1) /\ Len(d.buf) \in Nat /\ Len(d.buf) >= Len(c.buf)
  <2>1. Rests(Append(c.buf, x), k + 1) /\ Rests(c.buf, k + 1) BY <1>1, <1>3, RestsStep
  <2>2. Len(Append(c.buf, x)) = Len(c.buf) + 1
    <3>1. c.buf \in Seq(I \cup {x}) BY <1>1, SeqGrows, I \subseteq I \cup {x}
    <3> QED BY <3>1
  <2>3. CASE d = c BY <1>2, <2>1, <2>3
  <2>4. CASE d.buf = Append(c.buf, x)
    <3>1. Len(c.buf) + 1 \in Nat /\ Len(c.buf) + 1 >= Len(c.buf) BY <1>2
    <3> QED BY <2>1, <2>2, <2>4, <3>1
  <2> QED BY <1>4, <2>3, <2>4
<1> DEFINE d == ResolveLocation(c, loc).c
<1>5. CtxOK(d) /\ \E x : d = c \/ d.buf = Append(c.buf, x)
  <2>1. CASE loc < 0
    <3>1. ResolveLocation(c, loc) = ResolveAction(c, -loc) BY <2>1 DEF ResolveLocation
    <3> DEFINE y == -loc
               r == ResolveAction(c, y).c
    <3> HIDE DEF y
    <3>2. CtxOK(r) /\ \E x : r = c \/ r.buf = Append(c.buf, x) BY ResolvedAction
    <3> HIDE DEF r
    <3>3. d = r BY <3>1 DEF r, y
    <3> HIDE DEF d
    <3> QED BY <3>2, <3>3
  <2>2. CASE ~(loc < 0) /\ LocToJump(c, loc) > MAX_JUMP
    <3> DEFINE x == Ja(LocToJump(c, loc))
    <3>1. d = Add(c, x) BY <2>2 DEF ResolveLocation, Added, At
    <3> HIDE DEF x, d
    <3>3. d = [buf |-> Append(c.buf, x), basic |-> c.basic, cache |-> c.cache, stack |-> c.stack,
               missed |-> c.missed]
      BY <3>1, AddToCtx
    <3>4. CtxOK(d) BY <3>1, AddedOK
    <3>5. d.buf = Append(c.buf, x) BY <3>3
    <3> QED BY <3>4, <3>5
  <2>3. CASE ~(loc < 0) /\ ~(LocToJump(c, loc) > MAX_JUMP)
    <3>1. d = c BY <2>3 DEF ResolveLocation, At
    <3> QED BY <3>1
  <2> QED BY <2>1, <2>2, <2>3
<1> HIDE DEF d
<1>6. PICK x : d = c \/ d.buf = Append(c.buf, x) BY <1>5
<1>7. Rests(d.buf, k + 1) /\ Len(d.buf) \in Nat /\ Len(d.buf) >= Len(c.buf) BY <1>4, <1>5, <1>6
<1> QED BY <1>2, <1>5, <1>7 DEF d

(* Code that d is the continuation of, with loc a place in it or one that  *)
(* the jump was to go to.                                                  *)
Continues(c, r, tloc, floc) ==
  /\ CtxOK(r.c) /\ Rests(r.c.buf, 0)
  /\ Len(c.buf) \in Nat /\ Len(r.c.buf) \in Nat /\ Len(r.c.buf) >= Len(c.buf)
  /\ \/ r.loc \in {tloc, floc}
     \/ r.loc = Len(r.c.buf) - 1 /\ Len(r.c.buf) > Len(c.buf)

(* add_jump does, and its result is a place that is written.               *)
LEMMA JumpAdded ==
  ASSUME NEW c, CtxOK(c), Rests(c.buf, 0), NEW type, type # "RET", NEW src, NEW k, NEW tloc, NEW floc
  PROVE  Continues(c, AddJump(c, type, src, k, tloc, floc), tloc, floc)
<1>0. \E I : c.buf \in Seq(I) BY DEF CtxOK
<1>1. PICK I : c.buf \in Seq(I) BY <1>0
<1>2. Len(c.buf) \in Nat BY <1>1
<1>3. CASE tloc = floc
  <2>1. AddJump(c, type, src, k, tloc, floc) = [c |-> c, loc |-> tloc] BY <1>3 DEF AddJump, At
  <2> QED BY <1>2, <2>1 DEF Continues
<1>4. CASE tloc # floc
  <2> DEFINE t == ResolveLocation(c, tloc)
             f == ResolveLocation(t.c, floc)
             u == ResolveLocation(f.c, tloc)
             x == Jump(type, src, k, Field(LocToJump(u.c, u.loc)), Field(LocToJump(u.c, f.loc)))
             m == \/ u.c.missed \/ LocToJump(u.c, u.loc) > MAX_JUMP
                  \/ LocToJump(u.c, f.loc) > MAX_JUMP
             w == [u.c EXCEPT !.missed = m]
             r == AddJump(c, type, src, k, tloc, floc)
  <2>1. r = [c |-> Add(w, x), loc |-> Len(w.buf)]
    BY <1>4 DEF AddJump, ResolveAgain, JumpTo, WriteJump, Added, At
  <2>2. x.op = type BY DEF Jump
  <2> HIDE DEF x, m, r
  <2>3. 0 \in 0..2 /\ 1 \in 0..2 /\ 2 \in 0..2 /\ 0 + 1 = 1 /\ 1 + 1 = 2 /\ 2 + 1 = 3 OBVIOUS
  <2>4. Rests(c.buf, 1) /\ Rests(c.buf, 2)
    <3>1. Rests(c.buf, 0 + 1) BY <1>1, RestsStep
    <3>2. Rests(c.buf, 1) BY <2>3, <3>1
    <3>3. Rests(c.buf, 1 + 1) BY <1>1, <3>2, RestsStep
    <3> QED BY <2>3, <3>2, <3>3
  <2>5. CtxOK(t.c) /\ Rests(t.c.buf, 1) /\ Len(t.c.buf) \in Nat /\ Len(t.c.buf) >= Len(c.buf)
    BY <2>3, <2>4, Resolved
  <2> HIDE DEF t
  <2>6. Rests(t.c.buf, 2)
    <3>1. PICK J : t.c.buf \in Seq(J) BY <2>5 DEF CtxOK
    <3>2. Rests(t.c.buf, 1 + 1) BY <2>5, <3>1, RestsStep
    <3> QED BY <2>3, <3>2
  <2>7. CtxOK(f.c) /\ Rests(f.c.buf, 2) /\ Len(f.c.buf) \in Nat /\ Len(f.c.buf) >= Len(t.c.buf)
    BY <2>3, <2>5, <2>6, Resolved
  <2> HIDE DEF f
  <2>8. CtxOK(u.c) /\ Len(u.c.buf) \in Nat /\ Len(u.c.buf) >= Len(f.c.buf)
    BY <2>3, <2>7, Resolved
  <2> HIDE DEF u
  <2>9. u.c = [buf |-> u.c.buf, basic |-> u.c.basic, cache |-> u.c.cache, stack |-> u.c.stack,
               missed |-> u.c.missed]
    BY <2>8 DEF CtxOK
  <2>10. w = [buf |-> u.c.buf, basic |-> u.c.basic, cache |-> u.c.cache, stack |-> u.c.stack,
              missed |-> m]
    BY <2>9
  <2> HIDE DEF w
  <2> DEFINE v == Add(w, x)
  <2>11. v = [buf |-> Append(u.c.buf, x), basic |-> u.c.basic, cache |-> u.c.cache,
              stack |-> u.c.stack, missed |-> m]
    BY <2>10, AddTo
  <2>12. CtxOK(v) /\ Len(v.buf) = Len(u.c.buf) + 1
    <3> DEFINE g == u.c
    <3>1. CtxOK(g) /\ g.stack \in Nat BY <2>8 DEF CtxOK
    <3>2. v = [buf |-> Append(g.buf, x), basic |-> g.basic, cache |-> g.cache, stack |-> g.stack, missed |-> m]
      BY <2>11
    <3> HIDE DEF g, v
    <3>3. CtxOK(v) /\ Len(v.buf) = Len(g.buf) + 1 BY <3>1, <3>2, Written
    <3> QED BY <3>3 DEF g
  <2>13. v.buf = Append(u.c.buf, x) /\ w.buf = u.c.buf BY <2>10, <2>11
  <2> HIDE DEF v
  <2>14. Rests(v.buf, 0)
    <3>1. PICK J : u.c.buf \in Seq(J) BY <2>8 DEF CtxOK
    <3>2. Rests(u.c.buf, Len(u.c.buf)) BY <2>8 DEF Rests
    <3>3. \A y \in Nat : Rests(Append(u.c.buf, x), y) BY <2>2, <2>8, <3>1, <3>2, RestsStep
    <3> QED BY <2>13, <3>3
  <2>15. r.c = v /\ r.loc = Len(u.c.buf) BY <2>1, <2>13 DEF v
  <2>16. /\ Len(v.buf) \in Nat /\ Len(v.buf) >= Len(c.buf) /\ Len(v.buf) > Len(c.buf)
         /\ Len(u.c.buf) = Len(v.buf) - 1
    <3> DEFINE a1 == Len(c.buf)
               a2 == Len(t.c.buf)
               a3 == Len(f.c.buf)
               a4 == Len(u.c.buf)
               a5 == Len(v.buf)
    <3>1. a1 \in Nat /\ a2 \in Nat /\ a3 \in Nat /\ a4 \in Nat BY <1>2, <2>5, <2>7, <2>8
    <3>2. a2 >= a1 /\ a3 >= a2 /\ a4 >= a3 /\ a5 = a4 + 1 BY <2>5, <2>7, <2>8, <2>12
    <3> HIDE DEF a1, a2, a3, a4, a5
    <3>3. a5 \in Nat /\ a5 >= a1 /\ a5 > a1 /\ a4 = a5 - 1 BY <3>1, <3>2
    <3> QED BY <3>3 DEF a1, a4, a5
  <2>17. Continues(c, r, tloc, floc) BY <1>2, <2>12, <2>14, <2>15, <2>16 DEF Continues
  <2> QED BY <2>17 DEF r
<1> QED BY <1>3, <1>4

(* It does not matter which of the two targets is which.                   *)
LEMMA ContinuesTo ==
  ASSUME NEW c, NEW r, NEW t1, NEW f1, Continues(c, r, t1, f1), NEW t2, NEW f2,
         {t1, f1} \subseteq {t2, f2}
  PROVE  Continues(c, r, t2, f2)
BY DEF Continues

(* To add nothing is to go on at a target.                                 *)
LEMMA Stays ==
  ASSUME NEW c, CtxOK(c), Rests(c.buf, 0), NEW loc, NEW tloc, NEW floc, loc \in {tloc, floc}
  PROVE  Continues(c, At(c, loc), tloc, floc)
<1>1. PICK I : c.buf \in Seq(I) BY DEF CtxOK
<1>2. Len(c.buf) \in Nat BY <1>1
<1>3. At(c, loc).c = c /\ At(c, loc).loc = loc BY DEF At
<1> QED BY <1>2, <1>3 DEF Continues

JumpTypes == {"JEQ", "JGE", "JGT"}

(* A jump of one of the two words.                                         *)
LEMMA WordJumpAdded ==
  ASSUME NEW c, CtxOK(c), Rests(c.buf, 0), NEW type \in JumpTypes, NEW e, NEW tloc, NEW floc, NEW word
  PROVE  Continues(c, WordJump(c, type, e, tloc, floc, word), tloc, floc)
<1> DEFINE y == Comparison(type, e, tloc, floc, word)
           x == Masked(y, word)
<1>1. /\ y.type \in JumpTypes /\ {y.tloc, y.floc} \subseteq {tloc, floc}
  <2>1. CASE IsConst(e.left, word) /\ type \in {"JGT", "JGE"} BY <2>1 DEF Comparison, JumpTypes
  <2>2. CASE ~(IsConst(e.left, word) /\ type \in {"JGT", "JGE"}) BY <2>2 DEF Comparison, JumpTypes
  <2> QED BY <2>1, <2>2
<1> HIDE DEF y
<1>2. x.type \in JumpTypes \cup {"JSET"} /\ {x.tloc, x.floc} \subseteq {y.tloc, y.floc}
  <2> DEFINE m == /\ y.type \in {"JEQ", "JGT"} /\ y.left.type = "BIT_AND"
                  /\ Const(y.right, word) = {0}
  <2>1. CASE ~m
    <3>1. x = y BY <2>1 DEF Masked
    <3> HIDE DEF x
    <3> QED BY <1>1, <3>1
  <2>2. CASE m
    <3>1. x = [type  |-> "JSET",
               left  |-> Operands(y.left, word)[1],
               right |-> Operands(y.left, word)[2],
               tloc  |-> IF y.type = "JEQ" THEN y.floc ELSE y.tloc,
               floc  |-> IF y.type = "JEQ" THEN y.tloc ELSE y.floc]
      BY <2>2 DEF Masked
    <3> HIDE DEF x
    <3> QED BY <3>1
  <2> QED BY <2>1, <2>2
<1>3. x.type # "RET" /\ {x.tloc, x.floc} \subseteq {tloc, floc} BY <1>1, <1>2 DEF JumpTypes
<1>4. CASE Decided(e, word)
  <2> DEFINE loc == IF Jumps(type, ValueOf(e.left, word), ValueOf(e.right, word)) THEN tloc ELSE floc
  <2>1. WordJump(c, type, e, tloc, floc, word) = At(c, loc) BY <1>4 DEF WordJump
  <2>2. loc \in {tloc, floc} OBVIOUS
  <2> HIDE DEF loc
  <2> QED BY <2>1, <2>2, Stays
<1>5. CASE ~Decided(e, word) /\ IsConst(x.right, word)
  <2> DEFINE v == ValueOf(x.right, word)
             r == AddJumpK(c, x.type, v, x.tloc, x.floc)
  <2>1. WordJump(c, type, e, tloc, floc, word) = r BY <1>5 DEF WordJump, y
  <2> HIDE DEF x, v
  <2>2. \/ r = At(c, x.tloc) \/ r = At(c, x.floc) \/ r = AddJump(c, x.type, "K", v, x.tloc, x.floc)
    BY DEF AddJumpK
  <2>3. Continues(c, AddJump(c, x.type, "K", v, x.tloc, x.floc), x.tloc, x.floc)
    BY <1>3, JumpAdded
  <2>4. /\ Continues(c, At(c, x.tloc), x.tloc, x.floc)
        /\ Continues(c, At(c, x.floc), x.tloc, x.floc)
    BY Stays
  <2> HIDE DEF r
  <2>5. Continues(c, r, x.tloc, x.floc) BY <2>2, <2>3, <2>4
  <2>6. Continues(c, r, tloc, floc) BY <1>3, <2>5, ContinuesTo
  <2> QED BY <2>1, <2>6
<1>6. CASE ~Decided(e, word) /\ ~IsConst(x.right, word)
  <2> DEFINE r == AddJump(c, x.type, "X", 0, x.tloc, x.floc)
  <2>1. WordJump(c, type, e, tloc, floc, word) = r BY <1>6 DEF WordJump, y
  <2> HIDE DEF x
  <2>2. Continues(c, r, x.tloc, x.floc) BY <1>3, JumpAdded
  <2> HIDE DEF r
  <2>3. Continues(c, r, tloc, floc) BY <1>3, <2>2, ContinuesTo
  <2> QED BY <2>1, <2>3
<1> QED BY <1>4, <1>5, <1>6

(* Where code may go on: at an instruction that has been written, or with  *)
(* an action that the text can give.                                       *)
Locs(n) == {-a : a \in Actions} \cup 0..(n - 1)

(* What is written stays written.                                          *)
LEMMA LocsGrow == ASSUME NEW n \in Nat, NEW m \in Nat, m >= n PROVE Locs(n) \subseteq Locs(m)
<1>1. 0..(n - 1) \subseteq 0..(m - 1) OBVIOUS
<1> QED BY <1>1 DEF Locs

(* A result goes on at a target or at what is written by now.              *)
LEMMA ContinuesIn ==
  ASSUME NEW c, NEW r, NEW tloc, NEW floc, Continues(c, r, tloc, floc),
         tloc \in Locs(Len(c.buf)), floc \in Locs(Len(c.buf))
  PROVE  /\ r.loc \in Locs(Len(r.c.buf)) /\ Locs(Len(c.buf)) \subseteq Locs(Len(r.c.buf))
         /\ r.loc > CurrentLoc(c) => Len(r.c.buf) >= 1
<1> DEFINE n == Len(c.buf)
           m == Len(r.c.buf)
<1>1. n \in Nat /\ m \in Nat /\ m >= n BY DEF Continues
<1> HIDE DEF n, m
<1>2. Locs(n) \subseteq Locs(m) BY <1>1, LocsGrow
<1>3. CASE r.loc \in {tloc, floc}
  <2>1. r.loc \in Locs(n) BY <1>3 DEF n
  <2>2. r.loc <= n - 1
    <3>1. \A a \in Actions : a \in Nat \ {0} BY ActionRange
    <3>2. r.loc \in 0..(n - 1) \/ \E a \in Actions : r.loc = -a BY <2>1 DEF Locs
    <3> QED BY <1>1, <3>1, <3>2
  <2>3. r.loc \in Int
    <3>1. \A a \in Actions : a \in Nat BY ActionRange
    <3> QED BY <2>1, <3>1 DEF Locs
  <2>4. ~(r.loc > n - 1) BY <1>1, <2>2, <2>3
  <2> QED BY <1>2, <2>1, <2>4 DEF n, m, CurrentLoc
<1>4. CASE r.loc = m - 1 /\ m > n
  <2>1. r.loc \in 0..(m - 1) /\ m >= 1 BY <1>1, <1>4
  <2>2. r.loc \in Locs(m) BY <2>1 DEF Locs
  <2> QED BY <1>2, <2>1, <2>2 DEF n, m
<1> QED BY <1>3, <1>4 DEF Continues, n, m

TaskOK(t, n) ==
  /\ t.task = "write" => t.instr.op # "RET"
  /\ t.task = "compare" => t.type \in JumpTypes
  /\ t.task \in {"branch", "compare", "high"} =>
       t.tloc \in Locs(n) \cup {HERE} /\ t.floc \in Locs(n) \cup {HERE}
  /\ t.task = "newest" => n >= 1
  /\ t.task = "load" => t.sp \in Nat
TasksOK(ts, n) == \E I : ts \in Seq(I) /\ \A t \in I : TaskOK(t, n)

(* Tasks in order stay so while more is written.                           *)
LEMMA TasksGrow ==
  ASSUME NEW n \in Nat, NEW m \in Nat, m >= n, NEW ts, TasksOK(ts, n) PROVE TasksOK(ts, m)
<1>1. Locs(n) \subseteq Locs(m) BY LocsGrow
<1>2. ASSUME NEW t, TaskOK(t, n) PROVE TaskOK(t, m)
  <2>1. n >= 1 => m >= 1 OBVIOUS
  <2> QED BY <1>1, <1>2, <2>1 DEF TaskOK
<1> QED BY <1>2 DEF TasksOK

(* Tasks in order before tasks in order.                                   *)
LEMMA TasksMore ==
  ASSUME NEW n, NEW ts, NEW us, TasksOK(ts, n), TasksOK(us, n) PROVE TasksOK(ts \o us, n)
<1>1. PICK I : ts \in Seq(I) /\ \A t \in I : TaskOK(t, n) BY DEF TasksOK
<1>2. PICK J : us \in Seq(J) /\ \A t \in J : TaskOK(t, n) BY DEF TasksOK
<1>3. ts \in Seq(I \cup J) BY <1>1, SeqGrows, I \subseteq I \cup J
<1>4. us \in Seq(I \cup J) BY <1>2, SeqGrows, J \subseteq I \cup J
<1>5. ts \o us \in Seq(I \cup J) BY <1>3, <1>4
<1>6. \A t \in I \cup J : TaskOK(t, n) BY <1>1, <1>2
<1> QED BY <1>5, <1>6 DEF TasksOK

(* The task at hand and those after it.                                    *)
LEMMA TaskOn ==
  ASSUME NEW n, TasksOK(tasks, n), tasks # <<>> PROVE TaskOK(Task, n) /\ TasksOK(Later, n)
<1>1. PICK I : tasks \in Seq(I) /\ \A t \in I : TaskOK(t, n) BY DEF TasksOK
<1>2. Task \in I /\ Later \in Seq(I) BY <1>1, FrontOf DEF Task, Later
<1> QED BY <1>1, <1>2 DEF TasksOK

(* Tasks in order, taken one by one.                                       *)
LEMMA TasksIn ==
  ASSUME NEW n, NEW I, NEW ts \in Seq(I), \A t \in I : TaskOK(t, n) PROVE TasksOK(ts, n)
BY DEF TasksOK

(* Up to three tasks in order.                                             *)
LEMMA TasksListed ==
  ASSUME NEW n
  PROVE  /\ TasksOK(<<>>, n)
         /\ \A t1 : TaskOK(t1, n) => TasksOK(<<t1>>, n)
         /\ \A t1, t2 : TaskOK(t1, n) /\ TaskOK(t2, n) => TasksOK(<<t1, t2>>, n)
         /\ \A t1, t2, t3 : TaskOK(t1, n) /\ TaskOK(t2, n) /\ TaskOK(t3, n) =>
              TasksOK(<<t1, t2, t3>>, n)
<1>1. TasksOK(<<>>, n)
  <2> DEFINE I == {}
             ts == <<>>
  <2>1. ts \in Seq(I) OBVIOUS
  <2>2. \A t \in I : TaskOK(t, n) OBVIOUS
  <2> HIDE DEF I, ts
  <2>3. TasksOK(ts, n) BY <2>1, <2>2, TasksIn
  <2> QED BY <2>3 DEF ts
<1>2. ASSUME NEW t1, TaskOK(t1, n) PROVE TasksOK(<<t1>>, n)
  <2> DEFINE I == {t1}
             ts == <<t1>>
  <2>1. ts \in Seq(I) OBVIOUS
  <2>2. \A t \in I : TaskOK(t, n) BY <1>2
  <2> HIDE DEF I, ts
  <2>3. TasksOK(ts, n) BY <2>1, <2>2, TasksIn
  <2> QED BY <2>3 DEF ts
<1>3. ASSUME NEW t1, NEW t2, TaskOK(t1, n), TaskOK(t2, n) PROVE TasksOK(<<t1, t2>>, n)
  <2> DEFINE I == {t1, t2}
             ts == <<t1, t2>>
  <2>1. ts \in Seq(I) OBVIOUS
  <2>2. \A t \in I : TaskOK(t, n) BY <1>3
  <2> HIDE DEF I, ts
  <2>3. TasksOK(ts, n) BY <2>1, <2>2, TasksIn
  <2> QED BY <2>3 DEF ts
<1>4. ASSUME NEW t1, NEW t2, NEW t3, TaskOK(t1, n), TaskOK(t2, n), TaskOK(t3, n)
      PROVE  TasksOK(<<t1, t2, t3>>, n)
  <2> DEFINE I == {t1, t2, t3}
             ts == <<t1, t2, t3>>
  <2>1. ts \in Seq(I) OBVIOUS
  <2>2. \A t \in I : TaskOK(t, n) BY <1>4
  <2> HIDE DEF I, ts
  <2>3. TasksOK(ts, n) BY <2>1, <2>2, TasksIn
  <2> QED BY <2>3 DEF ts
<1> QED BY <1>1, <1>2, <1>3, <1>4

(* Loads have no target, and what they write is no return. *)
LEMMA LoadTasks ==
  ASSUME NEW n
  PROVE  /\ \A e, w : \A sp \in Nat : TaskOK(LoadValue(e, w, sp), n)
         /\ \A x : x.op # "RET" => TaskOK(Write(x), n)
         /\ n >= 1 => TaskOK(Newest, n)
         /\ \A l, r, w : \A sp \in Nat : TasksOK(LoadBoth(l, r, w, sp), n)
         /\ n >= 1 => \A type, e, w : TasksOK(OperandLoads(type, e, w), n)
<1>1. \A e, w : \A sp \in Nat : TaskOK(LoadValue(e, w, sp), n) BY DEF TaskOK, LoadValue
<1>2. \A x : x.op # "RET" => TaskOK(Write(x), n) BY DEF TaskOK, Write
<1>3. n >= 1 => TaskOK(Newest, n) BY DEF TaskOK, Newest
<1>4. ASSUME NEW l, NEW r, NEW w, NEW sp \in Nat PROVE TasksOK(LoadBoth(l, r, w, sp), n)
  <2> DEFINE t1 == LoadValue(r, w, sp)
             t2 == Write(TAX)
             t3 == LoadValue(l, w, sp)
             t4 == Write(Slot("ST", sp))
             t5 == LoadValue(l, w, sp + 1)
             t6 == Write(Slot("LDX", sp))
  <2>1. TAX.op # "RET" /\ Slot("ST", sp).op # "RET" /\ Slot("LDX", sp).op # "RET" BY DEF TAX, Slot
  <2>2. /\ TaskOK(t1, n) /\ TaskOK(t2, n) /\ TaskOK(t3, n)
        /\ TaskOK(t4, n) /\ TaskOK(t5, n) /\ TaskOK(t6, n)
    BY <1>1, <1>2, <2>1
  <2>3. LoadBoth(l, r, w, sp) = <<t1>> \o (IF l.type = "VAR" THEN <<t2, t3>> ELSE <<t4, t5, t6>>)
    BY DEF LoadBoth
  <2> HIDE DEF t1, t2, t3, t4, t5, t6
  <2>4. TasksOK(<<t1>>, n) /\ TasksOK(<<t2, t3>>, n) /\ TasksOK(<<t4, t5, t6>>, n)
    BY <2>2, TasksListed
  <2>5. TasksOK(<<t1>> \o <<t2, t3>>, n) /\ TasksOK(<<t1>> \o <<t4, t5, t6>>, n)
    BY <2>4, TasksMore
  <2> QED BY <2>3, <2>5
<1>5. ASSUME n >= 1, NEW type, NEW e, NEW w PROVE TasksOK(OperandLoads(type, e, w), n)
  <2> DEFINE x == Masked(Comparison(type, e, NOWHERE, NOWHERE, w), w)
  <2>1. OperandLoads(type, e, w)
        = IF IsConst(x.right, w) THEN <<Newest, LoadValue(x.left, w, 0)>>
          ELSE <<Newest>> \o LoadBoth(x.left, x.right, w, 0)
    BY DEF OperandLoads
  <2> HIDE DEF x
  <2>2. TasksOK(<<Newest, LoadValue(x.left, w, 0)>>, n) /\ TasksOK(<<Newest>>, n)
    BY <1>1, <1>3, <1>5, TasksListed
  <2>3. TasksOK(<<Newest>> \o LoadBoth(x.left, x.right, w, 0), n) BY <1>4, <2>2, TasksMore
  <2> QED BY <2>1, <2>2, <2>3
<1> QED BY <1>1, <1>2, <1>3, <1>4, <1>5

(* Any instruction but a return keeps the context in order.                *)
LEMMA InstructionAdded ==
  ASSUME NEW c, CtxOK(c), NEW x, x.op # "RET", NEW s \in Nat
  PROVE  /\ CtxOK(Add(c, x)) /\ Rests(Add(c, x).buf, 0) /\ Len(Add(c, x).buf) = Len(c.buf) + 1
         /\ LET d == Add([c EXCEPT !.stack = s], x)
            IN CtxOK(d) /\ Rests(d.buf, 0) /\ Len(d.buf) = Len(c.buf) + 1
         /\ Len(c.buf) \in Nat
<1> DEFINE v(z) == [buf |-> Append(c.buf, x), basic |-> c.basic, cache |-> c.cache, stack |-> z,
                    missed |-> c.missed]
<1>1. ASSUME NEW z \in Nat
      PROVE  CtxOK(v(z)) /\ Rests(v(z).buf, 0) /\ Len(v(z).buf) = Len(c.buf) + 1 /\ Len(c.buf) \in Nat
  <2>1. CtxOK(v(z)) /\ Len(v(z).buf) = Len(c.buf) + 1 /\ Len(c.buf) \in Nat BY Written
  <2>2. PICK I : c.buf \in Seq(I) BY DEF CtxOK
  <2>3. Rests(c.buf, Len(c.buf)) BY <2>1 DEF Rests
  <2>4. \A m \in Nat : Rests(Append(c.buf, x), m) BY <2>1, <2>2, <2>3, RestsStep
  <2>5. v(z).buf = Append(c.buf, x) OBVIOUS
  <2> HIDE DEF v
  <2> QED BY <2>1, <2>4, <2>5
<1>2. Add(c, x) = v(c.stack) /\ c.stack \in Nat BY AddToCtx DEF CtxOK
<1>3. Add([c EXCEPT !.stack = s], x) = v(s)
  <2> DEFINE e == [c EXCEPT !.stack = s]
  <2>1. c = [buf |-> c.buf, basic |-> c.basic, cache |-> c.cache, stack |-> c.stack, missed |-> c.missed]
    BY DEF CtxOK
  <2>2. e = [buf |-> c.buf, basic |-> c.basic, cache |-> c.cache, stack |-> s, missed |-> c.missed]
    BY <2>1
  <2> HIDE DEF e
  <2>3. Add(e, x) = v(s) BY <2>2, AddTo
  <2> QED BY <2>3 DEF e
<1> HIDE DEF v
<1> QED BY <1>1, <1>2, <1>3

WritingOK ==
  /\ CtxOK(code) /\ Rests(code.buf, 0) /\ Len(code.buf) \in Nat
  /\ TasksOK(tasks, Len(code.buf)) /\ next \in Locs(Len(code.buf))

(* The targets of the task at hand are written.                            *)
LEMMA TargetsIn ==
  ASSUME WritingOK, tasks # <<>>, Task.task \in {"branch", "compare", "high"}
  PROVE  Tloc \in Locs(Len(code.buf)) /\ Floc \in Locs(Len(code.buf))
<1>1. TaskOK(Task, Len(code.buf)) BY TaskOn DEF WritingOK
<1>2. /\ Task.tloc \in Locs(Len(code.buf)) \cup {HERE}
      /\ Task.floc \in Locs(Len(code.buf)) \cup {HERE}
  BY <1>1 DEF TaskOK
<1>3. next \in Locs(Len(code.buf)) BY DEF WritingOK
<1> QED BY <1>2, <1>3 DEF Tloc, Floc, Target

(* Tasks whose targets are written, or the place where they end, are in    *)
(* order.                                                                  *)
LEMMA Targeted ==
  ASSUME NEW n, NEW t \in Locs(n) \cup {HERE}, NEW f \in Locs(n) \cup {HERE}
  PROVE  /\ \A e : TaskOK(Branch(e, t, f), n)
         /\ \A e : TaskOK(CompareHigh(e, t, f), n)
         /\ \A type \in JumpTypes : \A e, w : TaskOK(Compare(type, e, t, f, w), n)
BY DEF TaskOK, Branch, CompareHigh, Compare

(* A connective or a comparison is replaced by tasks in order.             *)
LEMMA BranchReplaced ==
  ASSUME WritingOK, GenerateConnective \/ GenerateComparison
  PROVE  \E us : TasksOK(us, Len(code.buf)) /\ Replace(us)
<1> DEFINE n == Len(code.buf)
           e == Task.expr
<1>1. tasks # <<>> /\ Task.task = "branch"
  BY DEF GenerateConnective, GenerateComparison, Doing
<1>2. Tloc \in Locs(n) \cup {HERE} /\ Floc \in Locs(n) \cup {HERE} /\ HERE \in Locs(n) \cup {HERE}
  BY <1>1, TargetsIn
<1> HIDE DEF n
<1>3. CASE GenerateConnective
  <2>1. \/ Replace(<<Branch(e.left, HERE, Floc), Branch(e.right, Tloc, Floc)>>)
        \/ Replace(<<Branch(e.left, Tloc, HERE), Branch(e.right, Tloc, Floc)>>)
        \/ Replace(<<Branch(e.child, Floc, Tloc)>>)
    BY <1>3 DEF GenerateConnective
  <2>2. /\ TaskOK(Branch(e.left, HERE, Floc), n) /\ TaskOK(Branch(e.right, Tloc, Floc), n)
        /\ TaskOK(Branch(e.left, Tloc, HERE), n) /\ TaskOK(Branch(e.child, Floc, Tloc), n)
    BY <1>2, Targeted
  <2>3. /\ TasksOK(<<Branch(e.left, HERE, Floc), Branch(e.right, Tloc, Floc)>>, n)
        /\ TasksOK(<<Branch(e.left, Tloc, HERE), Branch(e.right, Tloc, Floc)>>, n)
        /\ TasksOK(<<Branch(e.child, Floc, Tloc)>>, n)
    BY <2>2, TasksListed
  <2> QED BY <2>1, <2>3 DEF n
<1>4. CASE GenerateComparison
  <2>1. CASE /\ e.type \in DOMAIN Negated
             /\ Replace(<<Branch([e EXCEPT !.type = Negated[@]], Floc, Tloc)>>)
    <3> DEFINE x == [e EXCEPT !.type = Negated[@]]
    <3> HIDE DEF x
    <3>1. TaskOK(Branch(x, Floc, Tloc), n) BY <1>2, Targeted
    <3>2. TasksOK(<<Branch(x, Floc, Tloc)>>, n) BY <3>1, TasksListed
    <3> QED BY <2>1, <3>2 DEF n, x
  <2>2. CASE /\ e.type \in {"GT", "GE"}
             /\ Replace((IF Is64bit(e) THEN <<CompareHigh(e, Tloc, Floc)>> ELSE <<>>)
                        \o <<Compare(JumpType[e.type], e, Tloc, Floc, "LOW")>>)
    <3>1. JumpType[e.type] \in JumpTypes BY <2>2 DEF JumpType, JumpTypes
    <3> DEFINE t1 == CompareHigh(e, Tloc, Floc)
               t2 == Compare(JumpType[e.type], e, Tloc, Floc, "LOW")
               us == IF Is64bit(e) THEN <<t1>> ELSE <<>>
    <3>2. TaskOK(t1, n) /\ TaskOK(t2, n) BY <1>2, <3>1, Targeted
    <3>3. Replace(us \o <<t2>>) BY <2>2
    <3> HIDE DEF t1, t2
    <3>4. TasksOK(us, n) /\ TasksOK(<<t2>>, n) BY <3>2, TasksListed
    <3> HIDE DEF us
    <3>5. TasksOK(us \o <<t2>>, n) BY <3>4, TasksMore
    <3> QED BY <3>3, <3>5 DEF n
  <2>3. CASE /\ e.type = "EQ"
             /\ Replace((IF Is64bit(e) THEN <<Compare("JEQ", e, HERE, Floc, "HIGH")>> ELSE <<>>)
                        \o <<Compare("JEQ", e, Tloc, Floc, "LOW")>>)
    <3>1. "JEQ" \in JumpTypes BY DEF JumpTypes
    <3> DEFINE t1 == Compare("JEQ", e, HERE, Floc, "HIGH")
               t2 == Compare("JEQ", e, Tloc, Floc, "LOW")
               us == IF Is64bit(e) THEN <<t1>> ELSE <<>>
    <3>2. TaskOK(t1, n) /\ TaskOK(t2, n) BY <1>2, <3>1, Targeted
    <3>3. Replace(us \o <<t2>>) BY <2>3
    <3> HIDE DEF t1, t2
    <3>4. TasksOK(us, n) /\ TasksOK(<<t2>>, n) BY <3>2, TasksListed
    <3> HIDE DEF us
    <3>5. TasksOK(us \o <<t2>>, n) BY <3>4, TasksMore
    <3> QED BY <3>3, <3>5 DEF n
  <2> QED BY <1>4, <2>1, <2>2, <2>3 DEF GenerateComparison
<1> QED BY <1>3, <1>4

(* Every step of generate_expr and generate_load. *)
LEMMA ExprGenerated ==
  ASSUME WritingOK, GenerateExpr
  PROVE  WritingOK' /\ Len(code'.buf) >= Len(code.buf)
<1> DEFINE n == Len(code.buf)
           m == Len(code'.buf)
<1>1. CtxOK(code) /\ Rests(code.buf, 0) /\ n \in Nat /\ TasksOK(tasks, n) /\ next \in Locs(n)
  BY DEF WritingOK
<1>2. ASSUME CtxOK(code'), Rests(code'.buf, 0), m \in Nat, m >= n, next' \in Locs(m),
             NEW us, TasksOK(us, m), tasks # <<>>, tasks' = Later \o us
      PROVE  WritingOK' /\ m >= n
  <2> HIDE DEF n, m
  <2>1. TasksOK(Later, n) BY <1>1, <1>2, TaskOn
  <2>2. TasksOK(Later, m) BY <1>1, <1>2, <2>1, TasksGrow
  <2>3. TasksOK(tasks', m) BY <1>2, <2>2, TasksMore
  <2>4. TasksOK(tasks, Len(code.buf))' BY <2>3 DEF TasksOK, TaskOK, Locs, m
  <2>5. (next \in Locs(Len(code.buf)))' BY <1>2 DEF Locs, m
  <2>6. CtxOK(code)' /\ Rests(code.buf, 0)' BY <1>2 DEF CtxOK, RetAt, Rests
  <2> QED BY <1>2, <2>4, <2>5, <2>6 DEF WritingOK, m
<1>3. ASSUME tasks # <<>> PROVE Later = Later \o <<>> /\ TasksOK(<<>>, m)
  <2>1. PICK I : tasks \in Seq(I) BY <1>1 DEF TasksOK
  <2>2. Later \in Seq(I) BY <1>3, <2>1, FrontOf DEF Later
  <2> QED BY <2>2, TasksListed
<1>4. CASE GenerateConnective \/ GenerateComparison
  <2>1. PICK us : TasksOK(us, n) /\ Replace(us) BY <1>4, BranchReplaced
  <2>2. tasks' = Later \o us /\ code' = code /\ next' = next BY <2>1 DEF Replace
  <2>3. tasks # <<>> BY <1>4 DEF GenerateConnective, GenerateComparison, Doing
  <2>4. m = n /\ m >= n BY <1>1, <2>2
  <2> HIDE DEF n, m
  <2> QED BY <1>1, <1>2, <2>1, <2>2, <2>3, <2>4
<1>5. CASE CompareWord
  <2> DEFINE t == Task
             r == WordJump(code, t.type, t.expr, Tloc, Floc, t.word)
             us == IF r.loc > CurrentLoc(code) THEN OperandLoads(t.type, t.expr, t.word) ELSE <<>>
  <2>1. /\ tasks # <<>> /\ Task.task = "compare"
        /\ code' = r.c /\ next' = r.loc /\ tasks' = Later \o us
    BY <1>5 DEF CompareWord, Doing
  <2>2. Task.type \in JumpTypes /\ Tloc \in Locs(n) /\ Floc \in Locs(n)
    BY <1>1, <2>1, TaskOn, TargetsIn DEF TaskOK
  <2>3. Continues(code, r, Tloc, Floc) BY <1>1, <2>2, WordJumpAdded
  <2> HIDE DEF r
  <2>4. /\ r.loc \in Locs(Len(r.c.buf)) /\ (r.loc > CurrentLoc(code) => Len(r.c.buf) >= 1)
    BY <2>2, <2>3, ContinuesIn
  <2>5. CtxOK(r.c) /\ Rests(r.c.buf, 0) /\ Len(r.c.buf) \in Nat /\ Len(r.c.buf) >= n
    BY <2>3 DEF Continues
  <2>6. TasksOK(us, m)
    <3>1. CASE r.loc > CurrentLoc(code) BY <2>1, <2>4, <3>1, LoadTasks
    <3>2. CASE ~(r.loc > CurrentLoc(code)) BY <3>2, TasksListed
    <3> QED BY <3>1, <3>2
  <2> HIDE DEF us
  <2> QED BY <1>2, <2>1, <2>4, <2>5, <2>6
<1>6. CASE CompareHighWords
  <2> DEFINE e  == Task.expr
             ge == WordJump(code, "JGE", e, next, Floc, "HIGH")
             gt == WordJump(ge.c, "JGT", e, Tloc, ge.loc, "HIGH")
             loaded == ge.loc > CurrentLoc(code) \/ gt.loc > CurrentLoc(ge.c)
             us == IF loaded THEN OperandLoads("JGT", e, "HIGH") ELSE <<>>
  <2>1. /\ tasks # <<>> /\ Task.task = "high"
        /\ code' = gt.c /\ next' = gt.loc /\ tasks' = Later \o us
    BY <1>6 DEF CompareHighWords, Doing
  <2>2. Tloc \in Locs(n) /\ Floc \in Locs(n) BY <2>1, TargetsIn
  <2>3. "JGE" \in JumpTypes /\ "JGT" \in JumpTypes BY DEF JumpTypes
  <2>4. Continues(code, ge, next, Floc) BY <1>1, <2>3, WordJumpAdded
  <2> HIDE DEF ge
  <2>5. /\ ge.loc \in Locs(Len(ge.c.buf)) /\ Locs(n) \subseteq Locs(Len(ge.c.buf))
        /\ (ge.loc > CurrentLoc(code) => Len(ge.c.buf) >= 1)
    BY <1>1, <2>2, <2>4, ContinuesIn
  <2>6. CtxOK(ge.c) /\ Rests(ge.c.buf, 0) /\ Len(ge.c.buf) \in Nat /\ Len(ge.c.buf) >= n
    BY <2>4 DEF Continues
  <2>7. Continues(ge.c, gt, Tloc, ge.loc) BY <2>3, <2>6, WordJumpAdded
  <2> HIDE DEF gt
  <2>8. /\ gt.loc \in Locs(Len(gt.c.buf)) /\ (gt.loc > CurrentLoc(ge.c) => Len(gt.c.buf) >= 1)
    BY <2>2, <2>5, <2>7, ContinuesIn
  <2>9. CtxOK(gt.c) /\ Rests(gt.c.buf, 0) /\ Len(gt.c.buf) \in Nat /\ Len(gt.c.buf) >= Len(ge.c.buf)
    BY <2>7 DEF Continues
  <2>10. Len(gt.c.buf) >= n /\ (loaded => Len(gt.c.buf) >= 1)
    <3> DEFINE g == Len(ge.c.buf)
               k == Len(gt.c.buf)
    <3>1. g \in Nat /\ k \in Nat /\ g >= n /\ k >= g BY <2>6, <2>9
    <3>2. loaded => g >= 1 \/ k >= 1 BY <2>5, <2>8
    <3> HIDE DEF g, k, loaded, n
    <3>3. k >= n /\ (loaded => k >= 1) BY <1>1, <3>1, <3>2
    <3> QED BY <3>3 DEF k
  <2> HIDE DEF loaded
  <2>11. TasksOK(us, m)
    <3>1. CASE loaded BY <2>1, <2>10, <3>1, LoadTasks
    <3>2. CASE ~loaded BY <3>2, TasksListed
    <3> QED BY <3>1, <3>2
  <2> HIDE DEF us
  <2> QED BY <1>2, <2>1, <2>8, <2>9, <2>10, <2>11
<1>7. ASSUME tasks # <<>>, NEW x, x.op # "RET", NEW s \in Nat,
             code' = Add(code, x) \/ code' = Add([code EXCEPT !.stack = s], x) \/ code' = code,
             next' = next, NEW us, tasks' = Later \o us, \A k \in Nat : TasksOK(us, k)
      PROVE  WritingOK' /\ m >= n
  <2>1. /\ CtxOK(code') /\ Rests(code'.buf, 0) /\ (m = n + 1 \/ m = n)
    <3>1. CASE code' = code BY <1>1, <3>1
    <3>2. CASE code' = Add(code, x) BY <1>1, <1>7, <3>2, InstructionAdded
    <3>3. CASE code' = Add([code EXCEPT !.stack = s], x) BY <1>1, <1>7, <3>3, InstructionAdded
    <3> QED BY <1>7, <3>1, <3>2, <3>3
  <2> HIDE DEF n, m
  <2>2. m \in Nat /\ m >= n BY <1>1, <2>1
  <2>3. next' \in Locs(m) BY <1>1, <1>7, <2>2, LocsGrow
  <2> QED BY <1>2, <1>7, <2>1, <2>2, <2>3
<1>8. CASE LoadArgument
  <2> DEFINE x == LoadArg(Task.expr.var, Task.word)
  <2>1. tasks # <<>> /\ code' = Add(code, x) /\ tasks' = Later /\ next' = next
    BY <1>8 DEF LoadArgument, Doing
  <2>2. x.op # "RET" BY DEF LoadArg
  <2> HIDE DEF x, m, n
  <2>3. Later = Later \o <<>> /\ \A k \in Nat : TasksOK(<<>>, k) BY <1>3, <2>1, TasksListed
  <2>4. tasks' = Later \o <<>> BY <2>1, <2>3
  <2> QED BY <1>7, <2>1, <2>2, <2>3, <2>4 DEF m, n
<1>9. CASE WriteInstruction
  <2>1. tasks # <<>> /\ code' = Add(code, Task.instr) /\ tasks' = Later /\ next' = next
        /\ Task.task = "write"
    BY <1>9 DEF WriteInstruction, Doing
  <2>2. Task.instr.op # "RET" BY <1>1, <2>1, TaskOn DEF TaskOK
  <2> HIDE DEF m, n
  <2>3. Later = Later \o <<>> /\ \A k \in Nat : TasksOK(<<>>, k) BY <1>3, <2>1, TasksListed
  <2>4. tasks' = Later \o <<>> BY <2>1, <2>3
  <2> QED BY <1>7, <2>1, <2>2, <2>3, <2>4 DEF m, n
<1>10. CASE LoadOperation
  <2> DEFINE e     == Task.expr
             left  == Operands(e, Task.word)[1]
             right == Operands(e, Task.word)[2]
             op       == IF e.type = "BIT_AND" THEN "AND" ELSE "OR"
             identity == IF e.type = "BIT_AND" THEN WORD_MAX ELSE 0
             K        == ValueOf(right, Task.word)
             raised   == IF left.type # "VAR" /\ Task.sp > code.stack THEN Task.sp ELSE code.stack
             t == LoadValue(left, Task.word, Task.sp)
             us == LoadBoth(left, right, Task.word, Task.sp)
             x == Alu(op, "K", K)
             y == Alu(op, "X", 0)
  <2>1. /\ tasks # <<>> /\ next' = next
        /\ \/ /\ code' = (IF K = identity THEN code ELSE Add(code, x))
              /\ tasks' = Append(Later, t)
           \/ /\ code' = Add([code EXCEPT !.stack = raised], y)
              /\ tasks' = Later \o us
    BY <1>10 DEF LoadOperation, Doing
  <2>2. x.op # "RET" /\ y.op # "RET" BY DEF Alu
  <2>3. \A k \in Nat : TasksOK(us, k) /\ TaskOK(t, k)
    <3>1. Task.sp \in Nat BY <1>1, <1>10, TaskOn DEF LoadOperation, Doing, TaskOK
    <3> QED BY <3>1, LoadTasks
  <2>3a. raised \in Nat
    <3>1. Task.sp \in Nat BY <1>1, <1>10, TaskOn DEF LoadOperation, Doing, TaskOK
    <3>2. code.stack \in Nat BY <1>1 DEF CtxOK
    <3> QED BY <3>1, <3>2
  <2> HIDE DEF x, y, t, us, raised, identity, K, m, n
  <2>4. Append(Later, t) = Later \o <<t>>
    <3>1. PICK I : tasks \in Seq(I) BY <1>1 DEF TasksOK
    <3>2. Later \in Seq(I) BY <2>1, <3>1, FrontOf DEF Later
    <3>3. Later \in Seq(I \cup {t}) BY <3>2, SeqGrows, I \subseteq I \cup {t}
    <3> QED BY <3>3
  <2>5. \A k \in Nat : TasksOK(<<t>>, k) BY <2>3, TasksListed
  <2>6. CASE /\ code' = (IF K = identity THEN code ELSE Add(code, x))
             /\ tasks' = Append(Later, t)
    <3>1. code' = code \/ code' = Add(code, x) BY <2>6
    <3>2. tasks' = Later \o <<t>> BY <2>4, <2>6
    <3> QED BY <1>7, <2>1, <2>2, <2>5, <3>1, <3>2 DEF m, n
  <2>7. CASE /\ code' = Add([code EXCEPT !.stack = raised], y)
             /\ tasks' = Later \o us
    BY <1>7, <2>1, <2>2, <2>3, <2>3a, <2>7 DEF m, n
  <2> QED BY <2>1, <2>6, <2>7
<1>11. CASE ValueLoaded
  <2>1. tasks # <<>> /\ code' = code /\ tasks' = Later /\ next' = n - 1 /\ Task.task = "newest"
    BY <1>11 DEF ValueLoaded, Doing, CurrentLoc
  <2>2. n >= 1 BY <1>1, <2>1, TaskOn DEF TaskOK
  <2>3. m = n /\ CtxOK(code') /\ Rests(code'.buf, 0) BY <1>1, <2>1
  <2>4. Later = Later \o <<>> /\ TasksOK(<<>>, m) BY <1>3, <2>1
  <2> HIDE DEF n, m
  <2>5. next' \in Locs(m) /\ m >= n
    <3>1. n - 1 \in 0..(n - 1) BY <1>1, <2>2
    <3> QED BY <1>1, <2>1, <2>3, <3>1 DEF Locs
  <2>6. tasks' = Later \o <<>> BY <2>1, <2>4
  <2> QED BY <1>1, <1>2, <2>1, <2>3, <2>4, <2>5, <2>6 DEF m, n
<1> QED BY <1>4, <1>5, <1>6, <1>8, <1>9, <1>10, <1>11 DEF GenerateExpr

(* The locations that a step of generate_rules or of compile_policy goes   *)
(* on from are written, or returns of actions that the text has.           *)
LevelsIn(ls, n) == \E N, L : ls \in Seq(LevelType(N, L)) /\ L \subseteq Locs(n)

CodeInv ==
  /\ CtxOK(code)
  /\ stage \in Collecting => Rests(code.buf, 0)
  /\ entry \in Locs(Len(code.buf))
  /\ TasksOK(tasks, Len(code.buf))
  /\ stage # "action" => tasks = <<>>
  /\ stage \in {"action", "join"} => next \in Locs(Len(code.buf))
  /\ stage \in Generating => LevelsIn(levels, Len(code.buf))
  /\ done \in Nat /\ (stage = "generate" => done <= Len(rules))
  /\ stage \in {"action", "join"} => done < Len(rules)

(* What has to be shown of a step to keep CodeInv.                         *)
LEMMA CodeNext ==
  ASSUME CtxOK(code'), stage' \in Collecting => Rests(code'.buf, 0),
         entry' \in Locs(Len(code'.buf)), TasksOK(tasks', Len(code'.buf)),
         stage' # "action" => tasks' = <<>>,
         stage' \in {"action", "join"} => next' \in Locs(Len(code'.buf)),
         stage' \in Generating => LevelsIn(levels', Len(code'.buf)),
         done' \in Nat, stage' = "generate" => done' <= Len(rules'),
         stage' \in {"action", "join"} => done' < Len(rules')
  PROVE  CodeInv'
<1>1. CtxOK(code)' BY DEF CtxOK, RetAt
<1>2. (stage \in Collecting => Rests(code.buf, 0))' BY DEF Rests
<1>3. (entry \in Locs(Len(code.buf)))' BY DEF Locs
<1>4. TasksOK(tasks, Len(code.buf))' BY DEF TasksOK, TaskOK, Locs
<1>5. (stage \in {"action", "join"} => next \in Locs(Len(code.buf)))' BY DEF Locs
<1>6. (stage \in Generating => LevelsIn(levels, Len(code.buf)))' BY DEF LevelsIn, Locs
<1> QED BY <1>1, <1>2, <1>3, <1>4, <1>5, <1>6 DEF CodeInv

(* The buffer has a length.                                                *)
LEMMA CodeLength == ASSUME CtxOK(code) PROVE Len(code.buf) \in Nat
<1>1. PICK I : code.buf \in Seq(I) BY DEF CtxOK
<1> QED BY <1>1

(* The action kill is a place to go on at from the start.                  *)
LEMMA KillIn == -ACTION_KILL \in Locs(0) /\ \A n : -ACTION_KILL \in Locs(n)
BY ActionRange DEF Locs

(* Subtrees that go on at what is written still do after more is.          *)
LEMMA LevelsGrow ==
  ASSUME NEW n \in Nat, NEW m \in Nat, m >= n, NEW ls, LevelsIn(ls, n) PROVE LevelsIn(ls, m)
<1>1. Locs(n) \subseteq Locs(m) BY LocsGrow
<1> QED BY <1>1 DEF LevelsIn

(* A new context is in order.                                              *)
LEMMA ContextEmpty == CtxOK(CodegenContext) /\ Rests(CodegenContext.buf, 0) /\ Len(CodegenContext.buf) = 0
<1> DEFINE c == CodegenContext
<1>1. c = [buf |-> <<>>, basic |-> [a \in 1..ACTION_BASIC_MAX |-> NOWHERE],
           cache |-> [a \in {} |-> NOWHERE], stack |-> 0, missed |-> FALSE]
  BY DEF CodegenContext
<1>2. /\ c.buf = <<>> /\ c.basic = [a \in 1..ACTION_BASIC_MAX |-> NOWHERE]
      /\ c.cache = [a \in {} |-> NOWHERE] /\ c.stack = 0 /\ c.missed = FALSE
  BY <1>1
<1> HIDE DEF c
<1>3. <<>> \in Seq({}) /\ Len(<<>>) = 0 OBVIOUS
<1>4. c = [buf |-> c.buf, basic |-> c.basic, cache |-> c.cache, stack |-> c.stack, missed |-> c.missed]
  BY <1>1, <1>2
<1>5. DOMAIN c.cache = {} /\ c.cache = [a \in DOMAIN c.cache |-> c.cache[a]] BY <1>2
<1>6. IsFiniteSet(DOMAIN c.cache) /\ Cardinality(DOMAIN c.cache) <= MAX_JUMP
  BY <1>5, FS_EmptySet, CodegenConstants
<1>7. c.basic = [a \in 1..ACTION_BASIC_MAX |-> c.basic[a]]
      /\ \A a \in 1..ACTION_BASIC_MAX : c.basic[a] = NOWHERE
  BY <1>2
<1>8. \E I : c.buf \in Seq(I) BY <1>2, <1>3
<1>9. CtxOK(c)
  <2>1. c.stack \in Nat BY <1>2
  <2> QED BY <1>4, <1>5, <1>6, <1>7, <1>8, <2>1 DEF CtxOK
<1>10. Rests(c.buf, 0) /\ Len(c.buf) = 0 BY <1>2, <1>3 DEF Rests
<1> QED BY <1>9, <1>10 DEF c

(* Joining the last two subtrees keeps the context and the subtrees in     *)
(* order.                                                                  *)
LEMMA JoinWritten ==
  ASSUME CodeInv, LevelsInv, stage \in Generating, Len(levels) >= 2, NEW h, JoinLast(h),
         \/ h = levels[Len(levels)].level + 1
            /\ levels[Len(levels) - 1].level = levels[Len(levels)].level
         \/ h = levels[Len(levels) - 1].level
  PROVE  /\ CtxOK(code') /\ Rests(code'.buf, 0)
         /\ Len(code'.buf) \in Nat /\ Len(code'.buf) >= Len(code.buf)
         /\ LevelsIn(levels', Len(code'.buf))
<1> DEFINE n == Len(levels)
           upper == levels[n - 1]
           lower == levels[n]
           r == AddJump(code, "JGE", "K", upper.nr, upper.action, lower.action)
<1>1. PICK N, L : levels \in Seq(LevelType(N, L)) /\ L \subseteq Locs(Len(code.buf))
  BY DEF CodeInv, LevelsIn
<1>2. upper \in LevelType(N, L) /\ lower \in LevelType(N, L)
  <2>1. n \in Nat /\ n - 1 \in 1..n /\ n \in 1..n BY <1>1
  <2> QED BY <1>1, <2>1
<1>3. upper.action \in Locs(Len(code.buf)) /\ lower.action \in Locs(Len(code.buf)) /\ lower.nr \in N
  BY <1>1, <1>2 DEF LevelType
<1>4. code' = r.c /\ levels' = Append(SubSeq(levels, 1, n - 2), Level(h, lower.nr, r.loc))
  BY DEF JoinLast
<1>5. CtxOK(code) /\ Rests(code.buf, 0) BY DEF CodeInv, Collecting, Generating
<1>6. Continues(code, r, upper.action, lower.action) BY <1>5, JumpAdded
<1> HIDE DEF r
<1>7. r.loc \in Locs(Len(r.c.buf)) /\ Locs(Len(code.buf)) \subseteq Locs(Len(r.c.buf))
  BY <1>3, <1>6, ContinuesIn
<1>8. /\ CtxOK(r.c) /\ Rests(r.c.buf, 0) /\ Len(r.c.buf) \in Nat /\ Len(r.c.buf) >= Len(code.buf)
  BY <1>6 DEF Continues
<1>9. done \in Nat /\ Heights(levels, done) BY DEF LevelsInv, Generating
<1> DEFINE nr == lower.nr
           loc == r.loc
<1>10. levels' = Append(SubSeq(levels, 1, Len(levels) - 2), Level(h, nr, loc)) /\ nr \in N
  BY <1>3, <1>4
<1> HIDE DEF nr, loc, upper, lower, n
<1>11. levels' \in Seq(LevelType(N, L \cup {loc})) BY <1>1, <1>9, <1>10, HeightsJoin
<1>12. L \cup {loc} \subseteq Locs(Len(code'.buf)) BY <1>1, <1>4, <1>7 DEF loc
<1>13. LevelsIn(levels', Len(code'.buf)) BY <1>11, <1>12 DEF LevelsIn
<1> QED BY <1>4, <1>8, <1>13

(* What WritingOK says of the next state.                                  *)
LEMMA WritingNext ==
  ASSUME WritingOK'
  PROVE  /\ CtxOK(code') /\ Rests(code'.buf, 0) /\ Len(code'.buf) \in Nat
         /\ TasksOK(tasks', Len(code'.buf)) /\ next' \in Locs(Len(code'.buf))
<1>1. CtxOK(code)' /\ Rests(code.buf, 0)' /\ TasksOK(tasks, Len(code.buf))'
      /\ (next \in Locs(Len(code.buf)))' /\ (Len(code.buf) \in Nat)'
  BY DEF WritingOK
<1>2. CtxOK(code') BY <1>1 DEF CtxOK, RetAt
<1>3. Rests(code'.buf, 0) /\ Len(code'.buf) \in Nat BY <1>1 DEF Rests
<1>4. TasksOK(tasks', Len(code'.buf)) BY <1>1 DEF TasksOK, TaskOK, Locs
<1>5. next' \in Locs(Len(code'.buf)) BY <1>1 DEF Locs
<1> QED BY <1>2, <1>3, <1>4, <1>5

(* generate_action begins with tasks in order.                             *)
LEMMA ActionGenerated ==
  ASSUME RulesInv, CodeInv, GenerateAction
  PROVE  TasksOK(tasks', Len(code.buf)) /\ next' \in Locs(Len(code.buf))
<1> DEFINE m == Len(code.buf)
           r == LastRule
           n == Len(r.exprs)
<1>1. /\ stage = "generate" /\ done < Len(rules)
      /\ IF IsConditional(r)
         THEN /\ next' = -r.exprs[n].action
              /\ tasks' = [k \in 1..(n - 1) |-> Branch(r.exprs[k].expr, -r.exprs[k].action, HERE)]
         ELSE next' = -r.action /\ UNCHANGED tasks
  BY DEF GenerateAction
<1>2. PICK E : rules \in Seq(RuleType(E, Actions)) BY DEF RulesInv
<1>3. Len(rules) - done \in DOMAIN rules
  <2>1. Len(rules) \in Nat /\ DOMAIN rules = 1..Len(rules) /\ done \in Nat BY <1>2 DEF CodeInv
  <2> QED BY <1>1, <2>1
<1>4. r \in RuleType(E, Actions) BY <1>2, <1>3 DEF LastRule
<1>5. IsConditional(r) => r.exprs # <<>> BY <1>1, <1>3 DEF RulesInv, Generating, LastRule
<1> HIDE DEF r, m
<1>6. /\ r.action \in Actions \cup {ACTION_CONDITIONAL} /\ r.exprs \in Seq(MappingType(E, Actions))
  BY <1>4 DEF RuleType
<1>7. \A a \in Actions : -a \in Locs(m) BY DEF Locs
<1>8. CASE ~IsConditional(r)
  <2>1. r.action \in Actions BY <1>6, <1>8 DEF IsConditional
  <2>2. tasks' = tasks /\ next' = -r.action BY <1>1, <1>8
  <2>3. TasksOK(tasks, m) BY DEF CodeInv, m
  <2>4. TasksOK(tasks', m) BY <2>2, <2>3
  <2> QED BY <1>7, <2>1, <2>2, <2>4 DEF m
<1>9. CASE IsConditional(r)
  <2>1. n \in Nat \ {0} /\ \A k \in 1..n : r.exprs[k] \in MappingType(E, Actions) BY <1>5, <1>6, <1>9
  <2>2. \A k \in 1..n : r.exprs[k].action \in Actions BY <2>1 DEF MappingType
  <2> DEFINE t(k) == Branch(r.exprs[k].expr, -r.exprs[k].action, HERE)
             I == {t(k) : k \in 1..(n - 1)}
             ts == [k \in 1..(n - 1) |-> t(k)]
  <2>3. tasks' = ts /\ next' = -r.exprs[n].action BY <1>1, <1>9
  <2> HIDE DEF n
  <2>4. next' \in Locs(m) BY <1>7, <2>1, <2>2, <2>3
  <2>5. \A k \in 1..(n - 1) : TaskOK(t(k), m)
    <3> SUFFICES ASSUME NEW k \in 1..(n - 1) PROVE TaskOK(t(k), m) OBVIOUS
    <3>1. k \in 1..n BY <2>1
    <3>2. -r.exprs[k].action \in Locs(m) \cup {HERE} /\ HERE \in Locs(m) \cup {HERE}
      BY <1>7, <2>2, <3>1
    <3> QED BY <3>2, Targeted
  <2> HIDE DEF t
  <2>6. n - 1 \in Nat BY <2>1
  <2>7. ts \in Seq(I)
    <3>1. ts \in [1..(n - 1) -> I] OBVIOUS
    <3> QED BY <2>6, <3>1
  <2>8. \A x \in I : TaskOK(x, m) BY <2>5
  <2> HIDE DEF I, ts
  <2>9. TasksOK(ts, m) BY <2>7, <2>8, TasksIn
  <2> QED BY <2>3, <2>4, <2>9 DEF m
<1> QED BY <1>8, <1>9

(* Every step of generate_rules keeps CodeInv.                             *)
LEMMA CodeGenerated ==
  ASSUME RulesInv, LevelsInv, CodeInv, GenerateCode PROVE CodeInv'
<1> DEFINE n == Len(code.buf)
<1>1. /\ CtxOK(code) /\ n \in Nat /\ entry \in Locs(n) /\ TasksOK(tasks, n) /\ done \in Nat
      /\ entry' = entry /\ rules' = rules
      /\ stage \in Generating /\ stage' \in Generating /\ Rests(code.buf, 0)
      /\ LevelsIn(levels, n) /\ Len(rules) \in Nat
  <2>1. stage \in Generating /\ stage' \in Generating
    BY GenerateStages DEF GenerateCode, Generating
  <2>2. PICK E : rules \in Seq(RuleType(E, Actions)) BY DEF RulesInv
  <2>3. Len(rules) \in Nat BY <2>2
  <2>4. CtxOK(code) BY DEF CodeInv
  <2>5. n \in Nat BY <2>4, CodeLength
  <2>6. stage \in Collecting BY <2>1 DEF Collecting, Generating
  <2> QED BY <2>1, <2>3, <2>4, <2>5, <2>6 DEF CodeInv, GenerateCode
<1>2. stage' \in Collecting BY <1>1 DEF Collecting, Generating
<1> HIDE DEF n
<1>3. ASSUME code' = code, LevelsIn(levels', n), TasksOK(tasks', n),
             stage' # "action" => tasks' = <<>>,
             stage' \in {"action", "join"} => next' \in Locs(n),
             done' \in Nat, stage' = "generate" => done' <= Len(rules),
             stage' \in {"action", "join"} => done' < Len(rules)
      PROVE  CodeInv'
  <2>1. code'.buf = code.buf /\ CtxOK(code') BY <1>1, <1>3
  <2> QED BY <1>1, <1>3, <2>1, CodeNext DEF n
<1>4. CASE GenerateAction
  <2>1. code' = code /\ levels' = levels /\ done' = done /\ stage' = "action" /\ done < Len(rules)
    BY <1>4 DEF GenerateAction
  <2>2. TasksOK(tasks', n) /\ next' \in Locs(n) BY <1>4, ActionGenerated DEF n
  <2> QED BY <1>1, <1>3, <2>1, <2>2
<1>5. CASE PlaceRange
  <2>1. /\ stage = "action" /\ tasks = <<>> /\ tasks' = tasks /\ code' = code /\ next' = next
        /\ next \in Locs(n) /\ done < Len(rules)
    BY <1>5 DEF PlaceRange, CodeInv, n
  <2>2. CASE stage' = "join" /\ levels' = levels /\ done' = done
    BY <1>1, <1>3, <2>1, <2>2
  <2>3. CASE /\ levels # <<>> /\ levels' = [levels EXCEPT ![Len(levels)].nr = LastRule.first]
             /\ done' = done + 1 /\ stage' = "generate"
    <3> DEFINE nr == LastRule.first
    <3>1. levels # <<>> /\ levels' = [levels EXCEPT ![Len(levels)].nr = nr] BY <2>3
    <3> HIDE DEF nr
    <3>2. Heights(levels, done) BY <1>1 DEF LevelsInv, Generating
    <3>3. PICK N, L : levels \in Seq(LevelType(N, L)) /\ L \subseteq Locs(n) BY <1>1 DEF LevelsIn
    <3>4. levels' \in Seq(LevelType(N \cup {nr}, L)) BY <1>1, <3>1, <3>2, <3>3, HeightsMore
    <3>5. LevelsIn(levels', n) BY <3>3, <3>4 DEF LevelsIn
    <3>6. done' \in Nat /\ done' <= Len(rules) BY <1>1, <2>1, <2>3
    <3> QED BY <1>1, <1>3, <2>1, <2>3, <3>5, <3>6
  <2> QED BY <1>5, <2>2, <2>3 DEF PlaceRange
<1>6. CASE AddSubtree
  <2> DEFINE nr == LastRule.first
  <2>1. /\ stage = "join" /\ stage' = "generate" /\ done' = done + 1 /\ code' = code /\ tasks' = tasks
        /\ levels' = Append(levels, Level(0, nr, next))
        /\ ~(Len(levels) >= 2 /\ levels[Len(levels) - 1].level = levels[Len(levels)].level)
    BY <1>6 DEF AddSubtree, Joinable
  <2> HIDE DEF nr
  <2>2. Heights(levels, done) BY <1>1 DEF LevelsInv, Generating
  <2>3. PICK N, L : levels \in Seq(LevelType(N, L)) /\ L \subseteq Locs(n) BY <1>1 DEF LevelsIn
  <2>4. levels' \in Seq(LevelType(N \cup {nr}, L \cup {next}))
    BY <1>1, <2>1, <2>2, <2>3, HeightsAppend
  <2>5. next \in Locs(n) /\ done < Len(rules) /\ tasks = <<>> BY <2>1 DEF CodeInv, n
  <2>6. L \cup {next} \subseteq Locs(n) BY <2>3, <2>5
  <2>7. LevelsIn(levels', n) BY <2>4, <2>6 DEF LevelsIn
  <2>8. done' \in Nat /\ done' <= Len(rules) BY <1>1, <2>1, <2>5
  <2> QED BY <1>1, <1>3, <2>1, <2>5, <2>7, <2>8
<1>7. CASE JoinEqual \/ JoinRest
  <2>1. PICK h : /\ JoinLast(h) /\ Len(levels) >= 2
                 /\ \/ h = levels[Len(levels)].level + 1
                       /\ levels[Len(levels) - 1].level = levels[Len(levels)].level
                    \/ h = levels[Len(levels) - 1].level
    BY <1>7 DEF JoinEqual, JoinRest, Joinable
  <2>2. UNCHANGED <<stage, tasks, next, done>> BY <1>7 DEF JoinEqual, JoinRest
  <2>3. stage # "action" /\ tasks = <<>> BY <1>7 DEF JoinEqual, JoinRest, CodeInv
  <2> DEFINE m == Len(code'.buf)
  <2>4. CtxOK(code') /\ Rests(code'.buf, 0) /\ m \in Nat /\ m >= n /\ LevelsIn(levels', m)
    BY <1>1, <2>1, JoinWritten DEF n
  <2> HIDE DEF m
  <2>5. Locs(n) \subseteq Locs(m) /\ TasksOK(tasks, m) BY <1>1, <2>4, LocsGrow, TasksGrow
  <2>6. /\ stage' \in {"action", "join"} => next' \in Locs(m)
        /\ stage' = "generate" => done' <= Len(rules)
        /\ stage' \in {"action", "join"} => done' < Len(rules)
    BY <2>2, <2>5 DEF CodeInv, n
  <2>7. entry' \in Locs(m) /\ TasksOK(tasks', m) /\ tasks' = <<>> /\ done' \in Nat
    BY <1>1, <2>2, <2>3, <2>5
  <2> QED BY <1>1, <2>4, <2>6, <2>7, CodeNext DEF m
<1>8. CASE stage = "action" /\ GenerateExpr /\ UNCHANGED <<stage, levels, done>>
  <2>1. next \in Locs(n) /\ done < Len(rules) BY <1>8 DEF CodeInv, n
  <2>2. WritingOK BY <1>1, <2>1 DEF WritingOK, n
  <2> DEFINE m == Len(code'.buf)
  <2>3. WritingOK' /\ m >= n BY <1>8, <2>2, ExprGenerated DEF n
  <2>4. /\ CtxOK(code') /\ Rests(code'.buf, 0) /\ m \in Nat /\ TasksOK(tasks', m)
        /\ next' \in Locs(m)
    BY <2>3, WritingNext
  <2> HIDE DEF m
  <2>5. entry' \in Locs(m) /\ LevelsIn(levels', m) BY <1>1, <1>8, <2>3, <2>4, LocsGrow, LevelsGrow
  <2>6. stage' = "action" /\ done' \in Nat /\ done' < Len(rules') BY <1>1, <1>8, <2>1
  <2> QED BY <1>1, <2>4, <2>5, <2>6, CodeNext DEF m
<1> QED BY <1>4, <1>5, <1>6, <1>7, <1>8 DEF GenerateCode, GenerateRules

(* So do the ends of compile_policy_for_archs and compile_policy_impl.     *)
LEMMA CodeFinished ==
  ASSUME PolicyInv, CodeInv, FinishArch \/ FinishCode PROVE CodeInv'
<1> DEFINE n == Len(code.buf)
           m == Len(code'.buf)
<1>1. /\ CtxOK(code) /\ Rests(code.buf, 0) /\ n \in Nat /\ entry \in Locs(n)
      /\ tasks = <<>> /\ done \in Nat
      /\ tasks' = tasks /\ next' = next /\ done' = done /\ levels' = levels
      /\ stage' \in {"arch", "done"}
  <2>1. stage \in {"generate", "arch"} BY DEF FinishArch, FinishCode
  <2>2. CtxOK(code) BY DEF CodeInv
  <2>3. n \in Nat BY <2>2, CodeLength
  <2> QED BY <2>1, <2>2, <2>3 DEF CodeInv, Collecting, FinishArch, FinishCode, Finish
<1>2. TasksOK(tasks', m) BY <1>1, TasksListed
<1>3. SUFFICES /\ CtxOK(code') /\ (stage' = "arch" => Rests(code'.buf, 0)) /\ entry' \in Locs(m)
  <2>1. stage' \in Collecting => stage' = "arch" BY <1>1 DEF Collecting
  <2>2. stage' \notin {"generate", "action", "join"} BY <1>1
  <2> HIDE DEF n
  <2> QED BY <1>1, <1>2, <1>3, <2>1, <2>2, CodeNext DEF Generating
<1>4. CASE FinishArch
  <2> DEFINE tree   == levels[1].action
             loaded == IF tree >= 0 THEN Added(code, Load("nr")) ELSE At(code, -default_action)
             chosen == IF loaded.loc = -ACTION_KILL THEN At(loaded.c, entry)
                       ELSE AddJump(loaded.c, "JEQ", "K", Archs[Lowest(todo)], loaded.loc, entry)
  <2>1. code' = chosen.c /\ entry' = chosen.loc BY <1>4 DEF FinishArch
  <2> DEFINE g == Len(loaded.c.buf)
  <2>2. /\ CtxOK(loaded.c) /\ Rests(loaded.c.buf, 0) /\ g \in Nat /\ g >= n
        /\ loaded.loc \in Locs(g)
    <3>1. CASE tree >= 0
      <4>1. loaded = [c |-> Add(code, Load("nr")), loc |-> n] BY <3>1 DEF Added, At
      <4>2. Load("nr").op # "RET" BY DEF Load
      <4>3. /\ CtxOK(Add(code, Load("nr"))) /\ Rests(Add(code, Load("nr")).buf, 0)
            /\ Len(Add(code, Load("nr")).buf) = n + 1
        BY <1>1, <4>2, InstructionAdded
      <4> HIDE DEF loaded, n
      <4>4. loaded.c = Add(code, Load("nr")) /\ loaded.loc = n BY <4>1
      <4>5. g = n + 1 BY <4>3, <4>4
      <4>6. n \in 0..(g - 1) BY <1>1, <4>5
      <4>7. loaded.loc \in Locs(g) BY <4>4, <4>6 DEF Locs
      <4> HIDE DEF g
      <4>8. g \in Nat /\ g >= n BY <1>1, <4>5
      <4> QED BY <4>3, <4>4, <4>7, <4>8
    <3>2. CASE ~(tree >= 0)
      <4>1. loaded = [c |-> code, loc |-> -default_action] BY <3>2 DEF At
      <4>2. default_action \in Actions BY <1>4 DEF FinishArch, PolicyInv, Collecting
      <4>3. -default_action \in Locs(n) BY <4>2 DEF Locs
      <4> HIDE DEF loaded
      <4>4. loaded.c = code /\ loaded.loc = -default_action /\ g = n BY <4>1
      <4> QED BY <1>1, <4>3, <4>4
    <3> QED BY <3>1, <3>2
  <2> HIDE DEF loaded
  <2>3. entry \in Locs(g)
    <3> HIDE DEF g, n
    <3> QED BY <1>1, <2>2, LocsGrow
  <2>4. CASE loaded.loc = -ACTION_KILL
    <3>1. chosen = [c |-> loaded.c, loc |-> entry] BY <2>4 DEF At
    <3> HIDE DEF chosen
    <3>2. code' = loaded.c /\ entry' = entry BY <2>1, <3>1
    <3> QED BY <2>2, <2>3, <3>2
  <2>5. CASE loaded.loc # -ACTION_KILL
    <3>1. chosen = AddJump(loaded.c, "JEQ", "K", Archs[Lowest(todo)], loaded.loc, entry) BY <2>5
    <3> HIDE DEF chosen
    <3>2. Continues(loaded.c, chosen, loaded.loc, entry) BY <2>2, <3>1, JumpAdded
    <3>3. chosen.loc \in Locs(Len(chosen.c.buf)) BY <2>2, <2>3, <3>2, ContinuesIn
    <3>4. CtxOK(chosen.c) /\ Rests(chosen.c.buf, 0) BY <3>2 DEF Continues
    <3> QED BY <2>1, <3>3, <3>4
  <2> QED BY <2>4, <2>5
<1>5. CASE FinishCode
  <2> DEFINE started  == IF entry >= 0 THEN Add(code, Load("arch")) ELSE code
             complete == IF entry < 0 THEN ResolveLocation(started, entry).c ELSE started
  <2>1. code' = complete /\ entry' = entry /\ stage' = "done" BY <1>5 DEF FinishCode, Finish
  <2> DEFINE g == Len(started.buf)
             k == Len(complete.buf)
  <2>2. CtxOK(started) /\ Rests(started.buf, 0) /\ g \in Nat /\ g >= n
    <3>1. CASE entry >= 0
      <4>1. started = Add(code, Load("arch")) BY <3>1
      <4>2. Load("arch").op # "RET" BY DEF Load
      <4> HIDE DEF started
      <4>3. CtxOK(started) /\ Rests(started.buf, 0) /\ g = n + 1
        BY <1>1, <4>1, <4>2, InstructionAdded
      <4> HIDE DEF g, n
      <4> QED BY <1>1, <4>3
    <3>2. CASE ~(entry >= 0)
      <4>1. started = code BY <3>2
      <4> HIDE DEF started
      <4> QED BY <1>1, <4>1
    <3> QED BY <3>1, <3>2
  <2> HIDE DEF started
  <2>3. CtxOK(complete) /\ k \in Nat /\ k >= g
    <3>1. CASE entry < 0
      <4>1. complete = ResolveLocation(started, entry).c BY <3>1
      <4>2. 0 \in 0..2 /\ 0 + 1 = 1 /\ 1 + 1 = 2 OBVIOUS
      <4>3. Rests(started.buf, 2)
        <5>1. PICK I : started.buf \in Seq(I) BY <2>2 DEF CtxOK
        <5>2. Rests(started.buf, 1) BY <2>2, <4>2, <5>1, RestsStep
        <5> QED BY <4>2, <5>1, <5>2, RestsStep
      <4> HIDE DEF complete
      <4> QED BY <2>2, <4>1, <4>2, <4>3, Resolved
    <3>2. CASE ~(entry < 0)
      <4>1. complete = started BY <3>2
      <4> HIDE DEF complete
      <4> QED BY <2>2, <4>1
    <3> QED BY <3>1, <3>2
  <2> HIDE DEF complete
  <2>4. m = k BY <2>1
  <2> HIDE DEF g, k, n, m
  <2>5. k >= n BY <1>1, <2>2, <2>3
  <2>6. entry \in Locs(k) BY <1>1, <2>3, <2>5, LocsGrow
  <2>7. entry' \in Locs(m) BY <2>1, <2>4, <2>6
  <2> QED BY <2>1, <2>3, <2>7 DEF m
<1> QED BY <1>4, <1>5

(* What is written stays where it is, and what the caches, the subtrees    *)
(* and the work under way hold is written or an action.                    *)
THEOREM CodeKept == Spec => []CodeInv
<1>1. Init => CodeInv
  <2> SUFFICES ASSUME Init PROVE CodeInv OBVIOUS
  <2>1. /\ code = CodegenContext /\ tasks = <<>> /\ entry = -ACTION_KILL /\ done = 0 /\ stage = "idle"
    BY DEF Init
  <2>2. CtxOK(code) /\ Rests(code.buf, 0) BY <2>1, ContextEmpty
  <2>3. entry \in Locs(Len(code.buf)) BY <2>1, KillIn
  <2>4. TasksOK(tasks, Len(code.buf)) BY <2>1, TasksListed
  <2> QED BY <2>1, <2>2, <2>3, <2>4 DEF CodeInv, Generating
<1>2. PolicyInv /\ RulesInv /\ LevelsInv /\ CodeInv /\ [Next]_vars => CodeInv'
  <2> SUFFICES ASSUME PolicyInv, RulesInv, LevelsInv, CodeInv, [Next]_vars PROVE CodeInv' OBVIOUS
  <2>1. CASE BeginCode
    <3>1. /\ code' = CodegenContext /\ entry' = -ACTION_KILL /\ stage = "begin" /\ stage' = "arch"
          /\ tasks' = tasks /\ done' = done
      BY <2>1 DEF BeginCode
    <3>2. CtxOK(code') /\ Rests(code'.buf, 0) BY <3>1, ContextEmpty
    <3>3. entry' \in Locs(Len(code'.buf)) BY <3>1, KillIn
    <3>4. tasks' = <<>> /\ done' \in Nat BY <3>1 DEF CodeInv
    <3>5. TasksOK(tasks', Len(code'.buf)) BY <3>4, TasksListed
    <3> QED BY <3>1, <3>2, <3>3, <3>4, <3>5, CodeNext DEF Generating
  <2>2. CASE BeginRules
    <3>1. /\ UNCHANGED <<code, entry, tasks, next, rules>> /\ done' = 0 /\ levels' = <<>>
          /\ stage = "normalized" /\ stage' = "generate"
      BY <2>2 DEF BeginRules
    <3>2. /\ CtxOK(code) /\ Rests(code.buf, 0) /\ entry \in Locs(Len(code.buf))
          /\ TasksOK(tasks, Len(code.buf)) /\ tasks = <<>>
      BY <3>1 DEF CodeInv, Collecting
    <3>3. LevelsIn(<<>>, Len(code.buf))
      <4> DEFINE ls == <<>>
                 S  == {}
      <4>1. ls \in Seq(LevelType(S, S)) /\ S \subseteq Locs(Len(code.buf)) OBVIOUS
      <4> HIDE DEF ls, S
      <4>2. LevelsIn(ls, Len(code.buf)) BY <4>1 DEF LevelsIn
      <4> QED BY <4>2 DEF ls
    <3>4. done' \in Nat /\ done' <= Len(rules')
      <4>1. PICK E : rules \in Seq(RuleType(E, Actions)) BY DEF RulesInv
      <4>2. Len(rules) \in Nat BY <4>1
      <4> QED BY <3>1, <4>2
    <3>5. code'.buf = code.buf /\ CtxOK(code') BY <3>1, <3>2
    <3> QED BY <3>1, <3>2, <3>3, <3>4, <3>5, CodeNext
  <2>3. CASE GenerateCode BY <2>3, CodeGenerated
  <2>4. CASE FinishArch \/ FinishCode BY <2>4, CodeFinished
  <2>5. CASE \/ Next /\ ~BeginCode /\ ~BeginRules /\ ~GenerateCode /\ ~FinishArch /\ ~FinishCode
             \/ UNCHANGED vars /\ stage \notin Generating
    <3>1. /\ UNCHANGED genVars
          /\ stage # "action" /\ stage' \notin Generating
          /\ stage' \in Collecting => stage \in Collecting
      <4>1. CASE CompileText
        <5>1. stage' \in {"parse", "validate", "done"} /\ UNCHANGED genVars BY <4>1, ParseStages
        <5>2. CASE Compile BY <5>1, <5>2 DEF Compile, Collecting, Generating
        <5>3. CASE Parse
          BY <5>1, <5>3 DEF Parse, DefineConst, DefinePolicy, MainStatements, DefaultAction, Include,
                            EndOfInput, Reading, Collecting, Generating
        <5> QED BY <4>1, <5>2, <5>3 DEF CompileText
      <4>2. CASE Validate BY <4>2 DEF Validate, Finish, Collecting, Generating
      <4>3. CASE BeginArch BY <4>3 DEF BeginArch, Collecting, Generating
      <4>4. CASE CollectRules
        BY <4>4 DEF CollectRules, LeaveBody, UsePolicy, ActionEntry, RulesComplete, Collecting, Generating
      <4>5. CASE NormalizeRules
        BY <4>5, NormalizeStages DEF NormalizeRules, Collecting, Generating
      <4>6. CASE Returned \/ (UNCHANGED vars /\ stage \notin Generating)
        BY <4>6 DEF Returned, vars, normalVars, Collecting, Generating
      <4> QED BY <2>5, <4>1, <4>2, <4>3, <4>4, <4>5, <4>6 DEF Next
    <3>2. /\ CtxOK(code) /\ (stage \in Collecting => Rests(code.buf, 0)) /\ entry \in Locs(Len(code.buf))
          /\ TasksOK(tasks, Len(code.buf)) /\ tasks = <<>> /\ done \in Nat
      BY <3>1 DEF CodeInv
    <3>3. code' = code /\ entry' = entry /\ tasks' = tasks /\ done' = done BY <3>1 DEF genVars
    <3>4. code'.buf = code.buf /\ CtxOK(code') BY <3>2, <3>3
    <3> QED BY <3>1, <3>2, <3>3, <3>4, CodeNext DEF Generating
  <2>6. CASE UNCHANGED vars /\ stage \in Generating
    <3>1. UNCHANGED <<code, tasks, next, levels, done, entry, stage, rules>>
      BY <2>6 DEF vars, normalVars, genVars
    <3>2. code'.buf = code.buf BY <3>1
    <3>3. CtxOK(code') BY <3>1 DEF CodeInv
    <3> QED BY <3>1, <3>2, <3>3, CodeNext DEF CodeInv
  <2> QED BY <2>1, <2>2, <2>3, <2>4, <2>5, <2>6
<1> QED BY <1>1, <1>2, PoliciesKept, RulesKept, LevelsKept, PTL DEF Spec

(* What the caches of the code generator say can be jumped to is a return  *)
(* of that action, and the cache of returns with data does not overflow:   *)
(* of any MAX_JUMP >= 3 last instructions one is no return, so there is    *)
(* room after purge_location_cache (CachedReturns).                        *)
THEOREM CachesHold == Spec => []CachedReturns
<1>1. CodeInv => CachedReturns
  <2> SUFFICES ASSUME CodeInv PROVE CachedReturns OBVIOUS
  <2>1. CtxOK(code) BY DEF CodeInv
  <2>2. PICK I : code.buf \in Seq(I) BY <2>1 DEF CtxOK
  <2>3. DOMAIN code.buf = 1..Len(code.buf) /\ Len(code.buf) \in Nat BY <2>2
  <2>4. ASSUME NEW loc, NEW a, RetAt(code, loc, a) PROVE Returns(loc, a)
    <3>1. loc \in 0..(Len(code.buf) - 1) /\ code.buf[loc + 1] = Ret(a) BY <2>4 DEF RetAt
    <3>2. loc + 1 \in DOMAIN code.buf BY <2>3, <3>1
    <3> QED BY <3>1, <3>2 DEF Returns
  <2>5. DOMAIN code.basic = 1..ACTION_BASIC_MAX
    <3>1. code.basic = [a \in 1..ACTION_BASIC_MAX |-> code.basic[a]] BY <2>1 DEF CtxOK
    <3>2. DOMAIN [a \in 1..ACTION_BASIC_MAX |-> code.basic[a]] = 1..ACTION_BASIC_MAX OBVIOUS
    <3> QED BY <3>1, <3>2
  <2>6. /\ Cardinality(DOMAIN code.cache) <= MAX_JUMP
        /\ \A a \in DOMAIN code.cache : RetAt(code, code.cache[a], a)
        /\ \A a \in 1..ACTION_BASIC_MAX : code.basic[a] # NOWHERE => RetAt(code, code.basic[a], a)
    BY <2>1 DEF CtxOK
  <2> QED BY <2>4, <2>5, <2>6 DEF CachedReturns
<1> QED BY <1>1, CodeKept, PTL

(* For every text the variables keep their shape; where the code goes on   *)
(* is an action or an instruction that has been written (KafelTypeOK).     *)
THEOREM KafelTypes == Spec => []KafelTypeOK
<1>1. ResultsOK /\ PolicyInv /\ RulesInv /\ CodeInv => KafelTypeOK
  <2> SUFFICES ASSUME ResultsOK, PolicyInv, RulesInv, CodeInv PROVE KafelTypeOK OBVIOUS
  <2>1. /\ stage \in Stages /\ result \in {"none", "parse", "reference", "size", "ok"}
        /\ compiles \in 0..MAX_COMPILES
    BY DEF ResultsOK
  <2>2. default_action \in Nat BY ActionRange DEF PolicyInv, NoAction
  <2>3. PICK E : rules \in Seq(RuleType(E, Actions)) BY DEF RulesInv
  <2>4. \A k \in DOMAIN rules : /\ rules[k].first \in 0..MAX_SYSCALL_NR
                                /\ rules[k].last \in 0..MAX_SYSCALL_NR
                                /\ rules[k].action \in Nat
    <3> SUFFICES ASSUME NEW k \in DOMAIN rules
                 PROVE  /\ rules[k].first \in 0..MAX_SYSCALL_NR
                        /\ rules[k].last \in 0..MAX_SYSCALL_NR
                        /\ rules[k].action \in Nat
      OBVIOUS
    <3>1. rules[k] \in RuleType(E, Actions) BY <2>3
    <3>2. rules[k].action \in Actions \cup {ACTION_CONDITIONAL} BY <3>1 DEF RuleType
    <3>3. Actions \subseteq Nat BY ActionRange
    <3>4. ACTION_CONDITIONAL \in Nat BY DEF ACTION_CONDITIONAL
    <3>5. rules[k].action \in Nat BY <3>2, <3>3, <3>4
    <3> QED BY <3>1, <3>5 DEF RuleType, Numbers
  <2>5. i \in Nat /\ j \in Nat /\ toAdd \in Nat BY DEF RulesInv
  <2>6. Len(rules) \in Nat BY <2>3
  <2>7. done \in Nat /\ (stage \in Generating => done <= Len(rules)) BY <2>6 DEF CodeInv, Generating
  <2>8. ASSUME NEW loc \in Locs(Len(code.buf)) PROVE LocationOK(loc)
    <3> DEFINE n == Len(code.buf)
    <3>1. CtxOK(code) BY DEF CodeInv
    <3>2. n \in Nat BY <3>1, CodeLength
    <3> HIDE DEF n
    <3>3. loc \in 0..(n - 1) \/ \E a \in Actions : loc = -a BY <2>8 DEF Locs, n
    <3>4. \A a \in Actions : a \in 1..(2 * ACTION_TRACE - 1) BY ActionRange
    <3> DEFINE T == ACTION_TRACE
    <3>5. T \in Nat BY ActionRange
    <3> HIDE DEF T
    <3>6. \A a \in Actions : a \in 1..(2 * T - 1) BY <3>4 DEF T
    <3>7. loc \in -(2 * T)..(n - 1)
      <4>1. CASE loc \in 0..(n - 1) BY <3>2, <3>5, <4>1
      <4>2. CASE \E a \in Actions : loc = -a
        <5>1. PICK a : a \in 1..(2 * T - 1) /\ loc = -a BY <3>6, <4>2
        <5> QED BY <3>2, <3>5, <5>1
      <4> QED BY <3>3, <4>1, <4>2
    <3> QED BY <3>7 DEF LocationOK, n, T
  <2>9. LocationOK(entry) BY <2>8 DEF CodeInv
  <2>10. stage \in {"action", "join"} => LocationOK(next) BY <2>8 DEF CodeInv
  <2>11. ASSUME stage \in Generating, NEW k \in DOMAIN levels PROVE LocationOK(levels[k].action)
    <3>1. PICK N, L : levels \in Seq(LevelType(N, L)) /\ L \subseteq Locs(Len(code.buf))
      BY <2>11 DEF CodeInv, LevelsIn
    <3>2. levels[k] \in LevelType(N, L) BY <3>1
    <3>3. levels[k].action \in Locs(Len(code.buf)) BY <3>1, <3>2 DEF LevelType
    <3> QED BY <2>8, <3>3
  <2> QED BY <2>1, <2>2, <2>4, <2>5, <2>7, <2>9, <2>10, <2>11 DEF KafelTypeOK, Generating
<1> QED BY <1>1, TextKept, PoliciesKept, RulesKept, CodeKept, PTL

=============================================================================
