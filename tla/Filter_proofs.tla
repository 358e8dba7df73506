---------------------------- MODULE Filter_proofs ----------------------------
(***************************************************************************)
(* What the code that compile_policy writes decides: the jumps, the        *)
(* conditions of a range, the tree of comparisons over the ranges, the     *)
(* choice of the architecture, the program that is returned.               *)
(***************************************************************************)
EXTENDS Kafel_proofs, Machine

-----------------------------------------------------------------------------
(* Executions.  The code is written backwards: an instruction goes on at   *)
(* the location before its own, less what it skips.                        *)

Onward(b, data, s) ==
  LET ins == b[s.loc + 1]
  IN [loc |-> s.loc - 1 - Skip(ins, s.st), st |-> Effect(ins, s.st, data)]

(* p is an execution of n steps. *)
Execution(b, data, p, n) ==
  /\ \A k \in 1..n : p[k].loc \in 0..(Len(b) - 1) /\ ~Stuck(b[p[k].loc + 1], p[k].st)
  /\ \A k \in 1..(n - 1) : /\ b[p[k].loc + 1].op # "RET" /\ Skip(b[p[k].loc + 1], p[k].st) \in Nat
                           /\ p[k + 1] = Onward(b, data, p[k])

(* The code, begun at loc in the state st, ends with the action act. *)
Yields(b, data, loc, st, act) ==
  \E n \in Nat \ {0} : \E p : /\ Execution(b, data, p, n)
                               /\ p[1] = [loc |-> loc, st |-> st]
                               /\ b[p[n].loc + 1] = Ret(act)

(* So does what goes on at loc, which may be an action. *)
Goes(b, data, loc, st, act) == IF loc < 0 THEN act = -loc ELSE Yields(b, data, loc, st, act)

(* b, and what has been written since. *)
Extends(d, b) ==
  /\ Len(b) \in Nat /\ Len(d) \in Nat /\ Len(d) >= Len(b)
  /\ \A k \in 1..Len(b) : d[k] = b[k]

(* A return ends the execution.                                            *)
LEMMA YieldsHere ==
  ASSUME NEW b, NEW data, NEW st, NEW act, NEW loc \in 0..(Len(b) - 1), b[loc + 1] = Ret(act)
  PROVE  Yields(b, data, loc, st, act)
<1> DEFINE s == [loc |-> loc, st |-> st]
           p == [k \in {1} |-> s]
<1>1. p[1] = s /\ s.loc = loc /\ s.st = st OBVIOUS
<1>2. Ret(act).op = "RET" BY DEF Ret
<1>3. ~Stuck(b[loc + 1], st) BY <1>2 DEF Stuck
<1> HIDE DEF p
<1>4. Execution(b, data, p, 1)
  <2>1. \A k \in 1..1 : k = 1 OBVIOUS
  <2>2. 1..(1 - 1) = {} OBVIOUS
  <2> QED BY <1>1, <1>3, <2>1, <2>2 DEF Execution
<1>5. 1 \in Nat \ {0} OBVIOUS
<1> QED BY <1>1, <1>4, <1>5 DEF Yields, s

(* Another instruction goes on with its effect.                            *)
LEMMA YieldsLater ==
  ASSUME NEW b, NEW data, NEW st, NEW act, NEW loc \in 0..(Len(b) - 1),
         b[loc + 1].op # "RET", ~Stuck(b[loc + 1], st), Skip(b[loc + 1], st) \in Nat,
         Yields(b, data, loc - 1 - Skip(b[loc + 1], st), Effect(b[loc + 1], st, data), act)
  PROVE  Yields(b, data, loc, st, act)
<1> DEFINE s == [loc |-> loc, st |-> st]
           u == Onward(b, data, s)
<1>1. u = [loc |-> loc - 1 - Skip(b[loc + 1], st), st |-> Effect(b[loc + 1], st, data)]
  BY DEF Onward
<1>0. PICK n \in Nat \ {0} : \E p : /\ Execution(b, data, p, n) /\ p[1] = u
                                     /\ b[p[n].loc + 1] = Ret(act)
  BY <1>1 DEF Yields
<1>2. PICK p : Execution(b, data, p, n) /\ p[1] = u /\ b[p[n].loc + 1] = Ret(act)
  BY <1>0
<1> DEFINE q == [k \in 1..(n + 1) |-> IF k = 1 THEN s ELSE p[k - 1]]
<1>3. q[1] = s /\ \A k \in 2..(n + 1) : q[k] = p[k - 1] OBVIOUS
<1>4. s.loc = loc /\ s.st = st OBVIOUS
<1> HIDE DEF q, u, s
<1>5. ASSUME NEW k \in 1..(n + 1)
      PROVE  q[k].loc \in 0..(Len(b) - 1) /\ ~Stuck(b[q[k].loc + 1], q[k].st)
  <2>1. CASE k = 1 BY <1>3, <1>4, <2>1
  <2>2. CASE k # 1
    <3>1. k \in 2..(n + 1) /\ k - 1 \in 1..n BY <1>2, <2>2
    <3> QED BY <1>2, <1>3, <3>1 DEF Execution
  <2> QED BY <2>1, <2>2
<1>6. ASSUME NEW k \in 1..(n + 1 - 1)
      PROVE  /\ b[q[k].loc + 1].op # "RET" /\ Skip(b[q[k].loc + 1], q[k].st) \in Nat
             /\ q[k + 1] = Onward(b, data, q[k])
  <2>1. CASE k = 1
    <3>1. q[2] = p[1] BY <1>2, <1>3
    <3>2. k + 1 = 2 /\ q[k].loc = loc /\ q[k].st = st BY <1>3, <1>4, <2>1
    <3>3. q[k + 1] = Onward(b, data, q[k]) BY <1>2, <1>3, <2>1, <3>1, <3>2 DEF u
    <3> QED BY <3>2, <3>3
  <2>2. CASE k # 1
    <3>1. k \in 2..(n + 1) /\ k - 1 \in 1..(n - 1) /\ k + 1 \in 2..(n + 1) /\ (k - 1) + 1 = (k + 1) - 1
      BY <1>2, <2>2
    <3>2. q[k] = p[k - 1] /\ q[k + 1] = p[(k - 1) + 1] BY <1>3, <3>1
    <3> QED BY <1>2, <3>1, <3>2 DEF Execution
  <2> QED BY <2>1, <2>2
<1>7. n + 1 \in Nat \ {0} /\ n + 1 \in 2..(n + 1) /\ (n + 1) - 1 = n BY <1>2
<1>8. Execution(b, data, q, n + 1)
  <2> DEFINE m == n + 1
  <2>1. \A k \in 1..m : q[k].loc \in 0..(Len(b) - 1) /\ ~Stuck(b[q[k].loc + 1], q[k].st) BY <1>5
  <2>2. \A k \in 1..(m - 1) : /\ b[q[k].loc + 1].op # "RET" /\ Skip(b[q[k].loc + 1], q[k].st) \in Nat
                              /\ q[k + 1] = Onward(b, data, q[k])
    BY <1>6
  <2> HIDE DEF m
  <2>3. Execution(b, data, q, m) BY <2>1, <2>2 DEF Execution
  <2> QED BY <2>3 DEF m
<1>9. b[q[n + 1].loc + 1] = Ret(act) BY <1>2, <1>3, <1>7
<1> QED BY <1>3, <1>7, <1>8, <1>9 DEF Yields, s

(* What is written ends as before when more is written.                    *)
LEMMA YieldsStill ==
  ASSUME NEW b, NEW d, Extends(d, b), NEW data, NEW loc, NEW st, NEW act, Yields(b, data, loc, st, act)
  PROVE  Yields(d, data, loc, st, act)
<1>0. PICK n \in Nat \ {0} : \E p : /\ Execution(b, data, p, n) /\ p[1] = [loc |-> loc, st |-> st]
                                     /\ b[p[n].loc + 1] = Ret(act)
  BY DEF Yields
<1>1. PICK p : /\ Execution(b, data, p, n) /\ p[1] = [loc |-> loc, st |-> st]
               /\ b[p[n].loc + 1] = Ret(act)
  BY <1>0
<1>2. ASSUME NEW k \in 1..n PROVE p[k].loc \in 0..(Len(d) - 1) /\ d[p[k].loc + 1] = b[p[k].loc + 1]
  <2>1. p[k].loc \in 0..(Len(b) - 1) BY <1>1 DEF Execution
  <2> DEFINE x == p[k].loc
             y == Len(b)
             z == Len(d)
  <2>2. x \in 0..(y - 1) /\ y \in Nat /\ z \in Nat /\ z >= y BY <2>1 DEF Extends
  <2>3. \A m \in 1..y : d[m] = b[m] BY DEF Extends
  <2> HIDE DEF x, y, z
  <2>4. x \in 0..(z - 1) /\ x + 1 \in 1..y BY <2>2
  <2> QED BY <2>3, <2>4 DEF x, z
<1>3. Execution(d, data, p, n)
  <2>1. \A k \in 1..n : p[k].loc \in 0..(Len(d) - 1) /\ ~Stuck(d[p[k].loc + 1], p[k].st)
    BY <1>1, <1>2 DEF Execution
  <2>2. ASSUME NEW k \in 1..(n - 1)
        PROVE  /\ d[p[k].loc + 1].op # "RET" /\ Skip(d[p[k].loc + 1], p[k].st) \in Nat
               /\ p[k + 1] = Onward(d, data, p[k])
    <3>1. k \in 1..n BY <1>1
    <3>2. /\ b[p[k].loc + 1].op # "RET" /\ Skip(b[p[k].loc + 1], p[k].st) \in Nat
          /\ p[k + 1] = Onward(b, data, p[k])
      BY <1>1 DEF Execution
    <3> QED BY <1>2, <3>1, <3>2 DEF Onward
  <2> QED BY <2>1, <2>2 DEF Execution
<1>4. d[p[n].loc + 1] = Ret(act)
  <2>1. n \in 1..n BY <1>1
  <2> QED BY <1>1, <1>2, <2>1
<1> QED BY <1>1, <1>3, <1>4 DEF Yields

(* The same of a place that may be an action.                              *)
LEMMA GoesStill ==
  ASSUME NEW b, NEW d, Extends(d, b), NEW data, NEW loc, NEW st, NEW act, Goes(b, data, loc, st, act)
  PROVE  Goes(d, data, loc, st, act)
BY YieldsStill DEF Goes

-----------------------------------------------------------------------------
(* Places where code goes on, resolved; and jumps.                         *)

(* An instruction more than a buffer that is in order.                     *)
LEMMA OneMore ==
  ASSUME NEW c, CtxOK(c), NEW x
  PROVE  /\ Len(c.buf) \in Nat /\ Extends(c.buf, c.buf)
         /\ Extends(Append(c.buf, x), c.buf) /\ Len(Append(c.buf, x)) = Len(c.buf) + 1
         /\ Append(c.buf, x)[Len(c.buf) + 1] = x
<1>1. PICK I : c.buf \in Seq(I) BY DEF CtxOK
<1>2. /\ Len(c.buf) \in Nat /\ Append(c.buf, x)[Len(c.buf) + 1] = x
      /\ \A k \in 1..Len(c.buf) : Append(c.buf, x)[k] = c.buf[k]
  BY <1>1, Appended
<1>3. Len(Append(c.buf, x)) = Len(c.buf) + 1
  <2>1. c.buf \in Seq(I \cup {x}) BY <1>1, SeqGrows, I \subseteq I \cup {x}
  <2> QED BY <2>1
<1> QED BY <1>2, <1>3 DEF Extends

(* Code written after code that was written after code.                    *)
LEMMA ExtendsMore ==
  ASSUME NEW b, NEW d, NEW f, Extends(d, b), Extends(f, d) PROVE Extends(f, b)
<1> DEFINE x == Len(b)
           y == Len(d)
           z == Len(f)
<1>1. x \in Nat /\ y \in Nat /\ z \in Nat /\ y >= x /\ z >= y BY DEF Extends
<1>2. (\A k \in 1..x : d[k] = b[k]) /\ (\A k \in 1..y : f[k] = d[k]) BY DEF Extends
<1> HIDE DEF x, y, z
<1>3. z >= x /\ \A k \in 1..x : k \in 1..y BY <1>1
<1> QED BY <1>1, <1>2, <1>3 DEF Extends, x, z

(* d goes on with what c has, and r.loc goes where loc does.               *)
Resolves(c, r, loc) ==
  /\ CtxOK(r.c) /\ Extends(r.c.buf, c.buf) /\ r.c.missed = c.missed
  /\ r.loc \in 0..(Len(r.c.buf) - 1)
  /\ \A data, st, act : Goes(c.buf, data, loc, st, act) => Goes(r.c.buf, data, r.loc, st, act)

(* What is noted in a cache does not change what is added.                 *)
Noted(c, d) ==
  \/ d = c
  \/ \E v : d = [c EXCEPT !.basic = v] \/ d = [c EXCEPT !.cache = v] \/ d = [c EXCEPT !.stack = v]

(* An instruction that is added after one table of the context changed.    *)
LEMMA NoteAdded ==
  ASSUME NEW c, CtxOK(c), NEW x, NEW d, Noted(c, d)
  PROVE  /\ Added(d, x).loc = Len(c.buf) /\ Added(d, x).c.buf = Append(c.buf, x)
         /\ Added(d, x).c.missed = c.missed /\ Added(d, x).c = Add(d, x)
<1>1. c = [buf |-> c.buf, basic |-> c.basic, cache |-> c.cache, stack |-> c.stack, missed |-> c.missed]
  BY DEF CtxOK
<1>2. PICK bs, h, s : d = [buf |-> c.buf, basic |-> bs, cache |-> h, stack |-> s, missed |-> c.missed]
  BY <1>1 DEF Noted
<1>3. d.buf = c.buf BY <1>2
<1>4. Add(d, x) = [buf |-> Append(c.buf, x), basic |-> bs, cache |-> h, stack |-> s, missed |-> c.missed]
  BY <1>2, AddTo
<1>5. Added(d, x) = [c |-> Add(d, x), loc |-> Len(c.buf)] BY <1>3 DEF Added, At
<1> QED BY <1>4, <1>5

(* A return that is found, or written.                                     *)
LEMMA ActionResolved ==
  ASSUME NEW c, CtxOK(c), Rests(c.buf, 2), NEW a \in Actions
  PROVE  Resolves(c, ResolveAction(c, a), -a)
<1> DEFINE r == ResolveAction(c, a)
<1>0. a \in Nat \ {0} BY ActionRange
<1>1. SUFFICES /\ RetAt(r.c, r.loc, a) /\ Extends(r.c.buf, c.buf) /\ r.c.missed = c.missed
  <2>1. CtxOK(r.c) BY ResolvedAction
  <2> HIDE DEF r
  <2>2. r.loc \in 0..(Len(r.c.buf) - 1) /\ r.c.buf[r.loc + 1] = Ret(a) BY <1>1 DEF RetAt
  <2>3. ASSUME NEW data, NEW st, NEW act, Goes(c.buf, data, -a, st, act)
        PROVE  Goes(r.c.buf, data, r.loc, st, act)
    <3>1. -a < 0 /\ -(-a) = a /\ ~(r.loc < 0) BY <1>0, <2>2
    <3>2. act = a BY <2>3, <3>1 DEF Goes
    <3>3. Yields(r.c.buf, data, r.loc, st, act) BY <2>2, <3>2, YieldsHere
    <3> QED BY <3>1, <3>3 DEF Goes
  <2>4. Resolves(c, r, -a) BY <1>1, <2>1, <2>2, <2>3 DEF Resolves
  <2> QED BY <2>4 DEF r
<1>2. ASSUME NEW loc, RetAt(c, loc, a), r = At(c, loc)
      PROVE  RetAt(r.c, r.loc, a) /\ Extends(r.c.buf, c.buf) /\ r.c.missed = c.missed
  <2>1. r.c = c /\ r.loc = loc BY <1>2 DEF At
  <2> QED BY <1>2, <2>1, OneMore
<1>3. ASSUME NEW d, Noted(c, d), r = Added(d, Ret(a))
      PROVE  RetAt(r.c, r.loc, a) /\ Extends(r.c.buf, c.buf) /\ r.c.missed = c.missed
  <2> HIDE DEF r
  <2> DEFINE x == Ret(a)
  <2>0. r = Added(d, x) BY <1>3
  <2> HIDE DEF x
  <2>4. /\ Added(d, x).loc = Len(c.buf) /\ Added(d, x).c.buf = Append(c.buf, x)
        /\ Added(d, x).c.missed = c.missed
    BY <1>3, NoteAdded
  <2>1. r.loc = Len(c.buf) /\ r.c.buf = Append(c.buf, x) /\ r.c.missed = c.missed BY <2>0, <2>4
  <2>5. /\ Len(c.buf) \in Nat /\ Extends(Append(c.buf, x), c.buf)
        /\ Len(Append(c.buf, x)) = Len(c.buf) + 1 /\ Append(c.buf, x)[Len(c.buf) + 1] = x
    BY OneMore
  <2>2. /\ Len(c.buf) \in Nat /\ Extends(r.c.buf, c.buf) /\ Len(r.c.buf) = Len(c.buf) + 1
        /\ r.c.buf[Len(c.buf) + 1] = Ret(a)
    BY <2>1, <2>5 DEF x
  <2>3. r.loc \in 0..(Len(r.c.buf) - 1) BY <2>1, <2>2
  <2> QED BY <2>1, <2>2, <2>3 DEF RetAt
<1>4. CASE a <= ACTION_BASIC_MAX
  <2>1. r = BasicAction(c, a) BY <1>4 DEF ResolveAction
  <2>2. CASE Near(c, c.basic[a])
    <3>1. r = At(c, c.basic[a]) BY <2>1, <2>2 DEF BasicAction
    <3>2. a \in 1..ACTION_BASIC_MAX BY <1>0, <1>4 DEF ACTION_BASIC_MAX
    <3>3. c.basic[a] # NOWHERE BY <2>2 DEF Near
    <3>4. RetAt(c, c.basic[a], a) BY <3>2, <3>3 DEF CtxOK
    <3> HIDE DEF r
    <3> QED BY <1>2, <3>1, <3>4
  <2>3. CASE ~Near(c, c.basic[a])
    <3> DEFINE d == [c EXCEPT !.basic[a] = Len(c.buf)]
    <3>1. r = Added(d, Ret(a)) BY <2>1, <2>3 DEF BasicAction
    <3>2. c = [buf |-> c.buf, basic |-> c.basic, cache |-> c.cache, stack |-> c.stack, missed |-> c.missed]
      BY DEF CtxOK
    <3>3. Noted(c, d)
      <4> DEFINE k == Len(c.buf)
      <4> HIDE DEF k
      <4>1. [c EXCEPT !.basic[a] = k] = [c EXCEPT !.basic = [c.basic EXCEPT ![a] = k]] BY <3>2
      <4> QED BY <4>1 DEF k, Noted
    <3> HIDE DEF r, d
    <3> QED BY <1>3, <3>1, <3>3
  <2> QED BY <2>2, <2>3
<1>5. CASE ~(a <= ACTION_BASIC_MAX)
  <2>1. r = DataAction(c, a) BY <1>5 DEF ResolveAction
  <2>2. CASE a \notin DOMAIN c.cache
    <3> DEFINE v == Cached(c, a)
    <3>1. r = Added([c EXCEPT !.cache = v], Ret(a)) BY <2>1, <2>2 DEF DataAction
    <3> HIDE DEF r, v
    <3>2. Noted(c, [c EXCEPT !.cache = v]) BY DEF Noted
    <3> QED BY <1>3, <3>1, <3>2
  <2>3. CASE a \in DOMAIN c.cache /\ Near(c, c.cache[a])
    <3>1. r = At(c, c.cache[a]) BY <2>1, <2>3 DEF DataAction
    <3>2. RetAt(c, c.cache[a], a) BY <2>3 DEF CtxOK
    <3> HIDE DEF r
    <3> QED BY <1>2, <3>1, <3>2
  <2>4. CASE a \in DOMAIN c.cache /\ ~Near(c, c.cache[a])
    <3> DEFINE v == [c.cache EXCEPT ![a] = Len(c.buf)]
    <3>1. r = Added([c EXCEPT !.cache = v], Ret(a)) BY <2>1, <2>4 DEF DataAction
    <3> HIDE DEF r, v
    <3>2. Noted(c, [c EXCEPT !.cache = v]) BY DEF Noted
    <3> QED BY <1>3, <3>1, <3>2
  <2> QED BY <2>2, <2>3, <2>4
<1> QED BY <1>4, <1>5

(* What a jump does to the machine: it skips.                              *)
LEMMA JumpDoes ==
  ASSUME NEW st, NEW data, NEW ins
  PROVE  /\ ins.op = "JA" => Skip(ins, st) = ins.k /\ Effect(ins, st, data) = st /\ ~Stuck(ins, st)
         /\ ins.op \in {"JEQ", "JGE", "JGT", "JSET"} =>
              /\ Skip(ins, st) = IF Jumps(ins.op, st.a, Source(ins, st)) THEN ins.jt ELSE ins.jf
              /\ Effect(ins, st, data) = st /\ ~Stuck(ins, st)
<1>1. ASSUME ins.op = "JA"
      PROVE  Skip(ins, st) = ins.k /\ Effect(ins, st, data) = st /\ ~Stuck(ins, st)
  BY <1>1 DEF Skip, Effect, Stuck
<1>2. ASSUME NEW o \in {"JEQ", "JGE", "JGT", "JSET"}, ins.op = o
      PROVE  /\ Skip(ins, st) = IF Jumps(ins.op, st.a, Source(ins, st)) THEN ins.jt ELSE ins.jf
             /\ Effect(ins, st, data) = st /\ ~Stuck(ins, st)
  BY <1>2 DEF Skip, Effect, Stuck
<1> QED BY <1>1, <1>2

(* A place that is near, a return, or a long jump to a place that is far.  *)
LEMMA LocationResolved ==
  ASSUME NEW c, CtxOK(c), Rests(c.buf, 2), NEW loc \in Locs(Len(c.buf))
  PROVE  Resolves(c, ResolveLocation(c, loc), loc)
<1> DEFINE n == Len(c.buf)
<1>0. /\ n \in Nat /\ Extends(c.buf, c.buf)
  BY OneMore
<1>1. (loc < 0 /\ \E a \in Actions : loc = -a) \/ loc \in 0..(n - 1)
  <2>1. \A a \in Actions : a \in Nat \ {0} BY ActionRange
  <2>2. \A a \in Actions : -a < 0 BY <2>1
  <2> QED BY <2>2 DEF Locs
<1>2. CASE loc < 0 /\ \E a \in Actions : loc = -a
  <2>1. PICK a \in Actions : loc = -a BY <1>2
  <2>2. a \in Nat BY ActionRange
  <2>3. -loc = a BY <2>1, <2>2
  <2>4. ResolveLocation(c, loc) = ResolveAction(c, a) BY <1>2, <2>3 DEF ResolveLocation
  <2> QED BY <2>1, <2>4, ActionResolved
<1>3. CASE loc \in 0..(n - 1) /\ ~(LocToJump(c, loc) > MAX_JUMP)
  <2>1. ~(loc < 0) BY <1>0, <1>3
  <2>2. ResolveLocation(c, loc) = [c |-> c, loc |-> loc] BY <1>3, <2>1 DEF ResolveLocation, At
  <2> DEFINE r == ResolveLocation(c, loc)
  <2>3. r.c = c /\ r.loc = loc BY <2>2
  <2> HIDE DEF r
  <2>4. Resolves(c, r, loc) BY <1>0, <1>3, <2>3 DEF Resolves
  <2> QED BY <2>4 DEF r
<1>4. CASE loc \in 0..(n - 1) /\ LocToJump(c, loc) > MAX_JUMP
  <2>1. ~(loc < 0) BY <1>0, <1>4
  <2> DEFINE r == ResolveLocation(c, loc)
             x == Ja(LocToJump(c, loc))
  <2>2. r = Added(c, x) BY <1>4, <2>1 DEF ResolveLocation
  <2>3. x.op = "JA" /\ x.k = n - 1 - loc BY DEF Ja, LocToJump, CurrentLoc
  <2> HIDE DEF r, x
  <2>4. Noted(c, c) BY DEF Noted
  <2>5. /\ r.loc = n /\ r.c.buf = Append(c.buf, x) /\ r.c.missed = c.missed /\ r.c = Add(c, x)
    BY <2>2, <2>4, NoteAdded
  <2>6. /\ Extends(Append(c.buf, x), c.buf) /\ Len(Append(c.buf, x)) = n + 1
        /\ Append(c.buf, x)[n + 1] = x
    BY OneMore
  <2>7. CtxOK(r.c)
    <3>1. r.c = Add(c, x) BY <2>5
    <3> DEFINE d == r.c
    <3> HIDE DEF d
    <3>2. d = Add(c, x) BY <3>1 DEF d
    <3>3. CtxOK(d) BY <3>2, AddedOK
    <3> QED BY <3>3 DEF d
  <2> DEFINE b == r.c.buf
  <2>8. Extends(b, c.buf) /\ Len(b) = n + 1 /\ b[n + 1] = x BY <2>5, <2>6
  <2> HIDE DEF b, n
  <2>9. ASSUME NEW data, NEW st, NEW act, Goes(c.buf, data, loc, st, act)
        PROVE  Goes(b, data, n, st, act)
    <3>1. Goes(b, data, loc, st, act) BY <2>8, <2>9, GoesStill
    <3>2. Yields(b, data, loc, st, act) BY <2>1, <3>1 DEF Goes
    <3>3. n \in 0..(Len(b) - 1) /\ ~(n < 0) BY <1>0, <2>8
    <3>4. /\ x.op # "RET" /\ ~Stuck(x, st) /\ Effect(x, st, data) = st /\ Skip(x, st) = n - 1 - loc
      BY <2>3, JumpDoes
    <3>5. n - 1 - (n - 1 - loc) = loc /\ n - 1 - loc \in Nat BY <1>0, <1>4
    <3>6. Yields(b, data, n, st, act) BY <2>8, <3>2, <3>3, <3>4, <3>5, YieldsLater
    <3> QED BY <3>3, <3>6 DEF Goes
  <2>10. n \in 0..(Len(b) - 1) BY <1>0, <2>8
  <2>11. Resolves(c, r, loc) BY <2>5, <2>7, <2>8, <2>9, <2>10 DEF Resolves, b
  <2> QED BY <2>11 DEF r
<1> QED BY <1>1, <1>2, <1>3, <1>4

(* What the right operand of a jump is. *)
Right(src, k, st) == IF src = "K" THEN k ELSE st.x

(* r goes where tloc does if the jump is taken, and where floc does if not *)
(* (unless a distance did not fit).                                        *)
Branches(c, r, type, src, k, tloc, floc) ==
  /\ Extends(r.c.buf, c.buf) /\ (~r.c.missed => ~c.missed)
  /\ tloc # floc => r.loc = Len(r.c.buf) - 1 /\ Len(r.c.buf) > Len(c.buf)
  /\ ~r.c.missed =>
       \A data, st, act :
         Goes(c.buf, data, IF Jumps(type, st.a, Right(src, k, st)) THEN tloc ELSE floc, st, act)
         => Goes(r.c.buf, data, r.loc, st, act)

BranchTypes == {"JEQ", "JGE", "JGT", "JSET"}

(* A jump at the end of a buffer, to two places that are near.             *)
LEMMA JumpHere ==
  ASSUME NEW b, NEW n, n \in Nat, Len(b) = n + 1, NEW type \in BranchTypes, NEW src \in {"K", "X"}, NEW k,
         NEW t \in 0..(n - 1), NEW f \in 0..(n - 1),
         b[n + 1] = Jump(type, src, k, n - 1 - t, n - 1 - f),
         NEW data, NEW st, NEW act,
         Goes(b, data, IF Jumps(type, st.a, Right(src, k, st)) THEN t ELSE f, st, act)
  PROVE  Goes(b, data, n, st, act)
<1> DEFINE x == b[n + 1]
<1>1. x = [op |-> type, src |-> src, k |-> k, jt |-> n - 1 - t, jf |-> n - 1 - f] BY DEF Jump
<1>2. x.op = type /\ Source(x, st) = Right(src, k, st) /\ x.jt = n - 1 - t /\ x.jf = n - 1 - f
  BY <1>1 DEF Source, Right
<1>3. x.op \in {"JEQ", "JGE", "JGT", "JSET"} BY <1>2 DEF BranchTypes
<1> HIDE DEF x
<1> DEFINE taken == Jumps(type, st.a, Right(src, k, st))
<1>4. /\ Skip(x, st) = IF taken THEN n - 1 - t ELSE n - 1 - f
      /\ Effect(x, st, data) = st /\ ~Stuck(x, st) /\ x.op # "RET"
  BY <1>2, <1>3, JumpDoes
<1> HIDE DEF taken
<1>5. n - 1 - Skip(x, st) = IF taken THEN t ELSE f BY <1>4
<1>5a. Skip(x, st) \in Nat
  <2>1. n - 1 - t \in Nat /\ n - 1 - f \in Nat OBVIOUS
  <2> QED BY <1>4, <2>1
<1>6. Yields(b, data, IF taken THEN t ELSE f, st, act)
  <2>1. ~(t < 0) /\ ~(f < 0) OBVIOUS
  <2> QED BY <2>1 DEF Goes, taken
<1>7. n \in 0..(Len(b) - 1) /\ ~(n < 0) OBVIOUS
<1>8. Yields(b, data, n - 1 - Skip(x, st), Effect(x, st, data), act) BY <1>4, <1>5, <1>6
<1>9. Yields(b, data, n, st, act)
  <2>1. b[n + 1].op # "RET" /\ ~Stuck(b[n + 1], st) /\ Skip(b[n + 1], st) \in Nat
        /\ Yields(b, data, n - 1 - Skip(b[n + 1], st), Effect(b[n + 1], st, data), act)
    BY <1>4, <1>5a, <1>8 DEF x
  <2> QED BY <1>7, <2>1, YieldsLater
<1> QED BY <1>7, <1>9 DEF Goes

(* A distance that fits is stored as it is.                                *)
LEMMA FieldFits == ASSUME NEW d \in Nat, d <= MAX_JUMP PROVE Field(d) = d
<1> DEFINE y == MAX_JUMP + 1
<1>1. y \in Nat \ {0} /\ d < y /\ MAX_JUMP + 1 = y BY CodegenConstants
<1> HIDE DEF y
<1>2. d % y = d BY <1>1
<1> QED BY <1>1, <1>2 DEF Field

(* add_jump branches.                                                      *)
LEMMA JumpBranches ==
  ASSUME NEW c, CtxOK(c), Rests(c.buf, 0), NEW type \in BranchTypes, NEW src \in {"K", "X"}, NEW k,
         NEW tloc \in Locs(Len(c.buf)), NEW floc \in Locs(Len(c.buf))
  PROVE  Branches(c, AddJump(c, type, src, k, tloc, floc), type, src, k, tloc, floc)
<1> DEFINE r == AddJump(c, type, src, k, tloc, floc)
<1>0. \E I : c.buf \in Seq(I) BY DEF CtxOK
<1>1. PICK I : c.buf \in Seq(I) BY <1>0
<1>2. Len(c.buf) \in Nat /\ Extends(c.buf, c.buf) BY OneMore
<1>3. CASE tloc = floc
  <2>1. r = [c |-> c, loc |-> tloc] BY <1>3 DEF AddJump, At
  <2>2. r.c = c /\ r.loc = tloc BY <2>1
  <2> HIDE DEF r
  <2>3. Branches(c, r, type, src, k, tloc, floc) BY <1>2, <1>3, <2>2 DEF Branches
  <2> QED BY <2>3 DEF r
<1>4. CASE tloc # floc
  <2> DEFINE t == ResolveLocation(c, tloc)
             f == ResolveLocation(t.c, floc)
             u == ResolveLocation(f.c, tloc)
             dt == LocToJump(u.c, u.loc)
             df == LocToJump(u.c, f.loc)
             x == Jump(type, src, k, Field(dt), Field(df))
             m == u.c.missed \/ dt > MAX_JUMP \/ df > MAX_JUMP
             w == [u.c EXCEPT !.missed = m]
  <2>1. r = [c |-> Add(w, x), loc |-> Len(w.buf)]
    BY <1>4 DEF AddJump, ResolveAgain, JumpTo, WriteJump, Added, At
  <2> HIDE DEF x, m, r
  <2>3. 0 \in 0..2 /\ 1 \in 0..2 /\ 2 \in 0..2 /\ 0 + 1 = 1 /\ 1 + 1 = 2 OBVIOUS
  <2>4. Rests(c.buf, 1) /\ Rests(c.buf, 2)
    <3>2. Rests(c.buf, 1) BY <1>1, <2>3, RestsStep
    <3>3. Rests(c.buf, 1 + 1) BY <1>1, <3>2, RestsStep
    <3> QED BY <2>3, <3>2, <3>3
  <2>5. Rests(t.c.buf, 1) /\ Len(t.c.buf) \in Nat /\ Len(t.c.buf) >= Len(c.buf)
    BY <2>3, <2>4, Resolved
  <2>5a. Resolves(c, t, tloc) BY <2>4, LocationResolved
  <2> HIDE DEF t
  <2>5b. CtxOK(t.c) BY <2>5a DEF Resolves
  <2>6. Rests(t.c.buf, 2)
    <3>1. PICK J : t.c.buf \in Seq(J) BY <2>5b DEF CtxOK
    <3>2. Rests(t.c.buf, 1 + 1) BY <2>5, <3>1, RestsStep
    <3> QED BY <2>3, <3>2
  <2>7. Rests(f.c.buf, 2) /\ Len(f.c.buf) \in Nat /\ Len(f.c.buf) >= Len(t.c.buf)
    BY <2>3, <2>5, <2>5b, <2>6, Resolved
  <2>7a. floc \in Locs(Len(t.c.buf)) BY <1>2, <2>5, LocsGrow
  <2>7b. Resolves(t.c, f, floc) BY <2>5b, <2>6, <2>7a, LocationResolved
  <2> HIDE DEF f
  <2>8. CtxOK(f.c) BY <2>7b DEF Resolves
  <2>9. tloc \in Locs(Len(f.c.buf))
    <3>1. tloc \in Locs(Len(t.c.buf)) BY <1>2, <2>5, LocsGrow
    <3> QED BY <2>5, <2>7, <3>1, LocsGrow
  <2>10. Resolves(f.c, u, tloc) BY <2>7, <2>8, <2>9, LocationResolved
  <2> HIDE DEF u
  <2> DEFINE b0 == c.buf
             b1 == t.c.buf
             b2 == f.c.buf
             b3 == u.c.buf
             n  == Len(b3)
             b  == Append(b3, x)
  <2>11. /\ Extends(b1, b0) /\ Extends(b2, b1) /\ Extends(b3, b2)
         /\ t.c.missed = c.missed /\ f.c.missed = t.c.missed /\ u.c.missed = f.c.missed
         /\ CtxOK(u.c) /\ f.loc \in 0..(Len(b2) - 1) /\ u.loc \in 0..(Len(b3) - 1)
    BY <2>5a, <2>7b, <2>10 DEF Resolves
  <2>12. u.c = [buf |-> u.c.buf, basic |-> u.c.basic, cache |-> u.c.cache, stack |-> u.c.stack,
                missed |-> u.c.missed]
    BY <2>11 DEF CtxOK
  <2>13. w = [buf |-> b3, basic |-> u.c.basic, cache |-> u.c.cache, stack |-> u.c.stack, missed |-> m]
    BY <2>12
  <2> HIDE DEF w
  <2>14. Add(w, x) = [buf |-> b, basic |-> u.c.basic, cache |-> u.c.cache, stack |-> u.c.stack,
                      missed |-> m]
    BY <2>13, AddTo
  <2>15. r.c.buf = b /\ r.loc = n /\ r.c.missed = m
    <3>1. w.buf = b3 BY <2>13
    <3>2. Add(w, x).buf = b /\ Add(w, x).missed = m BY <2>14
    <3>3. r.c = Add(w, x) /\ r.loc = Len(w.buf) BY <2>1
    <3> QED BY <3>1, <3>2, <3>3
  <2>16. n \in Nat /\ Extends(b, b3) /\ Len(b) = n + 1 /\ b[n + 1] = x BY <2>11, OneMore
  <2>17. dt = n - 1 - u.loc /\ df = n - 1 - f.loc BY DEF LocToJump, CurrentLoc
  <2> HIDE DEF b, n, dt, df
  <2>18. Extends(b2, b0) /\ Extends(b3, b1) /\ Extends(b3, b0) /\ Extends(b, b0)
    BY <2>11, <2>16, ExtendsMore
  <2> HIDE DEF b0, b1, b2, b3
  <2>19. ~m => ~c.missed /\ dt <= MAX_JUMP /\ df <= MAX_JUMP
    <3>1. ASSUME ~m PROVE ~c.missed BY <2>11, <3>1 DEF m
    <3>2. ASSUME ~m PROVE ~(dt > MAX_JUMP) /\ ~(df > MAX_JUMP) BY <3>2 DEF m
    <3>3. dt \in Int /\ df \in Int /\ MAX_JUMP \in Int
      <4>1. u.loc \in Int /\ f.loc \in Int BY <2>11
      <4> QED BY <2>16, <2>17, <4>1, CodegenConstants
    <3> QED BY <3>1, <3>2, <3>3
  <2>20. u.loc \in 0..(n - 1) /\ f.loc \in 0..(n - 1)
    <3>1. Len(b3) = n /\ Len(b2) \in Nat /\ n >= Len(b2) BY <2>11 DEF Extends, n
    <3> DEFINE y == Len(b2)
               z == f.loc
    <3>2. z \in 0..(y - 1) /\ y \in Nat /\ n >= y BY <2>11, <3>1
    <3> HIDE DEF y, z
    <3>3. z \in 0..(n - 1) BY <2>16, <3>2
    <3> QED BY <2>11, <3>1, <3>3 DEF z
  <2>21. ASSUME ~m, NEW data, NEW st, NEW act,
                Goes(b0, data, IF Jumps(type, st.a, Right(src, k, st)) THEN tloc ELSE floc, st, act)
         PROVE  Goes(b, data, n, st, act)
    <3> DEFINE taken == Jumps(type, st.a, Right(src, k, st))
    <3>1. Goes(b0, data, IF taken THEN tloc ELSE floc, st, act) BY <2>21
    <3>2. x = Jump(type, src, k, n - 1 - u.loc, n - 1 - f.loc)
      <4>1. dt <= MAX_JUMP /\ df <= MAX_JUMP BY <2>19, <2>21
      <4>2. dt \in Nat /\ df \in Nat BY <2>16, <2>17, <2>20
      <4>3. Field(dt) = dt /\ Field(df) = df BY <4>1, <4>2, FieldFits
      <4> QED BY <2>17, <4>3 DEF x
    <3> HIDE DEF taken
    <3>3. ASSUME taken PROVE Goes(b, data, u.loc, st, act)
      <4>1. Goes(b2, data, tloc, st, act) BY <2>18, <3>1, <3>3, GoesStill
      <4>2. Goes(b3, data, u.loc, st, act) BY <2>10, <4>1 DEF Resolves, b2, b3
      <4> QED BY <2>16, <4>2, GoesStill
    <3>4. ASSUME ~taken PROVE Goes(b, data, f.loc, st, act)
      <4>1. Goes(b1, data, floc, st, act) BY <2>11, <3>1, <3>4, GoesStill DEF b0, b1
      <4>2. Goes(b2, data, f.loc, st, act) BY <2>7b, <4>1 DEF Resolves, b1, b2
      <4>3. Goes(b3, data, f.loc, st, act) BY <2>11, <4>2, GoesStill DEF b2, b3
      <4> QED BY <2>16, <4>3, GoesStill
    <3>5. Goes(b, data, IF taken THEN u.loc ELSE f.loc, st, act) BY <3>3, <3>4
    <3> QED BY <2>16, <2>20, <3>2, <3>5, JumpHere DEF taken
  <2>22. n = Len(r.c.buf) - 1 /\ Len(r.c.buf) > Len(c.buf)
    <3>1. Len(b3) = n /\ Len(b0) \in Nat /\ n >= Len(b0) BY <2>18 DEF Extends, n
    <3> DEFINE y == Len(b0)
    <3>2. y \in Nat /\ n >= y /\ n \in Nat BY <2>16, <3>1
    <3>3. y = Len(c.buf) BY DEF b0
    <3> HIDE DEF y
    <3> QED BY <2>15, <2>16, <3>2, <3>3
  <2>23. Branches(c, r, type, src, k, tloc, floc)
    BY <2>15, <2>18, <2>19, <2>21, <2>22 DEF Branches, b0
  <2> QED BY <2>23 DEF r
<1> QED BY <1>3, <1>4

-----------------------------------------------------------------------------
(* What generate_expr and add_level write is in front of what was there.   *)

Adds(c, d) == Extends(d.buf, c.buf) /\ (~d.missed => ~c.missed)

(* One instruction, whatever is noted with it.                             *)
LEMMA OneAdds == ASSUME NEW c, CtxOK(c), NEW x, NEW d, Noted(c, d) PROVE Adds(c, Add(d, x)) /\ Adds(c, c)
<1>1. Add(d, x).buf = Append(c.buf, x) /\ Add(d, x).missed = c.missed
  <2>1. /\ Added(d, x).c.buf = Append(c.buf, x) /\ Added(d, x).c.missed = c.missed
        /\ Added(d, x).c = Add(d, x)
    BY NoteAdded
  <2> QED BY <2>1
<1>2. Extends(Append(c.buf, x), c.buf) /\ Extends(c.buf, c.buf) BY OneMore
<1> QED BY <1>1, <1>2 DEF Adds

(* More after more.                                                        *)
LEMMA AddsMore == ASSUME NEW c, NEW d, NEW f, Adds(c, d), Adds(d, f) PROVE Adds(c, f)
<1>1. Extends(f.buf, c.buf) BY ExtendsMore DEF Adds
<1> QED BY <1>1 DEF Adds

(* A jump of one of the two words.                                         *)
LEMMA WordJumpAdds ==
  ASSUME NEW c, CtxOK(c), Rests(c.buf, 0), NEW type \in JumpTypes, NEW e, NEW word,
         NEW tloc \in Locs(Len(c.buf)), NEW floc \in Locs(Len(c.buf))
  PROVE  Adds(c, WordJump(c, type, e, tloc, floc, word).c)
<1> DEFINE y == Comparison(type, e, tloc, floc, word)
           x == Masked(y, word)
<1>0. Adds(c, c)
  <2>1. Noted(c, c) BY DEF Noted
  <2> QED BY <2>1, OneAdds
<1>1. /\ y.type \in JumpTypes /\ {y.tloc, y.floc} \subseteq {tloc, floc}
  <2>1. CASE IsConst(e.left, word) /\ type \in {"JGT", "JGE"} BY <2>1 DEF Comparison, JumpTypes
  <2>2. CASE ~(IsConst(e.left, word) /\ type \in {"JGT", "JGE"}) BY <2>2 DEF Comparison, JumpTypes
  <2> QED BY <2>1, <2>2
<1> HIDE DEF y
<1>2. x.type \in JumpTypes \cup {"JSET"} /\ {x.tloc, x.floc} \subseteq {y.tloc, y.floc}
  <2> DEFINE m == /\ y.type \in {"JEQ", "JGT"} /\ y.left.type = "BIT_AND"
                  /\ Const(y.right, word) = {0}
  <2>1. CASE ~m
    <3>1. x = y BY <2>1 DEF Masked
    <3> HIDE DEF x
    <3> QED BY <1>1, <3>1
  <2>2. CASE m
    <3>1. x = [type  |-> "JSET",
               left  |-> Operands(y.left, word)[1],
               right |-> Operands(y.left, word)[2],
               tloc  |-> IF y.type = "JEQ" THEN y.floc ELSE y.tloc,
               floc  |-> IF y.type = "JEQ" THEN y.tloc ELSE y.floc]
      BY <2>2 DEF Masked
    <3> HIDE DEF x
    <3> QED BY <3>1
  <2> QED BY <2>1, <2>2
<1>3. x.type \in BranchTypes /\ x.tloc \in Locs(Len(c.buf)) /\ x.floc \in Locs(Len(c.buf))
  <2>1. x.tloc \in {tloc, floc} /\ x.floc \in {tloc, floc} BY <1>1, <1>2
  <2> QED BY <1>2, <2>1 DEF BranchTypes, JumpTypes
<1>4. ASSUME NEW src \in {"K", "X"}, NEW k PROVE Adds(c, AddJump(c, x.type, src, k, x.tloc, x.floc).c)
  <2> HIDE DEF x
  <2>1. Branches(c, AddJump(c, x.type, src, k, x.tloc, x.floc), x.type, src, k, x.tloc, x.floc)
    BY <1>3, JumpBranches
  <2> DEFINE r == AddJump(c, x.type, src, k, x.tloc, x.floc)
  <2> HIDE DEF r
  <2>2. Branches(c, r, x.type, src, k, x.tloc, x.floc) BY <2>1 DEF r
  <2>3. Adds(c, r.c) BY <2>2 DEF Branches, Adds
  <2> QED BY <2>3 DEF r
<1>5. ASSUME NEW loc PROVE At(c, loc).c = c BY DEF At
<1>6. CASE Decided(e, word)
  <2> DEFINE loc == IF Jumps(type, ValueOf(e.left, word), ValueOf(e.right, word)) THEN tloc ELSE floc
  <2>1. WordJump(c, type, e, tloc, floc, word) = At(c, loc) BY <1>6 DEF WordJump
  <2> HIDE DEF loc
  <2> QED BY <1>0, <1>5, <2>1
<1>7. CASE ~Decided(e, word) /\ IsConst(x.right, word)
  <2> DEFINE v == ValueOf(x.right, word)
             r == AddJumpK(c, x.type, v, x.tloc, x.floc)
  <2>1. WordJump(c, type, e, tloc, floc, word) = r BY <1>7 DEF WordJump, y
  <2> HIDE DEF x, v
  <2>2. \/ r = At(c, x.tloc) \/ r = At(c, x.floc) \/ r = AddJump(c, x.type, "K", v, x.tloc, x.floc)
    BY DEF AddJumpK
  <2>3. "K" \in {"K", "X"} OBVIOUS
  <2>4. Adds(c, AddJump(c, x.type, "K", v, x.tloc, x.floc).c) BY <1>4, <2>3
  <2> HIDE DEF r
  <2> QED BY <1>0, <1>5, <2>1, <2>2, <2>4
<1>8. CASE ~Decided(e, word) /\ ~IsConst(x.right, word)
  <2>1. WordJump(c, type, e, tloc, floc, word) = AddJump(c, x.type, "X", 0, x.tloc, x.floc)
    BY <1>8 DEF WordJump, y
  <2> HIDE DEF x
  <2>2. "X" \in {"K", "X"} OBVIOUS
  <2>3. Adds(c, AddJump(c, x.type, "X", 0, x.tloc, x.floc).c) BY <1>4, <2>2
  <2> QED BY <2>1, <2>3
<1> QED BY <1>6, <1>7, <1>8

(* Every step of generate_expr and generate_load.                          *)
LEMMA ExprAdds == ASSUME WritingOK, GenerateExpr PROVE Adds(code, code')
<1> DEFINE n == Len(code.buf)
<1>1. CtxOK(code) /\ Rests(code.buf, 0) /\ n \in Nat /\ TasksOK(tasks, n) /\ next \in Locs(n)
  BY DEF WritingOK
<1>2. Noted(code, code) /\ \A s : Noted(code, [code EXCEPT !.stack = s]) BY DEF Noted
<1>3. Adds(code, code) /\ (\A x : Adds(code, Add(code, x)))
      /\ \A s, x : Adds(code, Add([code EXCEPT !.stack = s], x))
  BY <1>1, <1>2, OneAdds
<1>4. CASE GenerateConnective \/ GenerateComparison
  <2>1. code' = code BY <1>4, BranchReplaced DEF Replace
  <2> QED BY <1>3, <2>1
<1>5. CASE CompareWord
  <2> DEFINE t == Task
             r == WordJump(code, t.type, t.expr, Tloc, Floc, t.word)
  <2>1. tasks # <<>> /\ Task.task = "compare" /\ code' = r.c BY <1>5 DEF CompareWord, Doing
  <2>2. Task.type \in JumpTypes /\ Tloc \in Locs(n) /\ Floc \in Locs(n)
    BY <1>1, <2>1, TaskOn, TargetsIn DEF TaskOK
  <2>3. Adds(code, r.c) BY <1>1, <2>2, WordJumpAdds
  <2> QED BY <2>1, <2>3
<1>6. CASE CompareHighWords
  <2> DEFINE e  == Task.expr
             ge == WordJump(code, "JGE", e, next, Floc, "HIGH")
             gt == WordJump(ge.c, "JGT", e, Tloc, ge.loc, "HIGH")
  <2>1. tasks # <<>> /\ Task.task = "high" /\ code' = gt.c BY <1>6 DEF CompareHighWords, Doing
  <2>2. Tloc \in Locs(n) /\ Floc \in Locs(n) BY <2>1, TargetsIn
  <2>3. "JGE" \in JumpTypes /\ "JGT" \in JumpTypes BY DEF JumpTypes
  <2>4. Continues(code, ge, next, Floc) BY <1>1, <2>3, WordJumpAdded
  <2>5. Adds(code, ge.c) BY <1>1, <2>2, <2>3, WordJumpAdds
  <2> HIDE DEF ge
  <2>6. ge.loc \in Locs(Len(ge.c.buf)) /\ Locs(n) \subseteq Locs(Len(ge.c.buf))
    BY <1>1, <2>2, <2>4, ContinuesIn
  <2>7. CtxOK(ge.c) /\ Rests(ge.c.buf, 0) BY <2>4 DEF Continues
  <2>8. Adds(ge.c, gt.c) BY <2>2, <2>3, <2>6, <2>7, WordJumpAdds
  <2> HIDE DEF gt
  <2> QED BY <2>1, <2>5, <2>8, AddsMore
<1>7. CASE LoadArgument BY <1>3, <1>7 DEF LoadArgument
<1>8. CASE WriteInstruction BY <1>3, <1>8 DEF WriteInstruction
<1>9. CASE ValueLoaded BY <1>3, <1>9 DEF ValueLoaded
<1>10. CASE LoadOperation
  <2>1. \/ code' = code \/ (\E x : code' = Add(code, x)) \/ \E s, x : code' = Add([code EXCEPT !.stack = s], x)
    <3> DEFINE e     == Task.expr
               left  == Operands(e, Task.word)[1]
               right == Operands(e, Task.word)[2]
               op       == IF e.type = "BIT_AND" THEN "AND" ELSE "OR"
               identity == IF e.type = "BIT_AND" THEN WORD_MAX ELSE 0
               K        == ValueOf(right, Task.word)
               raised   == IF left.type # "VAR" /\ Task.sp > code.stack THEN Task.sp ELSE code.stack
               x == Alu(op, "K", K)
               y == Alu(op, "X", 0)
    <3>1. \/ code' = (IF K = identity THEN code ELSE Add(code, x))
          \/ code' = Add([code EXCEPT !.stack = raised], y)
      BY <1>10 DEF LoadOperation
    <3> HIDE DEF x, y, raised, K, identity
    <3> QED BY <3>1
  <2> QED BY <1>3, <2>1
<1> QED BY <1>4, <1>5, <1>6, <1>7, <1>8, <1>9, <1>10 DEF GenerateExpr

-----------------------------------------------------------------------------
(* What is known of a term.                                                *)


(* cache_constants                                                         *)
LEMMA ConstEach ==
  ASSUME NEW word PROVE
  \A x \in Exprs :
    Const(x, word) = CASE x.type \in {"BIT_OR", "BIT_AND"} -> Combined(x.type, Const(x.left, word), Const(x.right, word))
                       [] x.type = "NUMBER" -> {Word(x.number, word)}
                       [] OTHER -> {}
<1> DEFINE B(g, x) == CASE x.type \in {"BIT_OR", "BIT_AND"} -> Combined(x.type, g[x.left], g[x.right])
                        [] x.type = "NUMBER" -> {Word(x.number, word)}
                        [] OTHER -> {}
           F == CHOOSE f : f = [x \in Exprs |-> B(f, x)]
<1>1. ASSUME NEW g, NEW h, NEW x, AgreeOnParts(g, h, x) PROVE B(g, x) = B(h, x)
  <2>1. CASE x.type \in Leaves BY <2>1, BinariesAre DEF Leaves, BinaryTypes
  <2>2. CASE x.type = "NOT" /\ g[x.child] = h[x.child] BY <2>2, BinariesAre DEF Leaves, BinaryTypes
  <2>3. CASE x.type \in BinaryTypes /\ g[x.left] = h[x.left] /\ g[x.right] = h[x.right]
    BY <2>3, BinariesAre DEF Leaves, BinaryTypes
  <2> HIDE DEF B
  <2> QED BY <1>1, <2>1, <2>2, <2>3 DEF AgreeOnParts
<1>2. ASSUME NEW x \in Exprs PROVE Const(x, word) = F[x] BY DEF Const
<1> HIDE DEF B
<1> DEFINE E == {n \in Nat : \E g : g = [x \in ExprsTo[n] |-> B(g, x)]}
<1>3. 0 \in E
  <2> DEFINE h == [x \in ExprsTo[0] |-> B(<<>>, x)]
  <2>1. h = [x \in ExprsTo[0] |-> B(h, x)]
    <3> HIDE DEF h
    <3>1. ASSUME NEW x \in ExprsTo[0] PROVE B(<<>>, x) = B(h, x) BY <1>1, LeafAgrees
    <3> QED BY <3>1 DEF h
  <2> HIDE DEF h
  <2> QED BY <2>1
<1>4. ASSUME NEW n \in Nat, n \in E PROVE n + 1 \in E
  <2>1. PICK g : g = [x \in ExprsTo[n] |-> B(g, x)] BY <1>4
  <2> DEFINE h == [x \in ExprsTo[n + 1] |-> B(g, x)]
  <2>2. ASSUME NEW y \in ExprsTo[n] PROVE h[y] = g[y]
    <3>1. y \in ExprsTo[n + 1] BY ExprsGrow
    <3> QED BY <2>1, <3>1
  <2>3. ASSUME NEW x \in ExprsTo[n + 1] PROVE B(g, x) = B(h, x)
    <3> HIDE DEF h
    <3>1. AgreeOnParts(h, g, x) BY <2>2, BelowAgree
    <3> QED BY <3>1, <1>1
  <2>4. h = [x \in ExprsTo[n + 1] |-> B(h, x)]
    <3> HIDE DEF h
    <3> QED BY <2>3 DEF h
  <2> HIDE DEF h
  <2> QED BY <2>4
<1> HIDE DEF E
<1>5. MAX_EXPRESSION_DEPTH \in E
  <2>1. Nat \subseteq E BY <1>3, <1>4, CountUp
  <2> QED BY <2>1, ExpressionConstants
<1>6. F = [x \in Exprs |-> B(F, x)] BY <1>5 DEF E, Exprs
<1>7. ASSUME NEW x \in Exprs PROVE F[x] = B(F, x)
  <2> HIDE DEF F
  <2> QED BY <1>6
<1> HIDE DEF F
<1> TAKE x \in Exprs
<1>8. F[x] = B(F, x) BY <1>7
<1>9. CASE x.type \in Leaves BY <1>2, <1>8, <1>9, BinariesAre DEF B, Leaves, BinaryTypes
<1>10. CASE x.type = "NOT" /\ x.child \in Exprs
  BY <1>2, <1>8, <1>10, BinariesAre DEF B, Leaves, BinaryTypes
<1>11. CASE x.type \in BinaryTypes /\ x.left \in Exprs /\ x.right \in Exprs
  BY <1>2, <1>8, <1>11, BinariesAre DEF B, Leaves, BinaryTypes
<1> QED BY <1>9, <1>10, <1>11, PartsOf

(* The words of a value are words, and those of a combination combine.     *)
WordNames == {"LOW", "HIGH"}

(* The words of a register are words.                                      *)
LEMMA WordIn == \A n \in Registers64 : \A w \in WordNames : Word(n, w) \in Words
BY RegisterWords DEF Word, WordNames

(* A word of a combination is the combination of the words.                *)
LEMMA WordOfBitsIs ==
  \A op \in BitTypes : \A a, b \in Nat : \A w \in WordNames :
    Word(Bits(op, a, b), w) = Bits(op, Word(a, w), Word(b, w))
BY BitsByWord DEF Word, WordNames

(* The known value of two sets of at most one.                             *)
LEMMA CombinedIs ==
  ASSUME NEW op \in BitTypes, NEW a \in Words, NEW b \in Words, NEW L, NEW R, L \subseteq {a}, R \subseteq {b}
  PROVE  /\ Combined(op, L, R) \subseteq {Bits(op, a, b)}
         /\ L # {} /\ R # {} => Combined(op, L, R) # {}
<1> DEFINE v == Clobber(op, WORD_MAX)
<1>1. Bits(op, a, v) = v /\ Bits(op, v, b) = v
  <2>1. v \in Words
    <3>1. 0 \in Words /\ WORD_MAX \in Words BY WordFacts DEF Words
    <3> QED BY <3>1 DEF Clobber
  <2>2. Bits(op, a, v) = v /\ Bits(op, b, v) = v BY WordOps
  <2>3. Bits(op, v, b) = Bits(op, b, v) BY <2>1, BitsCommute DEF Words
  <2> QED BY <2>2, <2>3
<1>2. CASE L # {} /\ R # {}
  <2>1. L = {a} /\ R = {b} BY <1>2
  <2>2. {Bits(op, l, r) : l \in {a}, r \in {b}} = {Bits(op, a, b)} OBVIOUS
  <2>3. Combined(op, L, R) = {Bits(op, l, r) : l \in L, r \in R} BY <1>2 DEF Combined
  <2>4. Combined(op, L, R) = {Bits(op, a, b)}
    <3>1. {Bits(op, l, r) : l \in L, r \in R} = {Bits(op, l, r) : l \in {a}, r \in {b}} BY <2>1
    <3> QED BY <2>2, <2>3, <3>1
  <2> QED BY <1>2, <2>4
<1>3. CASE ~(L # {} /\ R # {})
  <2>1. Combined(op, L, R) = (L \cup R) \cap {v} BY <1>3 DEF Combined, Clobber
  <2> HIDE DEF v
  <2>2. ASSUME v \in L \cup R PROVE Bits(op, a, b) = v
    <3>1. v = a \/ v = b BY <2>2
    <3> QED BY <1>1, <3>1
  <2> QED BY <1>3, <2>1, <2>2
<1> QED BY <1>2, <1>3

(* The cases of cache_constants.                                           *)
LEMMA ConstIs ==
  ASSUME NEW word
  PROVE  /\ \A x \in Exprs : x.type = "NUMBER" => Const(x, word) = {Word(x.number, word)}
         /\ \A x \in Exprs : x.type = "VAR" => Const(x, word) = {}
         /\ \A x \in Exprs : x.type \in BitTypes =>
              Const(x, word) = Combined(x.type, Const(x.left, word), Const(x.right, word))
<1>1. ASSUME NEW x \in Exprs
      PROVE  /\ x.type = "NUMBER" => Const(x, word) = {Word(x.number, word)}
             /\ x.type = "VAR" => Const(x, word) = {}
             /\ x.type \in BitTypes =>
                  Const(x, word) = Combined(x.type, Const(x.left, word), Const(x.right, word))
  <2> DEFINE v == {Word(x.number, word)}
             b == Combined(x.type, Const(x.left, word), Const(x.right, word))
  <2>1. Const(x, word) = CASE x.type \in {"BIT_OR", "BIT_AND"} -> b
                           [] x.type = "NUMBER" -> v
                           [] OTHER -> {}
    BY ConstEach
  <2> HIDE DEF v, b
  <2>2. x.type = "NUMBER" => Const(x, word) = v BY <2>1
  <2>3. x.type = "VAR" => Const(x, word) = {} BY <2>1
  <2>4. x.type \in BitTypes => Const(x, word) = b BY <2>1 DEF BitTypes
  <2> QED BY <2>2, <2>3, <2>4 DEF v, b
<1> QED BY <1>1

(* What is known of a term's word is its value's word.                     *)
WordOf(x, word, regs) == Word(Value(x, regs), word)

(* Operands that are constants have the words that the code compares with. *)
LEMMA ConstRight ==
  ASSUME NEW V, NEW regs, Given(regs, V), NEW word \in WordNames
  PROVE  \A x \in Terms(V, {}) : /\ Value(x, regs) \in Registers64
                                 /\ WordOf(x, word, regs) \in Words
                                 /\ Const(x, word) \subseteq {WordOf(x, word, regs)}
<1>1. ASSUME NEW x \in Terms(V, {}) PROVE Value(x, regs) \in Registers64 /\ WordOf(x, word, regs) \in Words
  BY TermFits, WordIn DEF WordOf
<1> DEFINE A == {x \in Terms(V, {}) : Const(x, word) \subseteq {WordOf(x, word, regs)}}
<1>2. Terms(V, {}) \subseteq Exprs BY TermsAre DEF TermSet
<1>3. ASSUME NEW x \in Terms(V, {}),
             \/ x.type = "NUMBER" /\ x.number \in Registers64
             \/ x.type = "VAR" /\ x.var \in V
             \/ x.type = "IDENTIFIER" /\ x.id \in {}
             \/ /\ x.type \in BitTypes /\ x.left \in Terms(V, {}) /\ x.right \in Terms(V, {})
                /\ x.left \in A /\ x.right \in A
      PROVE  x \in A
  <2>1. CASE x.type = "NUMBER" BY <1>2, <2>1, ConstIs, ValueIs DEF WordOf
  <2>2. CASE x.type = "VAR" BY <1>2, <2>2, ConstIs
  <2>3. CASE /\ x.type \in BitTypes /\ x.left \in Terms(V, {}) /\ x.right \in Terms(V, {})
             /\ x.left \in A /\ x.right \in A
    <3> DEFINE a == WordOf(x.left, word, regs)
               b == WordOf(x.right, word, regs)
    <3>1. a \in Words /\ b \in Words BY <1>1, <2>3
    <3>2. Const(x.left, word) \subseteq {a} /\ Const(x.right, word) \subseteq {b} BY <2>3
    <3>3. Const(x, word) = Combined(x.type, Const(x.left, word), Const(x.right, word)) BY <1>2, <2>3, ConstIs
    <3>4. WordOf(x, word, regs) = Bits(x.type, a, b)
      <4>1. Value(x, regs) = Bits(x.type, Value(x.left, regs), Value(x.right, regs)) BY <1>2, <2>3, ValueIs
      <4>2. Value(x.left, regs) \in Nat /\ Value(x.right, regs) \in Nat BY <1>1, <2>3 DEF Registers64
      <4> QED BY <2>3, <4>1, <4>2, WordOfBitsIs DEF WordOf
    <3> HIDE DEF a, b
    <3>5. Const(x, word) \subseteq {Bits(x.type, a, b)} BY <2>3, <3>1, <3>2, <3>3, CombinedIs
    <3> QED BY <3>4, <3>5
  <2> QED BY <1>3, <2>1, <2>2, <2>3
<1>4. Terms(V, {}) \subseteq A
  <2> HIDE DEF A
  <2> QED BY <1>3, TermInduction
<1> QED BY <1>1, <1>4

-----------------------------------------------------------------------------
(* What one instruction of an expression's code does to a state of the     *)
(* machine.                                                                *)

Slots == UNION {[D -> Nat] : D \in SUBSET Nat}
State(a, x, m) == [a |-> a, x |-> x, m |-> m]
States == {State(a, x, m) : a \in Nat, x \in Nat, m \in Slots}

(* States and their parts.                                                 *)
LEMMA StateParts ==
  /\ \A st \in States : st.a \in Nat /\ st.x \in Nat /\ st.m \in Slots /\ st = State(st.a, st.x, st.m)
  /\ \A a \in Nat, x \in Nat, m \in Slots :
       /\ State(a, x, m) \in States
       /\ State(a, x, m).a = a /\ State(a, x, m).x = x /\ State(a, x, m).m = m
<1>1. ASSUME NEW a \in Nat, NEW x \in Nat, NEW m \in Slots
      PROVE  /\ State(a, x, m) \in States
             /\ State(a, x, m).a = a /\ State(a, x, m).x = x /\ State(a, x, m).m = m
  <2>1. State(a, x, m) \in States BY DEF States
  <2> QED BY <2>1 DEF State
<1>2. ASSUME NEW st \in States
      PROVE  st.a \in Nat /\ st.x \in Nat /\ st.m \in Slots /\ st = State(st.a, st.x, st.m)
  <2>1. \E a \in Nat, x \in Nat, m \in Slots : st = State(a, x, m) BY DEF States
  <2>2. PICK a \in Nat, x \in Nat, m \in Slots : st = State(a, x, m) BY <2>1
  <2> QED BY <1>1, <2>2
<1> QED BY <1>1, <1>2

(* Slots: storing adds one, and what is stored can be loaded.              *)
LEMMA SlotsKept ==
  ASSUME NEW m \in Slots
  PROVE  /\ \A k \in DOMAIN m : k \in Nat /\ m[k] \in Nat
         /\ \A k \in Nat, v \in Nat :
              /\ Stored(m, k, v) \in Slots /\ DOMAIN Stored(m, k, v) = DOMAIN m \cup {k}
              /\ Stored(m, k, v)[k] = v
              /\ \A n \in DOMAIN m : n # k => Stored(m, k, v)[n] = m[n]
<1>1. PICK D \in SUBSET Nat : m \in [D -> Nat] BY DEF Slots
<1>2. ASSUME NEW k \in Nat, NEW v \in Nat
      PROVE  /\ Stored(m, k, v) \in Slots /\ DOMAIN Stored(m, k, v) = DOMAIN m \cup {k}
             /\ Stored(m, k, v)[k] = v
             /\ \A n \in DOMAIN m : n # k => Stored(m, k, v)[n] = m[n]
  <2> DEFINE t == Stored(m, k, v)
             C == D \cup {k}
  <2>1. t = [n \in C |-> IF n = k THEN v ELSE m[n]] BY <1>1 DEF Stored
  <2>2. t \in [C -> Nat] /\ DOMAIN t = C /\ t[k] = v /\ \A n \in D : n # k => t[n] = m[n]
    <3> HIDE DEF t
    <3>1. \A n \in C : (IF n = k THEN v ELSE m[n]) \in Nat BY <1>1
    <3> QED BY <2>1, <3>1
  <2>3. C \in SUBSET Nat /\ DOMAIN m = D BY <1>1
  <2> HIDE DEF t, C
  <2>4. t \in Slots BY <2>2, <2>3 DEF Slots
  <2> QED BY <2>2, <2>3, <2>4 DEF t, C
<1> QED BY <1>1, <1>2

(* The same of one slot that is written.                                   *)
LEMMA SlotStored ==
  ASSUME NEW m \in Slots, NEW k \in Nat, NEW v \in Nat
  PROVE  /\ Stored(m, k, v) \in Slots /\ DOMAIN Stored(m, k, v) = DOMAIN m \cup {k}
         /\ Stored(m, k, v)[k] = v
         /\ \A n \in DOMAIN m : n # k => Stored(m, k, v)[n] = m[n]
BY SlotsKept

(* An instruction that goes on with the one before it, in the state t.     *)
Steps(x, st, data, t) ==
  x.op # "RET" /\ Skip(x, st) = 0 /\ ~Stuck(x, st) /\ Effect(x, st, data) = t

(* The instructions of a load.                                             *)
LEMMA InstructionDoes ==
  ASSUME NEW st \in States, NEW data
  PROVE  /\ \A v, w : Steps(LoadArg(v, w), st, data, State(Word(data.regs[v], w), st.x, st.m))
         /\ Steps(TAX, st, data, State(st.a, st.a, st.m))
         /\ \A k \in Nat : k < BPF_MEMWORDS =>
              Steps(Slot("ST", k), st, data, State(st.a, st.x, Stored(st.m, k, st.a)))
         /\ \A k \in DOMAIN st.m : k < BPF_MEMWORDS =>
              Steps(Slot("LDX", k), st, data, State(st.a, st.m[k], st.m))
         /\ \A op \in BitTypes : \A src \in {"K", "X"} : \A k :
              Steps(Alu(IF op = "BIT_AND" THEN "AND" ELSE "OR", src, k), st, data,
                    State(Bits(op, st.a, Right(src, k, st)), st.x, st.m))
<1>1. st = [a |-> st.a, x |-> st.x, m |-> st.m] BY StateParts DEF State
<1>2. ASSUME NEW v
      PROVE  /\ [st EXCEPT !.a = v] = State(v, st.x, st.m)
             /\ [st EXCEPT !.x = v] = State(st.a, v, st.m)
             /\ [st EXCEPT !.m = v] = State(st.a, st.x, v)
  BY <1>1 DEF State
<1>3. ASSUME NEW v, NEW w
      PROVE  Steps(LoadArg(v, w), st, data, State(Word(data.regs[v], w), st.x, st.m))
  <2> DEFINE x == LoadArg(v, w)
  <2>1. x.op = "LD_ARG" /\ x.k = v /\ x.word = w BY DEF LoadArg
  <2> HIDE DEF x
  <2>2. Skip(x, st) = 0 /\ ~Stuck(x, st) BY <2>1 DEF Skip, Stuck
  <2>3. Effect(x, st, data) = [st EXCEPT !.a = Word(data.regs[v], w)] BY <2>1 DEF Effect
  <2>4. Steps(x, st, data, State(Word(data.regs[v], w), st.x, st.m)) BY <1>2, <2>1, <2>2, <2>3 DEF Steps
  <2> QED BY <2>4 DEF x
<1>4. Steps(TAX, st, data, State(st.a, st.a, st.m))
  <2>1. TAX.op = "TAX" BY DEF TAX
  <2>2. Skip(TAX, st) = 0 /\ ~Stuck(TAX, st) BY <2>1 DEF Skip, Stuck
  <2>3. Effect(TAX, st, data) = [st EXCEPT !.x = st.a] BY <2>1 DEF Effect
  <2> QED BY <1>2, <2>1, <2>2, <2>3 DEF Steps
<1>5. ASSUME NEW k \in Nat, k < BPF_MEMWORDS
      PROVE  Steps(Slot("ST", k), st, data, State(st.a, st.x, Stored(st.m, k, st.a)))
  <2> DEFINE x == Slot("ST", k)
             s == Stored(st.m, k, st.a)
  <2>1. x.op = "ST" /\ x.k = k BY DEF Slot
  <2> HIDE DEF x
  <2>2. ~(k >= BPF_MEMWORDS) BY <1>5, CodegenConstants
  <2>3. Skip(x, st) = 0 /\ ~Stuck(x, st) BY <2>1, <2>2 DEF Skip, Stuck
  <2>4. Effect(x, st, data) = [st EXCEPT !.m = s] BY <2>1 DEF Effect
  <2> HIDE DEF s
  <2>5. Steps(x, st, data, State(st.a, st.x, s)) BY <1>2, <2>1, <2>3, <2>4 DEF Steps
  <2> QED BY <2>5 DEF x, s
<1>6. ASSUME NEW k \in DOMAIN st.m, k < BPF_MEMWORDS
      PROVE  Steps(Slot("LDX", k), st, data, State(st.a, st.m[k], st.m))
  <2> DEFINE x == Slot("LDX", k)
  <2>0. k \in Nat BY StateParts, SlotsKept
  <2>1. x.op = "LDX" /\ x.k = k BY DEF Slot
  <2> HIDE DEF x
  <2>2. ~(k >= BPF_MEMWORDS) BY <1>6, <2>0, CodegenConstants
  <2>3. Skip(x, st) = 0 /\ ~Stuck(x, st) BY <2>1, <2>2 DEF Skip, Stuck
  <2>4. Effect(x, st, data) = [st EXCEPT !.x = st.m[k]] BY <2>1 DEF Effect
  <2>5. Steps(x, st, data, State(st.a, st.m[k], st.m)) BY <1>2, <2>1, <2>3, <2>4 DEF Steps
  <2> QED BY <2>5 DEF x
<1>7. ASSUME NEW op \in BitTypes, NEW src \in {"K", "X"}, NEW k
      PROVE  Steps(Alu(IF op = "BIT_AND" THEN "AND" ELSE "OR", src, k), st, data,
                   State(Bits(op, st.a, Right(src, k, st)), st.x, st.m))
  <2> DEFINE o == IF op = "BIT_AND" THEN "AND" ELSE "OR"
             x == Alu(o, src, k)
             v == Right(src, k, st)
  <2>1. x.op = o /\ x.src = src /\ x.k = k BY DEF Alu
  <2>2. (op = "BIT_AND" /\ o = "AND") \/ (op = "BIT_OR" /\ o = "OR") BY DEF BitTypes
  <2> HIDE DEF x, o
  <2>3. Source(x, st) = v BY <2>1 DEF Source, Right
  <2> HIDE DEF v
  <2>4. Skip(x, st) = 0 /\ ~Stuck(x, st) BY <2>1, <2>2 DEF Skip, Stuck
  <2>5. Effect(x, st, data) = [st EXCEPT !.a = Bits(op, st.a, v)]
    <3>1. CASE op = "BIT_AND" /\ o = "AND" BY <2>1, <2>3, <3>1 DEF Effect
    <3>2. CASE op = "BIT_OR" /\ o = "OR" BY <2>1, <2>3, <3>2 DEF Effect
    <3> QED BY <2>2, <3>1, <3>2
  <2>6. x.op # "RET" BY <2>1, <2>2
  <2>7. Steps(x, st, data, State(Bits(op, st.a, v), st.x, st.m)) BY <1>2, <2>4, <2>5, <2>6 DEF Steps
  <2> QED BY <2>7 DEF x, o, v
<1> QED BY <1>3, <1>4, <1>5, <1>6, <1>7

(* The newest instruction steps and goes on before itself.                 *)
LEMMA NewestGoes ==
  ASSUME NEW b, NEW d, NEW x, Extends(d, b), Len(d) = Len(b) + 1, d[Len(b) + 1] = x, Len(b) >= 1,
         NEW data, NEW act, NEW st, NEW t, Steps(x, st, data, t), Goes(b, data, Len(b) - 1, t, act)
  PROVE  Goes(d, data, Len(d) - 1, st, act)
<1> DEFINE n == Len(b)
<1>1. n \in Nat /\ n >= 1 /\ Len(d) - 1 = n /\ d[n + 1] = x BY DEF Extends
<1> HIDE DEF n
<1>2. ~(n - 1 < 0) /\ ~(n < 0) /\ n \in 0..(Len(d) - 1) /\ n - 1 - 0 = n - 1 /\ 0 \in Nat
  <2>1. Len(d) = n + 1 BY DEF n
  <2> QED BY <1>1, <2>1
<1>3. Goes(d, data, n - 1, t, act) BY GoesStill DEF n
<1>4. Yields(d, data, n - 1, t, act) BY <1>2, <1>3 DEF Goes
<1>5. /\ d[n + 1].op # "RET" /\ ~Stuck(d[n + 1], st) /\ Skip(d[n + 1], st) = 0
      /\ Effect(d[n + 1], st, data) = t
  BY <1>1 DEF Steps
<1>6. Yields(d, data, n, st, act) BY <1>2, <1>4, <1>5, YieldsLater
<1> QED BY <1>1, <1>2, <1>6 DEF Goes

-----------------------------------------------------------------------------
(* What the tasks of the code generator promise.  A call's data gives the  *)
(* registers whose numbers a term may name.                                *)

TermsOf(data)      == Terms(DOMAIN data.regs, {})
ConditionsOf(data) == Conditions(DOMAIN data.regs, {})
Call(data)         == Given(data.regs, DOMAIN data.regs)

(* u has what st has in the slots below sp.                                *)
Kept(st, u, sp) == \A k \in DOMAIN st.m : k < sp => k \in DOMAIN u.m /\ u.m[k] = st.m[k]

(* Both operands of e have to be loaded, the second one to X.              *)
Indexed(e, word) == e.type \in BitTypes /\ ~IsConst(Operands(e, word)[2], word)

(* To load the word of e in the state st ends in the state u.              *)
Loads(e, word, sp, regs, st, u) ==
  /\ u \in States /\ u.a = WordOf(e, word, regs) /\ Kept(st, u, sp)
  /\ e.type = "VAR" => u.x = st.x
  /\ Indexed(e, word) => u.x = WordOf(Operands(e, word)[2], word, regs)

(* A target: the state after the task may be any, or code that is written  *)
(* leads any state to the action.                                          *)
Chosen(b, data, act, loc, post) ==
  IF loc = HERE THEN post = States ELSE \A st \in States : Goes(b, data, loc, st, act)

Operated(e, data) == e \in Exprs /\ e.left \in TermsOf(data) /\ e.right \in TermsOf(data)

BranchLink(b, data, act, t, post, pre) ==
  /\ t.task = "branch" /\ t.expr \in ConditionsOf(data)
  /\ pre # {} => Chosen(b, data, act, IF Holds(t.expr, data.regs) THEN t.tloc ELSE t.floc, post)

LeftWord(t, word, data)  == WordOf(t.expr.left, word, data.regs)
RightWord(t, word, data) == WordOf(t.expr.right, word, data.regs)
CompareLink(b, data, act, t, post, pre) ==
  /\ t.task = "compare" /\ Operated(t.expr, data) /\ t.word \in WordNames
  /\ pre # {} => Chosen(b, data, act, IF Jumps(t.type, LeftWord(t, t.word, data), RightWord(t, t.word, data))
                                      THEN t.tloc ELSE t.floc, post)

HighLink(b, data, act, t, post, pre) ==
  /\ t.task = "high" /\ Operated(t.expr, data)
  /\ pre # {} => LET l == LeftWord(t, "HIGH", data)
                     r == RightWord(t, "HIGH", data)
                 IN /\ l > r => Chosen(b, data, act, t.tloc, post)
                    /\ l < r => Chosen(b, data, act, t.floc, post)
                    /\ l = r => post = States

LoadLink(data, t, post, pre) ==
  /\ t.task = "load" /\ t.expr \in TermsOf(data) /\ t.word \in WordNames /\ t.sp \in Nat
  /\ ~IsConst(t.expr, t.word)
  /\ \A st \in pre : \A u : Loads(t.expr, t.word, t.sp, data.regs, st, u) => u \in post

WriteLink(data, t, post, pre) ==
  t.task = "write" /\ \A st \in pre : \E u \in post : Steps(t.instr, st, data, u)

(* From the states of pre the code of t leads to those of post, or, if it  *)
(* goes elsewhere, to the action.                                          *)
Link(b, data, act, t, post, pre) ==
  \/ BranchLink(b, data, act, t, post, pre)
  \/ CompareLink(b, data, act, t, post, pre)
  \/ HighLink(b, data, act, t, post, pre)
  \/ LoadLink(data, t, post, pre)
  \/ WriteLink(data, t, post, pre)
  \/ t.task = "newest" /\ pre \subseteq post

(* Tasks that go on at the newest instruction; and what a task stands on.  *)
Loading(t) == t.task \in {"load", "write", "newest"}
Stands(t, loading) == t.task \in {"load", "write"} <=> loading

(* The tasks together: the last one is done first and comes last.          *)
Chain(b, data, act, ts, pre, post) ==
  \E P : /\ P[0] = pre /\ P[Len(ts)] = post
         /\ \A k \in 0..Len(ts) : P[k] \subseteq States
         /\ \A k \in 1..Len(ts) : /\ Link(b, data, act, ts[k], P[k], P[k - 1])
                                  /\ Stands(ts[k], k > 1 /\ Loading(ts[k - 1]))

(* No task.                                                                *)
LEMMA ChainNone ==
  ASSUME NEW b, NEW data, NEW act, NEW pre \in SUBSET States, NEW ts, ts = <<>>
  PROVE  Chain(b, data, act, ts, pre, pre)
<1> DEFINE P == [k \in {0} |-> pre]
<1>1. P[0] = pre OBVIOUS
<1> HIDE DEF P
<1>2. Len(ts) = 0 /\ 0..0 = {0} /\ 1..0 = {} OBVIOUS
<1> QED BY <1>1, <1>2 DEF Chain

TopLoads(ts) == ts # <<>> /\ Loading(ts[Len(ts)])

(* One more task.                                                          *)
LEMMA ChainMore ==
  ASSUME NEW b, NEW data, NEW act, NEW I, NEW ts \in Seq(I), NEW pre, NEW mid, Chain(b, data, act, ts, pre, mid),
         NEW t, NEW post \in SUBSET States, Link(b, data, act, t, post, mid), Stands(t, TopLoads(ts))
  PROVE  Chain(b, data, act, Append(ts, t), pre, post)
<1> DEFINE n  == Len(ts)
           us == Append(ts, t)
<1>1. /\ n \in Nat /\ us[n + 1] = t /\ \A k \in 1..n : us[k] = ts[k]
  BY Appended
<1>2. Len(us) = n + 1
  <2>1. ts \in Seq(I \cup {t}) BY SeqGrows, I \subseteq I \cup {t}
  <2> QED BY <2>1
<1>3. PICK P : /\ P[0] = pre /\ P[n] = mid
               /\ \A k \in 0..n : P[k] \subseteq States
               /\ \A k \in 1..n : /\ Link(b, data, act, ts[k], P[k], P[k - 1])
                                  /\ Stands(ts[k], k > 1 /\ Loading(ts[k - 1]))
  BY DEF Chain
<1> DEFINE Q == [k \in 0..(n + 1) |-> IF k = n + 1 THEN post ELSE P[k]]
<1>4. Q[n + 1] = post /\ \A k \in 0..n : Q[k] = P[k]
  <2>1. n + 1 \in 0..(n + 1) /\ \A k \in 0..n : k \in 0..(n + 1) /\ k # n + 1 BY <1>1
  <2> QED BY <2>1
<1>5. ts = <<>> <=> n = 0 OBVIOUS
<1> HIDE DEF Q, n, us
<1>6. ASSUME NEW k \in 1..(n + 1)
      PROVE  /\ Link(b, data, act, us[k], Q[k], Q[k - 1])
             /\ Stands(us[k], k > 1 /\ Loading(us[k - 1]))
  <2>1. CASE k = n + 1
    <3>1. k - 1 = n /\ n \in 0..n /\ us[k] = t /\ Q[k] = post BY <1>1, <1>4, <2>1
    <3>2. Link(b, data, act, us[k], Q[k], Q[k - 1]) BY <1>3, <1>4, <3>1
    <3>3. (k > 1 /\ Loading(us[k - 1])) <=> TopLoads(ts)
      <4>1. CASE n = 0 BY <1>5, <2>1, <4>1 DEF TopLoads
      <4>2. CASE n # 0
        <5>1. n \in 1..n /\ k > 1 BY <1>1, <2>1, <4>2
        <5>2. us[k - 1] = ts[n] BY <1>1, <3>1, <5>1
        <5> QED BY <1>5, <4>2, <5>1, <5>2 DEF TopLoads, n
      <4> QED BY <4>1, <4>2
    <3> QED BY <3>1, <3>2, <3>3 DEF Stands
  <2>2. CASE k # n + 1
    <3>1. k \in 1..n /\ k \in 0..n /\ k - 1 \in 0..n BY <1>1, <2>2
    <3>2. us[k] = ts[k] /\ Q[k] = P[k] /\ Q[k - 1] = P[k - 1] BY <1>1, <1>4, <3>1
    <3>3. k > 1 => us[k - 1] = ts[k - 1]
      <4>1. k > 1 => k - 1 \in 1..n BY <1>1, <3>1
      <4> QED BY <1>1, <4>1
    <3> QED BY <1>3, <3>1, <3>2, <3>3 DEF Stands
  <2> QED BY <2>1, <2>2
<1>7. \A k \in 0..(n + 1) : Q[k] \subseteq States
  <2>1. \A k \in 0..(n + 1) : k = n + 1 \/ k \in 0..n BY <1>1
  <2> QED BY <1>3, <1>4, <2>1
<1>8. Q[0] = pre
  <2>1. 0 \in 0..n BY <1>1
  <2> QED BY <1>3, <1>4, <2>1
<1>9. Chain(b, data, act, us, pre, post) BY <1>2, <1>4, <1>6, <1>7, <1>8 DEF Chain
<1> QED BY <1>9 DEF us

(* The tasks but the last one.                                             *)
LEMMA ChainLess ==
  ASSUME NEW b, NEW data, NEW act, NEW I, NEW ts \in Seq(I), ts # <<>>, NEW pre, NEW post,
         Chain(b, data, act, ts, pre, post)
  PROVE  LET t == ts[Len(ts)]
             us == SubSeq(ts, 1, Len(ts) - 1)
         IN /\ \E mid \in SUBSET States : Chain(b, data, act, us, pre, mid) /\ Link(b, data, act, t, post, mid)
            /\ Stands(t, TopLoads(us)) /\ us \in Seq(I)
            /\ pre \subseteq States /\ post \subseteq States
<1> DEFINE n == Len(ts)
           us == SubSeq(ts, 1, n - 1)
<1>1. /\ us \in Seq(I) /\ Len(us) = n - 1 /\ n \in Nat \ {0}
      /\ \A k \in 1..(n - 1) : us[k] = ts[k]
  BY FrontOf
<1>2. PICK P : /\ P[0] = pre /\ P[n] = post
               /\ \A k \in 0..n : P[k] \subseteq States
               /\ \A k \in 1..n : /\ Link(b, data, act, ts[k], P[k], P[k - 1])
                                  /\ Stands(ts[k], k > 1 /\ Loading(ts[k - 1]))
  BY DEF Chain
<1> HIDE DEF n, us
<1>2a. us = <<>> <=> n - 1 = 0 BY <1>1
<1>3. n \in 1..n /\ 0 \in 0..n /\ n \in 0..n /\ n - 1 \in 0..n /\ n - 1 \in Nat
      /\ (\A k \in 1..(n - 1) : k \in 1..n /\ (k > 1 => k - 1 \in 1..(n - 1)))
      /\ \A k \in 0..(n - 1) : k \in 0..n
  BY <1>1
<1>4. Chain(b, data, act, us, pre, P[n - 1])
  <2>1. ASSUME NEW k \in 1..(n - 1)
        PROVE  /\ Link(b, data, act, us[k], P[k], P[k - 1])
               /\ Stands(us[k], k > 1 /\ Loading(us[k - 1]))
    <3>1. k \in 1..n /\ us[k] = ts[k] /\ (k > 1 => us[k - 1] = ts[k - 1]) BY <1>1, <1>3
    <3> QED BY <1>2, <3>1 DEF Stands
  <2> QED BY <1>1, <1>2, <1>3, <2>1 DEF Chain
<1>5. Stands(ts[n], TopLoads(us))
  <2>1. Stands(ts[n], n > 1 /\ Loading(ts[n - 1])) BY <1>2, <1>3
  <2>2. (n > 1 /\ Loading(ts[n - 1])) <=> TopLoads(us)
    <3>1. CASE n = 1 BY <1>2a, <3>1 DEF TopLoads
    <3>2. CASE n # 1
      <4>1. n > 1 /\ n - 1 \in 1..(n - 1) BY <1>1, <3>2
      <4>2. us[n - 1] = ts[n - 1] BY <1>1, <4>1
      <4> QED BY <1>1, <1>2a, <3>2, <4>1, <4>2 DEF TopLoads
    <3> QED BY <3>1, <3>2
  <2> QED BY <2>1, <2>2 DEF Stands
<1>6. Link(b, data, act, ts[n], post, P[n - 1]) BY <1>2, <1>3
<1>7. pre \subseteq States /\ post \subseteq States /\ P[n - 1] \in SUBSET States BY <1>2, <1>3
<1> QED BY <1>1, <1>4, <1>5, <1>6, <1>7 DEF us, n

(* What is promised still is when more is written.                         *)
LEMMA ChainStill ==
  ASSUME NEW b, NEW d, Extends(d, b), NEW data, NEW act, NEW ts, NEW pre, NEW post,
         Chain(b, data, act, ts, pre, post)
  PROVE  Chain(d, data, act, ts, pre, post)
<1>1. ASSUME NEW loc, NEW Q, Chosen(b, data, act, loc, Q) PROVE Chosen(d, data, act, loc, Q)
  BY <1>1, GoesStill DEF Chosen
<1>2. ASSUME NEW t, NEW Q, NEW R, Link(b, data, act, t, Q, R) PROVE Link(d, data, act, t, Q, R)
  <2>1. CASE BranchLink(b, data, act, t, Q, R) BY <1>1, <2>1 DEF BranchLink, Link
  <2>2. CASE CompareLink(b, data, act, t, Q, R) BY <1>1, <2>2 DEF CompareLink, Link
  <2>3. CASE HighLink(b, data, act, t, Q, R)
    <3>1. HighLink(d, data, act, t, Q, R) BY <1>1, <2>3 DEF HighLink
    <3> QED BY <3>1 DEF Link
  <2> QED BY <1>2, <2>1, <2>2, <2>3 DEF Link
<1>3. PICK P : /\ P[0] = pre /\ P[Len(ts)] = post
               /\ \A k \in 0..Len(ts) : P[k] \subseteq States
               /\ \A k \in 1..Len(ts) : /\ Link(b, data, act, ts[k], P[k], P[k - 1])
                                        /\ Stands(ts[k], k > 1 /\ Loading(ts[k - 1]))
  BY DEF Chain
<1>4. \A k \in 1..Len(ts) : Link(d, data, act, ts[k], P[k], P[k - 1]) BY <1>2, <1>3
<1> QED BY <1>3, <1>4 DEF Chain

-----------------------------------------------------------------------------
(* Promises of lists of tasks, one task more at a time.                    *)

Promise(b, data, act, ts, pre, post) == (\E I : ts \in Seq(I)) /\ Chain(b, data, act, ts, pre, post)

(* What is promised of code is promised of longer code.                    *)
LEMMA PromiseStill ==
  ASSUME NEW b, NEW d, Extends(d, b), NEW data, NEW act, NEW ts, NEW pre, NEW post,
         Promise(b, data, act, ts, pre, post)
  PROVE  Promise(d, data, act, ts, pre, post)
BY ChainStill DEF Promise

(* A task more, which then stands last.                                    *)
LEMMA PromiseMore ==
  ASSUME NEW b, NEW data, NEW act, NEW ts, NEW pre, NEW mid, Promise(b, data, act, ts, pre, mid),
         NEW t, NEW post \in SUBSET States, Link(b, data, act, t, post, mid), Stands(t, TopLoads(ts))
  PROVE  /\ Promise(b, data, act, Append(ts, t), pre, post)
         /\ TopLoads(Append(ts, t)) <=> Loading(t)
<1>1. PICK I : ts \in Seq(I) BY DEF Promise
<1>2. Chain(b, data, act, ts, pre, mid) BY DEF Promise
<1> DEFINE us == Append(ts, t)
<1>3. Chain(b, data, act, us, pre, post) BY <1>1, <1>2, ChainMore
<1>4. us \in Seq(I \cup {t}) /\ Len(ts) \in Nat /\ us[Len(ts) + 1] = t /\ Len(us) = Len(ts) + 1
  <2>1. ts \in Seq(I \cup {t}) BY <1>1, SeqGrows, I \subseteq I \cup {t}
  <2> QED BY <2>1
<1> HIDE DEF us
<1>5. us # <<>> /\ us[Len(us)] = t BY <1>4
<1>6. TopLoads(us) <=> Loading(t) BY <1>5 DEF TopLoads
<1> QED BY <1>3, <1>4, <1>6 DEF Promise, us

(* A list after a list with an element more.                               *)
LEMMA ListingOne ==
  ASSUME NEW ts, \E I : ts \in Seq(I), NEW a, NEW J, NEW us \in Seq(J)
  PROVE  ts \o (<<a>> \o us) = Append(ts, a) \o us /\ ts \o <<a>> = Append(ts, a)
<1>6. PICK I : ts \in Seq(I) OBVIOUS
<1> DEFINE K == I \cup J \cup {a}
<1>1. ts \in Seq(K) BY <1>6, SeqGrows, I \subseteq K
<1>2. us \in Seq(K) BY SeqGrows, J \subseteq K
<1>3. a \in K OBVIOUS
<1> HIDE DEF K
<1>4. ts \o <<a>> = Append(ts, a) BY <1>1, <1>3
<1>5. (ts \o <<a>>) \o us = ts \o (<<a>> \o us)
  <2> DEFINE one == <<a>>
  <2>1. one \in Seq(K) BY <1>3
  <2> HIDE DEF one
  <2>2. (ts \o one) \o us = ts \o (one \o us) BY <1>1, <1>2, <2>1, ConcatAssociative
  <2> QED BY <2>2 DEF one
<1> QED BY <1>4, <1>5

(* A list of four after a list.                                            *)
LEMMA ListingFour ==
  ASSUME NEW ts, \E I : ts \in Seq(I), NEW a, NEW b, NEW c, NEW d
  PROVE  ts \o (<<a>> \o <<b, c, d>>) = Append(Append(Append(Append(ts, a), b), c), d)
<1>6. PICK I : ts \in Seq(I) OBVIOUS
<1> DEFINE K == I \cup {a, b, c, d}
           t1 == Append(ts, a)
<1>1. ts \in Seq(K) BY <1>6, SeqGrows, I \subseteq K
<1>2. a \in K /\ b \in K /\ c \in K /\ d \in K OBVIOUS
<1> HIDE DEF K
<1>3. t1 \in Seq(K) /\ <<b, c, d>> \in Seq(K) BY <1>1, <1>2
<1>4. ts \o (<<a>> \o <<b, c, d>>) = t1 \o <<b, c, d>>
  <2> DEFINE us == <<b, c, d>>
  <2>1. us \in Seq(K) BY <1>3
  <2> HIDE DEF us
  <2>2. ts \o (<<a>> \o us) = Append(ts, a) \o us BY <2>1, ListingOne
  <2> QED BY <2>2 DEF us, t1
<1> HIDE DEF t1
<1>5. t1 \o <<b, c, d>> = Append(Append(Append(t1, b), c), d) BY <1>2, <1>3
<1> QED BY <1>4, <1>5 DEF t1

(* Lists put after lists, one task at a time.                              *)
LEMMA Listing ==
  ASSUME NEW ts, \E I : ts \in Seq(I)
  PROVE  /\ ts \o <<>> = ts
         /\ \A a : ts \o <<a>> = Append(ts, a)
         /\ \A a, b : ts \o <<a, b>> = Append(Append(ts, a), b)
         /\ \A a, b : ts \o (<<a>> \o <<b>>) = Append(Append(ts, a), b)
         /\ \A a, b, c : ts \o (<<a>> \o <<b, c>>) = Append(Append(Append(ts, a), b), c)
         /\ \A a, b, c, d : ts \o (<<a>> \o <<b, c, d>>) = Append(Append(Append(Append(ts, a), b), c), d)
         /\ \A a, J : \A us \in Seq(J) : ts \o (<<a>> \o us) = Append(ts, a) \o us
<1>1. PICK I : ts \in Seq(I) OBVIOUS
<1>2. ts \o <<>> = ts BY <1>1
<1>3. ASSUME NEW a, NEW J, NEW us \in Seq(J)
      PROVE  ts \o (<<a>> \o us) = Append(ts, a) \o us /\ ts \o <<a>> = Append(ts, a)
  BY ListingOne
<1>4. ASSUME NEW a, NEW b
      PROVE  /\ ts \o <<a, b>> = Append(Append(ts, a), b)
             /\ ts \o (<<a>> \o <<b>>) = Append(Append(ts, a), b)
  <2> DEFINE K == I \cup {a, b}
  <2>1. ts \in Seq(K) BY <1>1, SeqGrows, I \subseteq K
  <2>2. a \in K /\ b \in K OBVIOUS
  <2> HIDE DEF K
  <2> DEFINE t1 == Append(ts, a)
             t2 == Append(t1, b)
             t3 == ts \o <<a, b>>
  <2>3. t1 \in Seq(K) /\ <<b>> \in Seq(K) BY <2>1, <2>2
  <2>4. t2 = t3
    <3>1. Len(ts) \in Nat /\ Len(t1) = Len(ts) + 1 /\ Len(t2) = Len(ts) + 2 /\ Len(t3) = Len(ts) + 2
      BY <2>1, <2>2
    <3>2. t2 \in Seq(K) /\ t3 \in Seq(K) BY <2>1, <2>2
    <3>3. \A n \in 1..(Len(ts) + 2) : t2[n] = t3[n] BY <2>1, <2>2
    <3> HIDE DEF t1, t2, t3
    <3> QED BY <3>1, <3>2, <3>3, SeqEqual
  <2>5. ts \o (<<a>> \o <<b>>) = t1 \o <<b>> BY <1>3, <2>3
  <2> HIDE DEF t1
  <2>6. t1 \o <<b>> = Append(t1, b) BY <2>2, <2>3, AppendIsConcat
  <2> QED BY <2>4, <2>5, <2>6 DEF t1
<1>5. ASSUME NEW a, NEW b, NEW c
      PROVE  ts \o (<<a>> \o <<b, c>>) = Append(Append(Append(ts, a), b), c)
  <2> DEFINE K == I \cup {a, b, c}
             t1 == Append(ts, a)
  <2>1. ts \in Seq(K) BY <1>1, SeqGrows, I \subseteq K
  <2>2. a \in K /\ b \in K /\ c \in K OBVIOUS
  <2> HIDE DEF K
  <2>3. t1 \in Seq(K) /\ <<b, c>> \in Seq(K) BY <2>1, <2>2
  <2>4. ts \o (<<a>> \o <<b, c>>) = t1 \o <<b, c>> BY <1>3, <2>3
  <2> HIDE DEF t1
  <2>5. t1 \o <<b, c>> = Append(Append(t1, b), c) BY <2>2, <2>3
  <2> QED BY <2>4, <2>5 DEF t1
<1>6. ASSUME NEW a, NEW b, NEW c, NEW d
      PROVE  ts \o (<<a>> \o <<b, c, d>>) = Append(Append(Append(Append(ts, a), b), c), d)
  BY ListingFour
<1>7. \A a : ts \o <<a>> = Append(ts, a)
  <2> SUFFICES ASSUME NEW a PROVE ts \o <<a>> = Append(ts, a) OBVIOUS
  <2> DEFINE J == {}
             us == <<>>
             One(us1) == ts \o (<<a>> \o us1) = Append(ts, a) \o us1 /\ ts \o <<a>> = Append(ts, a)
  <2>1. us \in Seq(J) OBVIOUS
  <2> HIDE DEF J, us
  <2>2. One(us) BY <1>3, <2>1
  <2> QED BY <2>2
<1>8. \A a, b : ts \o <<a, b>> = Append(Append(ts, a), b) BY <1>4
<1>12. \A a, b : ts \o (<<a>> \o <<b>>) = Append(Append(ts, a), b) BY <1>4
<1>9. \A a, b, c : ts \o (<<a>> \o <<b, c>>) = Append(Append(Append(ts, a), b), c) BY <1>5
<1>10. \A a, b, c, d : ts \o (<<a>> \o <<b, c, d>>) = Append(Append(Append(Append(ts, a), b), c), d)
  BY <1>6
<1>11. \A a, J : \A us \in Seq(J) : ts \o (<<a>> \o us) = Append(ts, a) \o us BY <1>3
<1> QED BY <1>2, <1>7, <1>8, <1>9, <1>10, <1>11, <1>12

(* A load more, and an instruction more.                                   *)
LEMMA LoadMore ==
  ASSUME NEW b, NEW data, NEW act, NEW ts, NEW pre, NEW mid, Promise(b, data, act, ts, pre, mid), TopLoads(ts),
         NEW post \in SUBSET States
  PROVE  /\ \A e \in TermsOf(data), word \in WordNames, sp \in Nat :
              /\ ~IsConst(e, word)
              /\ \A st \in mid : \A u : Loads(e, word, sp, data.regs, st, u) => u \in post
              => /\ Promise(b, data, act, Append(ts, LoadValue(e, word, sp)), pre, post)
                 /\ TopLoads(Append(ts, LoadValue(e, word, sp)))
         /\ \A x : (\A st \in mid : \E u \in post : Steps(x, st, data, u))
              => /\ Promise(b, data, act, Append(ts, Write(x)), pre, post)
                 /\ TopLoads(Append(ts, Write(x)))
<1>1. ASSUME NEW e \in TermsOf(data), NEW word \in WordNames, NEW sp \in Nat, ~IsConst(e, word),
             \A st \in mid : \A u : Loads(e, word, sp, data.regs, st, u) => u \in post
      PROVE  /\ Promise(b, data, act, Append(ts, LoadValue(e, word, sp)), pre, post)
             /\ TopLoads(Append(ts, LoadValue(e, word, sp)))
  <2> DEFINE t == LoadValue(e, word, sp)
  <2>1. t.task = "load" /\ t.expr = e /\ t.word = word /\ t.sp = sp BY DEF LoadValue
  <2> HIDE DEF t
  <2>2. Link(b, data, act, t, post, mid) BY <1>1, <2>1 DEF Link, LoadLink
  <2>3. Stands(t, TopLoads(ts)) /\ Loading(t) BY <2>1 DEF Stands, Loading
  <2>4. Promise(b, data, act, Append(ts, t), pre, post) /\ TopLoads(Append(ts, t))
    BY <2>2, <2>3, PromiseMore
  <2> QED BY <2>4 DEF t
<1>2. ASSUME NEW x, \A st \in mid : \E u \in post : Steps(x, st, data, u)
      PROVE  /\ Promise(b, data, act, Append(ts, Write(x)), pre, post)
             /\ TopLoads(Append(ts, Write(x)))
  <2> DEFINE t == Write(x)
  <2>1. t.task = "write" /\ t.instr = x BY DEF Write
  <2> HIDE DEF t
  <2>2. Link(b, data, act, t, post, mid) BY <1>2, <2>1 DEF Link, WriteLink
  <2>3. Stands(t, TopLoads(ts)) /\ Loading(t) BY <2>1 DEF Stands, Loading
  <2>4. Promise(b, data, act, Append(ts, t), pre, post) /\ TopLoads(Append(ts, t))
    BY <2>2, <2>3, PromiseMore
  <2> QED BY <2>4 DEF t
<1> QED BY <1>1, <1>2

(* What is kept twice is kept.                                             *)
LEMMA KeptMore ==
  ASSUME NEW st \in States, NEW u, NEW v, NEW h \in Nat, NEW k \in Nat, h <= k, Kept(st, u, h), Kept(u, v, k)
  PROVE  Kept(st, v, h)
<1> SUFFICES ASSUME NEW n \in DOMAIN st.m, n < h PROVE n \in DOMAIN v.m /\ v.m[n] = st.m[n] BY DEF Kept
<1>1. n \in Nat BY StateParts, SlotsKept
<1>2. n \in DOMAIN u.m /\ u.m[n] = st.m[n] BY DEF Kept
<1>3. n < k BY <1>1
<1> QED BY <1>2, <1>3 DEF Kept

-----------------------------------------------------------------------------
(* The operands of terms and comparisons, and how they are loaded.         *)

(* A known word is the word of the value.                                  *)
LEMMA KnownWord ==
  ASSUME NEW data, Call(data), NEW word \in WordNames, NEW q \in TermsOf(data), IsConst(q, word)
  PROVE  ValueOf(q, word) = WordOf(q, word, data.regs) /\ Const(q, word) = {WordOf(q, word, data.regs)}
<1> DEFINE v == WordOf(q, word, data.regs)
<1>1. Const(q, word) \subseteq {v} BY ConstRight DEF Call, TermsOf
<1> HIDE DEF v
<1>2. Const(q, word) = {v} BY <1>1 DEF IsConst
<1>3. (CHOOSE z \in {v} : TRUE) = v OBVIOUS
<1>4. ValueOf(q, word) = v BY <1>2, <1>3 DEF ValueOf
<1> QED BY <1>2, <1>4 DEF v

(* One of two operands that are not both known comes first.                *)
LEMMA OperandsAre ==
  ASSUME NEW x, NEW word, ~(IsConst(x.left, word) /\ IsConst(x.right, word))
  PROVE  LET p == Operands(x, word)[1]
             q == Operands(x, word)[2]
         IN /\ ~IsConst(p, word)
            /\ IsConst(x.left, word) => p = x.right /\ q = x.left
            /\ ~IsConst(x.left, word) => p = x.left /\ q = x.right
<1>1. CASE IsConst(x.left, word)
  <2>1. Operands(x, word) = <<x.right, x.left>> BY <1>1 DEF Operands
  <2> QED BY <1>1, <2>1
<1>2. CASE ~IsConst(x.left, word)
  <2>1. Operands(x, word) = <<x.left, x.right>> BY <1>2 DEF Operands
  <2> QED BY <1>2, <2>1
<1> QED BY <1>1, <1>2

(* A term whose word is not known.                                         *)
LEMMA UnknownTerm ==
  ASSUME NEW data, Call(data), NEW word \in WordNames, NEW e \in TermsOf(data), ~IsConst(e, word)
  PROVE  LET p == Operands(e, word)[1]
             q == Operands(e, word)[2]
             W(z) == WordOf(z, word, data.regs)
         IN \/ e.type = "VAR" /\ W(e) = Word(data.regs[e.var], word)
            \/ /\ e.type \in BitTypes /\ p \in TermsOf(data) /\ q \in TermsOf(data) /\ ~IsConst(p, word)
               /\ W(e) = Bits(e.type, W(p), W(q))
<1> DEFINE p == Operands(e, word)[1]
           q == Operands(e, word)[2]
           W(z) == WordOf(z, word, data.regs)
<1>1. /\ e \in Exprs
      /\ \/ e.type = "NUMBER" /\ e.number \in Registers64
         \/ e.type = "VAR"
         \/ e.type \in BitTypes /\ e.left \in TermsOf(data) /\ e.right \in TermsOf(data)
  BY TermsAre DEF TermSet, TermsOf
<1>2. CASE e.type = "NUMBER"
  <2>1. Const(e, word) = {Word(e.number, word)} BY <1>1, <1>2, ConstIs
  <2> QED BY <2>1 DEF IsConst
<1>3. CASE e.type = "VAR"
  <2>1. Value(e, data.regs) = data.regs[e.var] BY <1>1, <1>3, ValueIs
  <2> QED BY <1>3, <2>1 DEF WordOf
<1>4. CASE e.type \in BitTypes /\ e.left \in TermsOf(data) /\ e.right \in TermsOf(data)
  <2> DEFINE a == W(e.left)
             b == W(e.right)
  <2>1. \A z \in TermsOf(data) : /\ Value(z, data.regs) \in Registers64 /\ W(z) \in Words
                                 /\ Const(z, word) \subseteq {W(z)}
    BY ConstRight DEF Call, TermsOf
  <2>2. W(e) = Bits(e.type, a, b)
    <3>1. Value(e, data.regs) = Bits(e.type, Value(e.left, data.regs), Value(e.right, data.regs))
      BY <1>1, <1>4, ValueIs
    <3>2. Value(e.left, data.regs) \in Nat /\ Value(e.right, data.regs) \in Nat
      BY <1>4, <2>1, WordFacts DEF Registers64
    <3> QED BY <1>4, <3>1, <3>2, WordOfBitsIs DEF WordOf
  <2>3. a \in Words /\ b \in Words /\ a \in Nat /\ b \in Nat BY <1>4, <2>1, WordFacts DEF Words
  <2>4. Const(e.left, word) \subseteq {a} /\ Const(e.right, word) \subseteq {b} BY <1>4, <2>1
  <2>5. ~(IsConst(e.left, word) /\ IsConst(e.right, word))
    <3>1. Const(e, word) = Combined(e.type, Const(e.left, word), Const(e.right, word)) BY <1>1, <1>4, ConstIs
    <3> HIDE DEF a, b
    <3>2. Const(e.left, word) # {} /\ Const(e.right, word) # {} => Const(e, word) # {}
      BY <1>4, <2>3, <2>4, <3>1, CombinedIs
    <3> QED BY <3>2 DEF IsConst
  <2>6. /\ ~IsConst(p, word)
        /\ \/ p = e.left /\ q = e.right
           \/ p = e.right /\ q = e.left
    BY <2>5, OperandsAre
  <2>7. Bits(e.type, a, b) = Bits(e.type, b, a) BY <1>4, <2>3, BitsCommute
  <2> HIDE DEF p, q
  <2>8. W(e) = Bits(e.type, W(p), W(q)) BY <2>2, <2>6, <2>7
  <2> QED BY <1>4, <2>6, <2>8 DEF p, q
<1> QED BY <1>1, <1>2, <1>3, <1>4

(* Both operands are loaded, the right one to X.                           *)
LEMMA BothLoaded ==
  ASSUME NEW b, NEW data, NEW act, NEW ts, NEW pre, NEW mid, Promise(b, data, act, ts, pre, mid), TopLoads(ts),
         NEW p \in TermsOf(data), NEW q \in TermsOf(data), NEW word \in WordNames,
         ~IsConst(p, word), ~IsConst(q, word),
         NEW sp \in Nat, p.type # "VAR" => sp < BPF_MEMWORDS, mid \subseteq States, NEW post \in SUBSET States,
         \A st \in mid : \A u \in States :
           u.a = WordOf(p, word, data.regs) /\ u.x = WordOf(q, word, data.regs) /\ Kept(st, u, sp) => u \in post
  PROVE  LET us == ts \o LoadBoth(p, q, word, sp) IN Promise(b, data, act, us, pre, post) /\ TopLoads(us)
<1> DEFINE wp == WordOf(p, word, data.regs)
           wq == WordOf(q, word, data.regs)
           t1 == LoadValue(q, word, sp)
           Q1 == {u \in States : \E st \in mid : u.a = wq /\ Kept(st, u, sp)}
<1>1. Promise(b, data, act, Append(ts, t1), pre, Q1) /\ TopLoads(Append(ts, t1))
  <2>1. Q1 \in SUBSET States OBVIOUS
  <2>2. \A st \in mid : \A u : Loads(q, word, sp, data.regs, st, u) => u \in Q1 BY DEF Loads
  <2> HIDE DEF Q1, wq
  <2> QED BY <2>1, <2>2, LoadMore
<1>2. \A st \in States : \A u, v : Kept(st, u, sp) /\ Kept(u, v, sp) => Kept(st, v, sp)
  BY KeptMore
<1>3. CASE p.type = "VAR"
  <2> DEFINE t2 == Write(TAX)
             t3 == LoadValue(p, word, sp)
             Q2 == {u \in States : \E st \in mid : u.x = wq /\ Kept(st, u, sp)}
  <2>1. Promise(b, data, act, Append(Append(ts, t1), t2), pre, Q2) /\ TopLoads(Append(Append(ts, t1), t2))
    <3>1. Q2 \in SUBSET States OBVIOUS
    <3>2. ASSUME NEW u \in Q1 PROVE \E v \in Q2 : Steps(TAX, u, data, v)
      <4>1. u \in States /\ u.a = wq /\ \E st \in mid : Kept(st, u, sp) OBVIOUS
      <4> DEFINE v == State(u.a, u.a, u.m)
      <4>2. Steps(TAX, u, data, v) BY <4>1, InstructionDoes
      <4>3. v \in States /\ v.x = u.a /\ v.m = u.m BY <4>1, StateParts
      <4>4. v \in Q2
        <5> HIDE DEF v
        <5> QED BY <4>1, <4>3 DEF Kept
      <4> QED BY <4>2, <4>4
    <3> HIDE DEF Q1, Q2, t1, wq
    <3> QED BY <1>1, <3>1, <3>2, LoadMore
  <2>2. LET us == Append(Append(Append(ts, t1), t2), t3)
        IN Promise(b, data, act, us, pre, post) /\ TopLoads(us)
    <3>1. ASSUME NEW u \in Q2, NEW v, Loads(p, word, sp, data.regs, u, v) PROVE v \in post
      <4>1. u.x = wq /\ v \in States /\ v.a = wp /\ v.x = u.x /\ Kept(u, v, sp) BY <1>3, <3>1 DEF Loads
      <4>2. PICK st \in mid : Kept(st, u, sp) OBVIOUS
      <4>3. Kept(st, v, sp) BY <1>2, <4>1, <4>2
      <4> QED BY <4>1, <4>2, <4>3
    <3> HIDE DEF Q2, t1, t2, wp, wq
    <3> QED BY <2>1, <3>1, LoadMore
  <2>3. ts \o LoadBoth(p, q, word, sp) = Append(Append(Append(ts, t1), t2), t3)
    <3>1. \E I : ts \in Seq(I) BY DEF Promise
    <3>2. LoadBoth(p, q, word, sp) = <<t1>> \o <<t2, t3>> BY <1>3 DEF LoadBoth
    <3> HIDE DEF t1, t2, t3
    <3> QED BY <3>1, <3>2, Listing
  <2> QED BY <2>2, <2>3
<1>4. CASE p.type # "VAR"
  <2> DEFINE t2 == Write(Slot("ST", sp))
             t3 == LoadValue(p, word, sp + 1)
             t4 == Write(Slot("LDX", sp))
             Q2 == {u \in States : \E st \in mid : sp \in DOMAIN u.m /\ u.m[sp] = wq /\ Kept(st, u, sp)}
             Q3 == {u \in Q2 : u.a = wp}
  <2>0. sp < BPF_MEMWORDS BY <1>4
  <2>1. Promise(b, data, act, Append(Append(ts, t1), t2), pre, Q2) /\ TopLoads(Append(Append(ts, t1), t2))
    <3>1. Q2 \in SUBSET States OBVIOUS
    <3>2. ASSUME NEW u \in Q1 PROVE \E v \in Q2 : Steps(Slot("ST", sp), u, data, v)
      <4>1. u \in States /\ u.a = wq /\ u.m \in Slots /\ u.a \in Nat /\ u.x \in Nat BY StateParts
      <4>2. PICK st \in mid : Kept(st, u, sp) OBVIOUS
      <4> DEFINE m == Stored(u.m, sp, u.a)
                 v == State(u.a, u.x, m)
      <4>3. Steps(Slot("ST", sp), u, data, v) BY <2>0, <4>1, InstructionDoes
      <4>4. /\ m \in Slots /\ DOMAIN m = DOMAIN u.m \cup {sp} /\ m[sp] = u.a
            /\ \A n \in DOMAIN u.m : n # sp => m[n] = u.m[n]
        <5> DEFINE w == u.m
                   y == u.a
        <5>1. w \in Slots /\ y \in Nat BY <4>1
        <5> HIDE DEF w, y
        <5>2. /\ Stored(w, sp, y) \in Slots /\ DOMAIN Stored(w, sp, y) = DOMAIN w \cup {sp}
              /\ Stored(w, sp, y)[sp] = y
              /\ \A n \in DOMAIN w : n # sp => Stored(w, sp, y)[n] = w[n]
          BY <5>1, SlotStored
        <5> QED BY <5>2 DEF w, y
      <4> HIDE DEF m
      <4>5. v \in States /\ v.m = m BY <4>1, <4>4, StateParts
      <4>6. Kept(st, v, sp)
        <5> HIDE DEF v
        <5> SUFFICES ASSUME NEW n \in DOMAIN st.m, n < sp PROVE n \in DOMAIN v.m /\ v.m[n] = st.m[n] BY DEF Kept
        <5>1. n \in Nat /\ n # sp
          <6>1. st \in States OBVIOUS
          <6>2. n \in Nat BY <6>1, StateParts, SlotsKept
          <6> QED BY <6>2
        <5>2. n \in DOMAIN u.m /\ u.m[n] = st.m[n] BY <4>2 DEF Kept
        <5> QED BY <4>4, <4>5, <5>1, <5>2
      <4>7. v \in Q2
        <5> HIDE DEF v
        <5> QED BY <4>1, <4>4, <4>5, <4>6
      <4> QED BY <4>3, <4>7
    <3> HIDE DEF Q1, Q2, t1, wq
    <3> QED BY <1>1, <3>1, <3>2, LoadMore
  <2>2. LET us == Append(Append(Append(ts, t1), t2), t3)
        IN Promise(b, data, act, us, pre, Q3) /\ TopLoads(us)
    <3>1. ASSUME NEW u \in Q2, NEW v, Loads(p, word, sp + 1, data.regs, u, v) PROVE v \in Q3
      <4>1. v \in States /\ v.a = wp /\ Kept(u, v, sp + 1) BY <3>1 DEF Loads
      <4>2. PICK st \in mid : sp \in DOMAIN u.m /\ u.m[sp] = wq /\ Kept(st, u, sp) OBVIOUS
      <4>3. st \in States /\ sp <= sp + 1 /\ sp + 1 \in Nat /\ sp < sp + 1 OBVIOUS
      <4>4. Kept(st, v, sp) BY <4>1, <4>2, <4>3, KeptMore
      <4>5. sp \in DOMAIN v.m /\ v.m[sp] = wq BY <4>1, <4>2, <4>3 DEF Kept
      <4> QED BY <4>1, <4>2, <4>4, <4>5
    <3>2. sp + 1 \in Nat /\ Q3 \in SUBSET States OBVIOUS
    <3> HIDE DEF Q2, Q3, t1, t2, wp, wq
    <3> QED BY <2>1, <3>1, <3>2, LoadMore
  <2>3. LET us == Append(Append(Append(Append(ts, t1), t2), t3), t4)
        IN Promise(b, data, act, us, pre, post) /\ TopLoads(us)
    <3>1. ASSUME NEW u \in Q3 PROVE \E v \in post : Steps(Slot("LDX", sp), u, data, v)
      <4>1. u \in States /\ u.a = wp /\ sp \in DOMAIN u.m /\ u.m[sp] = wq OBVIOUS
      <4>2. PICK st \in mid : Kept(st, u, sp) OBVIOUS
      <4> DEFINE v == State(u.a, u.m[sp], u.m)
      <4>3. Steps(Slot("LDX", sp), u, data, v) BY <2>0, <4>1, InstructionDoes
      <4>4. u.a \in Nat /\ u.m \in Slots /\ u.m[sp] \in Nat BY <4>1, StateParts, SlotsKept
      <4>5. v \in States /\ v.a = u.a /\ v.x = u.m[sp] /\ v.m = u.m BY <4>4, StateParts
      <4>6. v \in post
        <5> HIDE DEF v
        <5>1. Kept(st, v, sp) BY <4>2, <4>5 DEF Kept
        <5> QED BY <4>1, <4>5, <5>1
      <4> QED BY <4>3, <4>6
    <3> HIDE DEF Q2, Q3, t1, t2, t3, wp, wq
    <3> QED BY <2>2, <3>1, LoadMore
  <2>4. ts \o LoadBoth(p, q, word, sp) = Append(Append(Append(Append(ts, t1), t2), t3), t4)
    <3>1. \E I : ts \in Seq(I) BY DEF Promise
    <3>2. LoadBoth(p, q, word, sp) = <<t1>> \o <<t2, t3, t4>> BY <1>4 DEF LoadBoth
    <3> HIDE DEF t1, t2, t3, t4
    <3>3. ts \o (<<t1>> \o <<t2, t3, t4>>) = Append(Append(Append(Append(ts, t1), t2), t3), t4)
      BY <3>1, ListingFour
    <3> QED BY <3>2, <3>3
  <2> QED BY <2>3, <2>4
<1> QED BY <1>3, <1>4

-----------------------------------------------------------------------------
(* What a jump on one word of a comparison does.                           *)

(* The comparison with the known operand on the right goes to the same     *)
(* target.                                                                 *)
LEMMA ComparisonMeans ==
  ASSUME NEW data, Call(data), NEW word \in WordNames, NEW type \in JumpTypes, NEW e, Operated(e, data),
         ~Decided(e, word), NEW tloc, NEW floc
  PROVE  LET y == Comparison(type, e, tloc, floc, word)
             W(z) == WordOf(z, word, data.regs)
         IN /\ y.left = Operands(e, word)[1] /\ y.right = Operands(e, word)[2]
            /\ y.left \in TermsOf(data) /\ y.right \in TermsOf(data) /\ ~IsConst(y.left, word)
            /\ y.type \in JumpTypes /\ y.tloc \in {tloc, floc} /\ y.floc \in {tloc, floc}
            /\ (IF Jumps(y.type, W(y.left), W(y.right)) THEN y.tloc ELSE y.floc)
               = (IF Jumps(type, W(e.left), W(e.right)) THEN tloc ELSE floc)
            /\ type = "JGT" => \/ y.type = "JGT" /\ y.tloc = tloc /\ y.floc = floc /\ ~IsConst(e.left, word)
                               \/ y.type = "JGE" /\ y.tloc = floc /\ y.floc = tloc /\ IsConst(e.left, word)
            /\ type = "JGE" => \/ y.type = "JGE" /\ ~IsConst(e.left, word)
                               \/ y.type = "JGT" /\ IsConst(e.left, word)
<1> DEFINE y == Comparison(type, e, tloc, floc, word)
           W(z) == WordOf(z, word, data.regs)
           l == W(e.left)
           r == W(e.right)
<1>1. ~(IsConst(e.left, word) /\ IsConst(e.right, word)) BY DEF Decided
<1>2. /\ y.left = Operands(e, word)[1] /\ y.right = Operands(e, word)[2]
  BY DEF Comparison
<1>3. e.left \in TermsOf(data) /\ e.right \in TermsOf(data) BY DEF Operated
<1>4. /\ ~IsConst(y.left, word)
      /\ IsConst(e.left, word) => y.left = e.right /\ y.right = e.left
      /\ ~IsConst(e.left, word) => y.left = e.left /\ y.right = e.right
  BY <1>1, <1>2, OperandsAre
<1>5. l \in Nat /\ r \in Nat
  <2>1. \A z \in TermsOf(data) : W(z) \in Words BY ConstRight DEF Call, TermsOf
  <2> QED BY <1>3, <2>1, WordFacts DEF Words
<1>6. CASE IsConst(e.left, word) /\ type \in {"JGT", "JGE"}
  <2>1. y.type = (IF type = "JGT" THEN "JGE" ELSE "JGT") /\ y.tloc = floc /\ y.floc = tloc
    BY <1>6 DEF Comparison
  <2>2. W(y.left) = r /\ W(y.right) = l BY <1>4, <1>6
  <2> HIDE DEF y, l, r, W
  <2>3. Jumps(y.type, r, l) <=> ~Jumps(type, l, r)
    <3>1. CASE type = "JGT" BY <1>5, <2>1, <3>1 DEF Jumps
    <3>2. CASE type = "JGE" BY <1>5, <2>1, <3>2 DEF Jumps
    <3> QED BY <1>6, <3>1, <3>2
  <2>4. (IF Jumps(y.type, W(y.left), W(y.right)) THEN y.tloc ELSE y.floc)
        = (IF Jumps(type, l, r) THEN tloc ELSE floc)
    BY <2>1, <2>2, <2>3
  <2>5. y.type \in JumpTypes /\ y.tloc \in {tloc, floc} /\ y.floc \in {tloc, floc} BY <2>1 DEF JumpTypes
  <2> QED BY <1>2, <1>3, <1>4, <1>6, <2>1, <2>4, <2>5 DEF y, l, r, W
<1>7. CASE ~(IsConst(e.left, word) /\ type \in {"JGT", "JGE"})
  <2>1. y.type = type /\ y.tloc = tloc /\ y.floc = floc BY <1>7 DEF Comparison
  <2> HIDE DEF y
  <2>2. Jumps(type, W(y.left), W(y.right)) <=> Jumps(type, l, r)
    <3>1. CASE ~IsConst(e.left, word) BY <1>4, <3>1
    <3>2. CASE IsConst(e.left, word) /\ type = "JEQ"
      <4>1. W(y.left) = r /\ W(y.right) = l BY <1>4, <3>2
      <4> HIDE DEF l, r, W
      <4>2. Jumps(type, r, l) <=> Jumps(type, l, r) BY <3>2 DEF Jumps
      <4> QED BY <4>1, <4>2
    <3> QED BY <1>7, <3>1, <3>2 DEF JumpTypes
  <2>3. (IF Jumps(y.type, W(y.left), W(y.right)) THEN y.tloc ELSE y.floc)
        = (IF Jumps(type, l, r) THEN tloc ELSE floc)
    BY <2>1, <2>2
  <2>4. y.type \in JumpTypes /\ y.tloc \in {tloc, floc} /\ y.floc \in {tloc, floc} BY <2>1
  <2> HIDE DEF l, r, W
  <2> QED BY <1>2, <1>3, <1>4, <1>7, <2>1, <2>3, <2>4 DEF y, l, r, W
<1> QED BY <1>6, <1>7

(* So does the test of masked bits.                                        *)
LEMMA MaskedMeans ==
  ASSUME NEW data, Call(data), NEW word \in WordNames, NEW y, y.type \in JumpTypes,
         y.left \in TermsOf(data), y.right \in TermsOf(data), ~IsConst(y.left, word)
  PROVE  LET x == Masked(y, word)
             W(z) == WordOf(z, word, data.regs)
         IN \/ x = y
            \/ /\ x.type = "JSET" /\ y.type \in {"JEQ", "JGT"} /\ y.left.type = "BIT_AND"
               /\ IsConst(y.right, word) /\ W(y.right) = 0 /\ ValueOf(y.right, word) = 0
               /\ x.left = Operands(y.left, word)[1] /\ x.right = Operands(y.left, word)[2]
               /\ x.left \in TermsOf(data) /\ x.right \in TermsOf(data) /\ ~IsConst(x.left, word)
               /\ W(y.left) = BitAnd[W(x.left)][W(x.right)]
               /\ x.tloc \in {y.tloc, y.floc} /\ x.floc \in {y.tloc, y.floc}
               /\ y.type = "JGT" => x.tloc = y.tloc /\ x.floc = y.floc
               /\ (IF W(y.left) # 0 THEN x.tloc ELSE x.floc)
                  = (IF Jumps(y.type, W(y.left), W(y.right)) THEN y.tloc ELSE y.floc)
<1> DEFINE x == Masked(y, word)
           W(z) == WordOf(z, word, data.regs)
           m == /\ y.type \in {"JEQ", "JGT"} /\ y.left.type = "BIT_AND"
                /\ Const(y.right, word) = {0}
<1>1. CASE ~m BY <1>1 DEF Masked
<1>2. CASE m
  <2>1. x = [type  |-> "JSET",
             left  |-> Operands(y.left, word)[1],
             right |-> Operands(y.left, word)[2],
             tloc  |-> IF y.type = "JEQ" THEN y.floc ELSE y.tloc,
             floc  |-> IF y.type = "JEQ" THEN y.tloc ELSE y.floc]
    BY <1>2 DEF Masked
  <2> HIDE DEF x
  <2>2. /\ x.type = "JSET" /\ x.left = Operands(y.left, word)[1] /\ x.right = Operands(y.left, word)[2]
        /\ x.tloc = (IF y.type = "JEQ" THEN y.floc ELSE y.tloc)
        /\ x.floc = (IF y.type = "JEQ" THEN y.tloc ELSE y.floc)
    BY <2>1
  <2>3. IsConst(y.right, word) BY <1>2 DEF IsConst
  <2>4. W(y.right) = 0 /\ ValueOf(y.right, word) = 0
    <3>1. Const(y.right, word) = {W(y.right)} /\ ValueOf(y.right, word) = W(y.right) BY <2>3, KnownWord
    <3> QED BY <1>2, <3>1
  <2>5. /\ x.left \in TermsOf(data) /\ x.right \in TermsOf(data) /\ ~IsConst(x.left, word)
        /\ W(y.left) = BitAnd[W(x.left)][W(x.right)]
    <3>1. y.left.type = "BIT_AND" /\ y.left.type # "VAR" BY <1>2
    <3>2. /\ x.left \in TermsOf(data) /\ x.right \in TermsOf(data) /\ ~IsConst(x.left, word)
          /\ W(y.left) = Bits("BIT_AND", W(x.left), W(x.right))
      BY <2>2, <3>1, UnknownTerm
    <3> QED BY <3>2, BitsAre
  <2>6. W(y.left) \in Nat
    <3>1. W(y.left) \in Words BY ConstRight DEF Call, TermsOf
    <3> QED BY <3>1, WordFacts DEF Words
  <2> DEFINE a == W(y.left)
  <2>7. (IF a # 0 THEN x.tloc ELSE x.floc) = (IF Jumps(y.type, a, 0) THEN y.tloc ELSE y.floc)
    <3> HIDE DEF a, W
    <3>1. CASE y.type = "JEQ"
      <4>1. Jumps("JEQ", a, 0) <=> a = 0 BY DEF Jumps
      <4> QED BY <2>2, <3>1, <4>1
    <3>2. CASE y.type = "JGT"
      <4>1. Jumps("JGT", a, 0) <=> a # 0
        <5>1. Jumps("JGT", a, 0) <=> a > 0 BY DEF Jumps
        <5> QED BY <2>6, <5>1 DEF a
      <4> QED BY <2>2, <3>2, <4>1
    <3> QED BY <1>2, <3>1, <3>2
  <2>8. x.tloc \in {y.tloc, y.floc} /\ x.floc \in {y.tloc, y.floc} BY <2>2
  <2>9. y.type = "JGT" => x.tloc = y.tloc /\ x.floc = y.floc BY <2>2
  <2> HIDE DEF W
  <2> QED BY <1>2, <2>2, <2>3, <2>4, <2>5, <2>7, <2>8, <2>9 DEF x, W
<1> QED BY <1>1, <1>2

(* The operands l and r of a jump have been loaded.                        *)
Ready(l, r, word, data, st) ==
  /\ st.a = WordOf(l, word, data.regs)
  /\ IF IsConst(r, word) THEN Indexed(l, word) => st.x = WordOf(Operands(l, word)[2], word, data.regs)
     ELSE st.x = WordOf(r, word, data.regs)

(* The jump tests what has been loaded for it, or for the comparison that  *)
(* it tests bits of.                                                       *)
LEMMA JumpTests ==
  ASSUME NEW data, Call(data), NEW word \in WordNames, NEW y, y.type \in JumpTypes,
         y.left \in TermsOf(data), y.right \in TermsOf(data), ~IsConst(y.left, word), NEW st,
         LET x == Masked(y, word)
         IN Ready(x.left, x.right, word, data, st) \/ Ready(y.left, y.right, word, data, st)
  PROVE  LET x == Masked(y, word)
             W(z) == WordOf(z, word, data.regs)
             right == IF IsConst(x.right, word) THEN ValueOf(x.right, word) ELSE st.x
         IN (IF Jumps(x.type, st.a, right) THEN x.tloc ELSE x.floc)
            = (IF Jumps(y.type, W(y.left), W(y.right)) THEN y.tloc ELSE y.floc)
<1> DEFINE x == Masked(y, word)
           W(z) == WordOf(z, word, data.regs)
           right == IF IsConst(x.right, word) THEN ValueOf(x.right, word) ELSE st.x
<1>1. CASE x = y
  <2>1. Ready(y.left, y.right, word, data, st) BY <1>1
  <2>2. st.a = W(y.left) BY <2>1 DEF Ready
  <2>3. right = W(y.right)
    <3>1. CASE IsConst(y.right, word) BY <1>1, <3>1, KnownWord
    <3>2. CASE ~IsConst(y.right, word) BY <1>1, <2>1, <3>2 DEF Ready
    <3> QED BY <3>1, <3>2
  <2> HIDE DEF x, right, W
  <2>4. (IF Jumps(x.type, st.a, right) THEN x.tloc ELSE x.floc)
        = (IF Jumps(y.type, W(y.left), W(y.right)) THEN y.tloc ELSE y.floc)
    BY <1>1, <2>2, <2>3
  <2> QED BY <2>4 DEF x, right, W
<1>2. CASE x # y
  <2>1. /\ x.type = "JSET" /\ y.type \in {"JEQ", "JGT"} /\ y.left.type = "BIT_AND"
        /\ IsConst(y.right, word)
        /\ x.left = Operands(y.left, word)[1] /\ x.right = Operands(y.left, word)[2]
        /\ x.left \in TermsOf(data) /\ x.right \in TermsOf(data)
        /\ W(y.left) = BitAnd[W(x.left)][W(x.right)]
        /\ (IF W(y.left) # 0 THEN x.tloc ELSE x.floc)
           = (IF Jumps(y.type, W(y.left), W(y.right)) THEN y.tloc ELSE y.floc)
    BY <1>2, MaskedMeans
  <2>2. st.a = W(x.left) \/ st.a = W(y.left) BY DEF Ready
  <2>3. right = W(x.right)
    <3>1. CASE IsConst(x.right, word) BY <2>1, <3>1, KnownWord
    <3>2. CASE ~IsConst(x.right, word)
      <4>1. Indexed(y.left, word) BY <2>1, <3>2 DEF Indexed, BitTypes
      <4>2. st.x = W(x.right) BY <2>1, <3>2, <4>1 DEF Ready
      <4> QED BY <3>2, <4>2
    <3> QED BY <3>1, <3>2
  <2>4. W(x.left) \in Nat /\ W(x.right) \in Nat
    <3>1. W(x.left) \in Words /\ W(x.right) \in Words BY <2>1, ConstRight DEF Call, TermsOf
    <3> QED BY <3>1, WordFacts DEF Words
  <2> DEFINE a == W(x.left)
             c == W(x.right)
  <2>5. BitAnd[st.a][c] = BitAnd[a][c]
    <3>1. BitAnd[BitAnd[a][c]][c] = BitAnd[a][c] BY <2>4, BitAndTwice
    <3> QED BY <2>1, <2>2, <3>1
  <2>6. Jumps("JSET", st.a, c) <=> BitAnd[st.a][c] # 0 BY DEF Jumps
  <2> DEFINE d == W(y.left)
             goal == IF Jumps(y.type, W(y.left), W(y.right)) THEN y.tloc ELSE y.floc
  <2>7. /\ x.type = "JSET" /\ right = c /\ d = BitAnd[a][c]
        /\ (IF d # 0 THEN x.tloc ELSE x.floc) = goal
    BY <2>1, <2>3
  <2> HIDE DEF x, right, a, c, d, goal
  <2>8. (IF Jumps(x.type, st.a, right) THEN x.tloc ELSE x.floc) = goal BY <2>5, <2>6, <2>7
  <2> QED BY <2>8 DEF x, right, goal
<1> QED BY <1>1, <1>2

-----------------------------------------------------------------------------
(* The memory slots that the code needs.                                   *)

IsCtx(c) == c = [buf |-> c.buf, basic |-> c.basic, cache |-> c.cache, stack |-> c.stack, missed |-> c.missed]

(* Returns and jumps need none.                                            *)
LEMMA ResolvedStack ==
  ASSUME NEW c, IsCtx(c), NEW loc
  PROVE  LET d == ResolveLocation(c, loc).c IN IsCtx(d) /\ d.stack = c.stack
<1> DEFINE r == ResolveLocation(c, loc)
           Same(d) == IsCtx(d) /\ d.stack = c.stack
<1>0. SUFFICES Same(r.c) OBVIOUS
<1>1. ASSUME NEW bs, NEW h, NEW x,
             r = Added([buf |-> c.buf, basic |-> bs, cache |-> h, stack |-> c.stack, missed |-> c.missed], x)
      PROVE  Same(r.c)
  <2> DEFINE d == [buf |-> c.buf, basic |-> bs, cache |-> h, stack |-> c.stack, missed |-> c.missed]
             f == Add(d, x)
  <2>1. f = [buf |-> Append(c.buf, x), basic |-> bs, cache |-> h, stack |-> c.stack, missed |-> c.missed]
    BY AddTo
  <2>2. r.c = f BY <1>1 DEF Added, At
  <2> HIDE DEF f, r
  <2>3. IsCtx(f) /\ f.stack = c.stack BY <2>1 DEF IsCtx
  <2> QED BY <2>2, <2>3
<1>2. ASSUME NEW k, r = At(c, k) PROVE Same(r.c)
  <2>1. r.c = c BY <1>2 DEF At
  <2> HIDE DEF r
  <2> QED BY <2>1
<1>3. ASSUME NEW v, NEW x, r = Added([c EXCEPT !.basic = v], x) \/ r = Added([c EXCEPT !.cache = v], x)
      PROVE  Same(r.c)
  <2>1. /\ [c EXCEPT !.basic = v]
           = [buf |-> c.buf, basic |-> v, cache |-> c.cache, stack |-> c.stack, missed |-> c.missed]
        /\ [c EXCEPT !.cache = v]
           = [buf |-> c.buf, basic |-> c.basic, cache |-> v, stack |-> c.stack, missed |-> c.missed]
    BY DEF IsCtx
  <2> HIDE DEF r
  <2> QED BY <1>1, <1>3, <2>1
<1>4. CASE ~(loc < 0)
  <2> DEFINE x == Ja(LocToJump(c, loc))
  <2>1. r = At(c, loc) \/ r = Added(c, x) BY <1>4 DEF ResolveLocation
  <2> HIDE DEF r, x
  <2> QED BY <1>1, <1>2, <2>1 DEF IsCtx
<1>5. CASE loc < 0
  <2> DEFINE a == -loc
  <2>1. r = ResolveAction(c, a) BY <1>5 DEF ResolveLocation
  <2> HIDE DEF a
  <2> DEFINE b == [c.basic EXCEPT ![a] = Len(c.buf)]
             h == Cached(c, a)
             g == [c.cache EXCEPT ![a] = Len(c.buf)]
             x == Ret(a)
  <2>2. [c EXCEPT !.basic[a] = Len(c.buf)] = [c EXCEPT !.basic = b]
    <3> DEFINE n == Len(c.buf)
    <3> HIDE DEF n
    <3>1. [c EXCEPT !.basic[a] = n] = [c EXCEPT !.basic = [c.basic EXCEPT ![a] = n]] BY DEF IsCtx
    <3> QED BY <3>1 DEF n
  <2>3. \/ r = At(c, c.basic[a]) \/ r = At(c, c.cache[a])
        \/ r = Added([c EXCEPT !.basic[a] = Len(c.buf)], x)
        \/ r = Added([c EXCEPT !.cache = h], x)
        \/ r = Added([c EXCEPT !.cache = g], x)
    BY <2>1 DEF ResolveAction, BasicAction, DataAction
  <2>4. CASE r = Added([c EXCEPT !.basic[a] = Len(c.buf)], x)
    <3>1. r = Added([c EXCEPT !.basic = b], x) BY <2>2, <2>4
    <3> HIDE DEF r, b, x
    <3> QED BY <1>3, <3>1
  <2> HIDE DEF r, b, h, g, x
  <2> QED BY <1>2, <1>3, <2>3, <2>4
<1> QED BY <1>4, <1>5

(* add_jump                                                                *)
LEMMA JumpStack ==
  ASSUME NEW c, IsCtx(c), NEW type, NEW src, NEW k, NEW tloc, NEW floc
  PROVE  AddJump(c, type, src, k, tloc, floc).c.stack = c.stack
<1> DEFINE r == AddJump(c, type, src, k, tloc, floc)
<1>1. CASE tloc = floc BY <1>1 DEF AddJump, At
<1>2. CASE tloc # floc
  <2> DEFINE t == ResolveLocation(c, tloc)
             f == ResolveLocation(t.c, floc)
             u == ResolveLocation(f.c, tloc)
             dt == LocToJump(u.c, u.loc)
             df == LocToJump(u.c, f.loc)
             x == Jump(type, src, k, Field(dt), Field(df))
             m == u.c.missed \/ dt > MAX_JUMP \/ df > MAX_JUMP
             w == [u.c EXCEPT !.missed = m]
  <2>1. r.c = Add(w, x)
    BY <1>2 DEF AddJump, ResolveAgain, JumpTo, WriteJump, Added, At
  <2>2. IsCtx(t.c) /\ t.c.stack = c.stack BY ResolvedStack
  <2> HIDE DEF x, m, r, dt, df, t
  <2>3. IsCtx(f.c) /\ f.c.stack = c.stack BY <2>2, ResolvedStack
  <2> HIDE DEF f
  <2>4. IsCtx(u.c) /\ u.c.stack = c.stack BY <2>3, ResolvedStack
  <2> HIDE DEF u
  <2> DEFINE d == u.c
  <2>5. w = [buf |-> d.buf, basic |-> d.basic, cache |-> d.cache, stack |-> d.stack, missed |-> m]
    BY <2>4 DEF IsCtx
  <2> HIDE DEF w
  <2>6. Add(w, x) = [buf |-> Append(d.buf, x), basic |-> d.basic, cache |-> d.cache, stack |-> d.stack, missed |-> m]
    BY <2>5, AddTo
  <2> DEFINE v == Add(w, x)
  <2>7. v.stack = d.stack
    <3> HIDE DEF v, d
    <3> QED BY <2>6 DEF v
  <2> QED BY <2>1, <2>4, <2>7 DEF r
<1> QED BY <1>1, <1>2

(* generate_cmp32                                                          *)
LEMMA WordJumpStack ==
  ASSUME NEW c, IsCtx(c), NEW type, NEW e, NEW tloc, NEW floc, NEW word
  PROVE  WordJump(c, type, e, tloc, floc, word).c.stack = c.stack
<1> DEFINE x == Masked(Comparison(type, e, tloc, floc, word), word)
           r == WordJump(c, type, e, tloc, floc, word)
           v == ValueOf(x.right, word)
           loc == IF Jumps(type, ValueOf(e.left, word), ValueOf(e.right, word)) THEN tloc ELSE floc
<1>1. \/ r = At(c, loc) \/ r = AddJumpK(c, x.type, v, x.tloc, x.floc)
      \/ r = AddJump(c, x.type, "X", 0, x.tloc, x.floc)
  BY DEF WordJump
<1> HIDE DEF x, r, v, loc
<1>2. \/ AddJumpK(c, x.type, v, x.tloc, x.floc) = At(c, x.tloc)
      \/ AddJumpK(c, x.type, v, x.tloc, x.floc) = At(c, x.floc)
      \/ AddJumpK(c, x.type, v, x.tloc, x.floc) = AddJump(c, x.type, "K", v, x.tloc, x.floc)
  BY DEF AddJumpK
<1>3. \A k : At(c, k).c.stack = c.stack BY DEF At
<1>4. r.c.stack = c.stack BY <1>1, <1>2, <1>3, JumpStack
<1> QED BY <1>4 DEF r

(* The jumps fit, and so do the memory slots.                              *)
Fits(c) == ~c.missed /\ c.stack < BPF_MEMWORDS

(* What fits has fitted.                                                   *)
LEMMA FittedBefore ==
  ASSUME WritingOK, GenerateExpr
  PROVE  /\ code'.stack \in Nat /\ code'.stack >= code.stack /\ code.stack \in Nat
         /\ Fits(code') => Fits(code)
<1>1. IsCtx(code) /\ code.stack \in Nat /\ CtxOK(code) BY DEF WritingOK, CtxOK, IsCtx
<1>2. SUFFICES code'.stack \in Nat /\ code'.stack >= code.stack
  <2>1. ~code'.missed => ~code.missed BY ExprAdds DEF Adds
  <2>2. code'.stack < BPF_MEMWORDS => code.stack < BPF_MEMWORDS BY <1>1, <1>2, CodegenConstants
  <2> QED BY <1>1, <1>2, <2>1, <2>2 DEF Fits
<1>3. \A x : Add(code, x).stack = code.stack
  <2> TAKE x
  <2> DEFINE d == Add(code, x)
  <2>1. d = [buf |-> Append(code.buf, x), basic |-> code.basic, cache |-> code.cache, stack |-> code.stack,
             missed |-> code.missed]
    BY <1>1, AddToCtx
  <2> HIDE DEF d
  <2> QED BY <2>1 DEF d
<1>4. CASE code'.stack = code.stack BY <1>1, <1>4
<1>5. CASE GenerateConnective \/ GenerateComparison
  <2>1. code' = code BY <1>5, BranchReplaced DEF Replace
  <2> QED BY <1>4, <2>1
<1>6. CASE CompareWord
  <2>1. code' = WordJump(code, Task.type, Task.expr, Tloc, Floc, Task.word).c BY <1>6 DEF CompareWord
  <2> QED BY <1>1, <1>4, <2>1, WordJumpStack
<1>7. CASE CompareHighWords
  <2> DEFINE e  == Task.expr
             ge == WordJump(code, "JGE", e, next, Floc, "HIGH")
             gt == WordJump(ge.c, "JGT", e, Tloc, ge.loc, "HIGH")
  <2>1. code' = gt.c /\ tasks # <<>> /\ Task.task = "high" BY <1>7 DEF CompareHighWords, Doing
  <2>2. ge.c.stack = code.stack BY <1>1, WordJumpStack
  <2>3. IsCtx(ge.c)
    <3>1. "JGE" \in JumpTypes BY DEF JumpTypes
    <3>2. Continues(code, ge, next, Floc) BY <1>1, <3>1, WordJumpAdded DEF WritingOK
    <3> HIDE DEF ge
    <3> QED BY <3>2 DEF Continues, CtxOK, IsCtx
  <2> HIDE DEF ge
  <2>4. gt.c.stack = ge.c.stack BY <2>3, WordJumpStack
  <2> QED BY <1>4, <2>1, <2>2, <2>4
<1>8. CASE LoadArgument BY <1>3, <1>4, <1>8 DEF LoadArgument
<1>9. CASE WriteInstruction BY <1>3, <1>4, <1>9 DEF WriteInstruction
<1>10. CASE ValueLoaded BY <1>4, <1>10 DEF ValueLoaded
<1>11. CASE LoadOperation
  <2> DEFINE e     == Task.expr
             left  == Operands(e, Task.word)[1]
             right == Operands(e, Task.word)[2]
             op       == IF e.type = "BIT_AND" THEN "AND" ELSE "OR"
             identity == IF e.type = "BIT_AND" THEN WORD_MAX ELSE 0
             K        == ValueOf(right, Task.word)
             raised   == IF left.type # "VAR" /\ Task.sp > code.stack THEN Task.sp ELSE code.stack
             x == Alu(op, "K", K)
             y == Alu(op, "X", 0)
  <2>1. \/ code' = code \/ code' = Add(code, x)
        \/ code' = Add([code EXCEPT !.stack = raised], y)
    BY <1>11 DEF LoadOperation
  <2>2. Task.sp \in Nat BY <1>11, TaskOn DEF LoadOperation, Doing, TaskOK, WritingOK
  <2>3. raised \in Nat /\ raised >= code.stack BY <1>1, <2>2
  <2> HIDE DEF x, y, raised
  <2> DEFINE d == Add([code EXCEPT !.stack = raised], y)
             c == [code EXCEPT !.stack = raised]
  <2>4. c = [buf |-> code.buf, basic |-> code.basic, cache |-> code.cache, stack |-> raised, missed |-> code.missed]
    BY <1>1 DEF IsCtx
  <2>5. d = [buf |-> Append(code.buf, y), basic |-> code.basic, cache |-> code.cache, stack |-> raised,
             missed |-> code.missed]
    <3> HIDE DEF c
    <3>1. Add(c, y) = [buf |-> Append(code.buf, y), basic |-> code.basic, cache |-> code.cache, stack |-> raised,
                       missed |-> code.missed]
      BY <2>4, AddTo
    <3> QED BY <3>1 DEF c
  <2>6. d.stack = raised
    <3> HIDE DEF d
    <3> QED BY <2>5
  <2> QED BY <1>3, <1>4, <2>1, <2>3, <2>6
<1> QED BY <1>5, <1>6, <1>7, <1>8, <1>9, <1>10, <1>11 DEF GenerateExpr

-----------------------------------------------------------------------------
(* generate_cmp32: where the jump leads.                                   *)

(* Places that are written are not HERE, and not newer than what is.       *)
LEMMA LocsBelow ==
  ASSUME NEW n \in Nat, NEW loc \in Locs(n)
  PROVE  loc \in Int /\ ~(loc > n - 1) /\ loc # HERE /\ (loc < 0 => -loc \in Actions)
<1>1. ACTION_TRACE \in Nat /\ Actions \subseteq 1..(2 * ACTION_TRACE - 1) /\ Actions \subseteq Nat \ {0}
  BY ActionRange
<1> DEFINE m == ACTION_TRACE
<1> HIDE DEF m
<1>2. HERE = -(16 * m) - 1 BY DEF HERE, NOWHERE, m
<1>3. CASE loc \in 0..(n - 1) BY <1>1, <1>2, <1>3 DEF m
<1>4. CASE \E a \in Actions : loc = -a
  <2>1. PICK a \in Actions : loc = -a BY <1>4
  <2>2. a \in Nat \ {0} /\ a <= 2 * m - 1 /\ m \in Nat BY <1>1 DEF m
  <2>3. -loc = a BY <2>1, <2>2
  <2> QED BY <1>2, <2>1, <2>2, <2>3
<1> QED BY <1>3, <1>4 DEF Locs

(* The operands of a jump, and where its comparison goes.                  *)
JumpOf(type, e, tloc, floc, word) == Masked(Comparison(type, e, tloc, floc, word), word)
Goal(type, e, tloc, floc, word, data) ==
  IF Jumps(type, WordOf(e.left, word, data.regs), WordOf(e.right, word, data.regs)) THEN tloc ELSE floc

(* What the jump tests, from the operands that it or its comparison has.   *)
LEMMA JumpOfMeans ==
  ASSUME NEW data, Call(data), NEW word \in WordNames, NEW type \in JumpTypes, NEW e, Operated(e, data),
         ~Decided(e, word), NEW tloc, NEW floc
  PROVE  LET y == Comparison(type, e, tloc, floc, word)
             x == JumpOf(type, e, tloc, floc, word)
             right(st) == IF IsConst(x.right, word) THEN ValueOf(x.right, word) ELSE st.x
             goal == Goal(type, e, tloc, floc, word, data)
         IN /\ x.type \in BranchTypes /\ ~IsConst(x.left, word)
            /\ x.left \in TermsOf(data) /\ x.right \in TermsOf(data)
            /\ x.tloc \in {tloc, floc} /\ x.floc \in {tloc, floc}
            /\ x.tloc = x.floc => tloc = floc
            /\ \A st : Ready(x.left, x.right, word, data, st) \/ Ready(y.left, y.right, word, data, st)
                       => (IF Jumps(x.type, st.a, right(st)) THEN x.tloc ELSE x.floc) = goal
            /\ type = "JGT" => IF x.type = "JGE" THEN x.tloc = floc ELSE x.floc = floc
<1> DEFINE y == Comparison(type, e, tloc, floc, word)
           x == JumpOf(type, e, tloc, floc, word)
           right(st) == IF IsConst(x.right, word) THEN ValueOf(x.right, word) ELSE st.x
           goal == Goal(type, e, tloc, floc, word, data)
           W(z) == WordOf(z, word, data.regs)
<1>1. /\ y.left \in TermsOf(data) /\ y.right \in TermsOf(data) /\ ~IsConst(y.left, word)
      /\ y.type \in JumpTypes /\ y.tloc \in {tloc, floc} /\ y.floc \in {tloc, floc}
      /\ (IF Jumps(y.type, W(y.left), W(y.right)) THEN y.tloc ELSE y.floc) = goal
      /\ type = "JGT" => \/ y.type = "JGT" /\ y.tloc = tloc /\ y.floc = floc
                         \/ y.type = "JGE" /\ y.tloc = floc /\ y.floc = tloc
  BY ComparisonMeans DEF Goal
<1>2. y.tloc = y.floc => tloc = floc
  <2>1. CASE IsConst(e.left, word) /\ type \in {"JGT", "JGE"} BY <2>1 DEF Comparison
  <2>2. CASE ~(IsConst(e.left, word) /\ type \in {"JGT", "JGE"}) BY <2>2 DEF Comparison
  <2> QED BY <2>1, <2>2
<1>3. x = Masked(y, word) BY DEF JumpOf
<1> HIDE DEF y, goal
<1>4. ASSUME NEW st, Ready(x.left, x.right, word, data, st) \/ Ready(y.left, y.right, word, data, st)
      PROVE  (IF Jumps(x.type, st.a, right(st)) THEN x.tloc ELSE x.floc) = goal
  <2> DEFINE z == Masked(y, word)
             rz == IF IsConst(z.right, word) THEN ValueOf(z.right, word) ELSE st.x
  <2>1. (IF Jumps(z.type, st.a, rz) THEN z.tloc ELSE z.floc)
        = (IF Jumps(y.type, W(y.left), W(y.right)) THEN y.tloc ELSE y.floc)
    <3>1. Ready(z.left, z.right, word, data, st) \/ Ready(y.left, y.right, word, data, st) BY <1>3, <1>4
    <3> QED BY <1>1, <3>1, JumpTests
  <2>2. rz = right(st) BY <1>3
  <2> HIDE DEF x, rz, right
  <2> QED BY <1>1, <1>3, <2>1, <2>2
<1>5. CASE x = y
  <2>1. y.type \in BranchTypes BY <1>1 DEF JumpTypes, BranchTypes
  <2> HIDE DEF x
  <2>2. type = "JGT" => IF x.type = "JGE" THEN x.tloc = floc ELSE x.floc = floc BY <1>1, <1>5
  <2> QED BY <1>1, <1>2, <1>4, <1>5, <2>1, <2>2 DEF x, goal, y
<1>6. CASE x # y
  <2>1. /\ x.type = "JSET" /\ y.type \in {"JEQ", "JGT"}
        /\ x.left \in TermsOf(data) /\ x.right \in TermsOf(data) /\ ~IsConst(x.left, word)
        /\ x.tloc \in {y.tloc, y.floc} /\ x.floc \in {y.tloc, y.floc}
        /\ y.type = "JGT" => x.tloc = y.tloc /\ x.floc = y.floc
    BY <1>1, <1>3, <1>6, MaskedMeans
  <2>2. x.tloc = x.floc => y.tloc = y.floc
    <3>1. x = [type  |-> "JSET",
               left  |-> Operands(y.left, word)[1],
               right |-> Operands(y.left, word)[2],
               tloc  |-> IF y.type = "JEQ" THEN y.floc ELSE y.tloc,
               floc  |-> IF y.type = "JEQ" THEN y.tloc ELSE y.floc]
      BY <1>3, <1>6 DEF Masked
    <3> HIDE DEF x
    <3>2. /\ x.tloc = (IF y.type = "JEQ" THEN y.floc ELSE y.tloc)
          /\ x.floc = (IF y.type = "JEQ" THEN y.tloc ELSE y.floc)
      BY <3>1
    <3> QED BY <3>2
  <2> HIDE DEF x
  <2>3. type = "JGT" => x.floc = floc /\ x.type # "JGE" BY <1>1, <2>1
  <2>4. x.type \in BranchTypes BY <2>1 DEF BranchTypes
  <2> QED BY <1>1, <1>2, <1>4, <2>1, <2>2, <2>3, <2>4 DEF x, goal, y
<1> QED BY <1>5, <1>6

(* The jump leads to the goal, whether it is needed or not.                *)
LEMMA WordJumpDoes ==
  ASSUME NEW data, Call(data), NEW word \in WordNames, NEW type \in JumpTypes, NEW e, Operated(e, data),
         NEW c, CtxOK(c), Rests(c.buf, 0), NEW tloc \in Locs(Len(c.buf)), NEW floc \in Locs(Len(c.buf))
  PROVE  LET r == WordJump(c, type, e, tloc, floc, word)
             y == Comparison(type, e, tloc, floc, word)
             x == JumpOf(type, e, tloc, floc, word)
             goal == Goal(type, e, tloc, floc, word, data)
         IN \/ /\ ~(r.loc > CurrentLoc(c)) /\ r.c = c /\ r.loc = goal
               /\ type = "JGT" /\ ~Decided(e, word) => r.loc = floc
            \/ /\ r.loc > CurrentLoc(c) /\ ~Decided(e, word) /\ r.loc = CurrentLoc(r.c)
               /\ Len(r.c.buf) \in Nat /\ Extends(r.c.buf, c.buf)
               /\ ~r.c.missed => \A st, act :
                    /\ Ready(x.left, x.right, word, data, st) \/ Ready(y.left, y.right, word, data, st)
                    /\ Goes(c.buf, data, goal, st, act)
                    => Goes(r.c.buf, data, r.loc, st, act)
<1> DEFINE r == WordJump(c, type, e, tloc, floc, word)
           y == Comparison(type, e, tloc, floc, word)
           x == JumpOf(type, e, tloc, floc, word)
           goal == Goal(type, e, tloc, floc, word, data)
           W(z) == WordOf(z, word, data.regs)
           Old == /\ ~(r.loc > CurrentLoc(c)) /\ r.c = c /\ r.loc = goal
                  /\ type = "JGT" /\ ~Decided(e, word) => r.loc = floc
           New == /\ r.loc > CurrentLoc(c) /\ ~Decided(e, word) /\ r.loc = CurrentLoc(r.c)
                  /\ Len(r.c.buf) \in Nat /\ Extends(r.c.buf, c.buf)
                  /\ ~r.c.missed => \A st, act :
                       /\ Ready(x.left, x.right, word, data, st) \/ Ready(y.left, y.right, word, data, st)
                       /\ Goes(c.buf, data, goal, st, act)
                       => Goes(r.c.buf, data, r.loc, st, act)
<1>1. Len(c.buf) \in Nat BY OneMore
<1>2. ASSUME NEW loc \in {tloc, floc}, r = At(c, loc), loc = goal,
             type = "JGT" /\ ~Decided(e, word) => loc = floc
      PROVE  Old
  <2>1. ~(loc > CurrentLoc(c)) BY <1>1, LocsBelow DEF CurrentLoc
  <2>2. r.c = c /\ r.loc = loc BY <1>2 DEF At
  <2> HIDE DEF r
  <2> QED BY <1>2, <2>1, <2>2
<1> SUFFICES Old \/ New OBVIOUS
<1>3. CASE Decided(e, word)
  <2>1. ValueOf(e.left, word) = W(e.left) /\ ValueOf(e.right, word) = W(e.right)
    BY <1>3, KnownWord DEF Decided, Operated
  <2>2. r = At(c, IF Jumps(type, ValueOf(e.left, word), ValueOf(e.right, word)) THEN tloc ELSE floc)
    BY <1>3 DEF WordJump
  <2>3. r = At(c, goal) BY <2>1, <2>2 DEF Goal
  <2>4. goal \in {tloc, floc} BY DEF Goal
  <2> HIDE DEF Old, New, goal, r
  <2> QED BY <1>2, <1>3, <2>3, <2>4
<1>4. CASE ~Decided(e, word)
  <2> DEFINE right(st) == IF IsConst(x.right, word) THEN ValueOf(x.right, word) ELSE st.x
  <2>1. /\ x.type \in BranchTypes /\ ~IsConst(x.left, word)
        /\ x.left \in TermsOf(data) /\ x.right \in TermsOf(data)
        /\ x.tloc \in {tloc, floc} /\ x.floc \in {tloc, floc}
        /\ x.tloc = x.floc => tloc = floc
        /\ \A st : Ready(x.left, x.right, word, data, st) \/ Ready(y.left, y.right, word, data, st)
                   => (IF Jumps(x.type, st.a, right(st)) THEN x.tloc ELSE x.floc) = goal
        /\ type = "JGT" => IF x.type = "JGE" THEN x.tloc = floc ELSE x.floc = floc
    BY <1>4, JumpOfMeans
  <2>1a. r = IF IsConst(x.right, word)
             THEN AddJumpK(c, x.type, ValueOf(x.right, word), x.tloc, x.floc)
             ELSE AddJump(c, x.type, "X", 0, x.tloc, x.floc)
    BY <1>4 DEF WordJump, JumpOf
  <2> HIDE DEF x, y, goal
  <2>2. \E st : Ready(x.left, x.right, word, data, st) /\ st.a \in Words
    <3> DEFINE u == IF IsConst(x.right, word) THEN W(Operands(x.left, word)[2]) ELSE W(x.right)
               st == [a |-> W(x.left), x |-> u]
    <3>1. st.a = W(x.left) /\ st.x = u OBVIOUS
    <3>2. W(x.left) \in Words BY <2>1, ConstRight DEF Call, TermsOf
    <3> HIDE DEF st
    <3>3. Ready(x.left, x.right, word, data, st) BY <3>1 DEF Ready
    <3> QED BY <3>1, <3>2, <3>3
  <2>3. PICK s : Ready(x.left, x.right, word, data, s) /\ s.a \in Words BY <2>2
  <2>4. (IF Jumps(x.type, s.a, right(s)) THEN x.tloc ELSE x.floc) = goal BY <2>1, <2>3
  <2>5. ASSUME NEW src \in {"K", "X"}, NEW k, r = AddJump(c, x.type, src, k, x.tloc, x.floc),
               IF src = "K" THEN IsConst(x.right, word) /\ k = ValueOf(x.right, word) ELSE ~IsConst(x.right, word)
        PROVE  Old \/ New
    <3>1. Branches(c, r, x.type, src, k, x.tloc, x.floc) BY <2>1, <2>5, JumpBranches
    <3>2. CASE x.tloc = x.floc
      <4>1. r = At(c, x.tloc) BY <2>5, <3>2 DEF AddJump
      <4>2. x.tloc = goal /\ x.tloc = floc BY <2>1, <2>4, <3>2
      <4> HIDE DEF r, Old, New
      <4> QED BY <1>2, <2>1, <4>1, <4>2
    <3>3. CASE x.tloc # x.floc
      <4> DEFINE n == Len(c.buf)
                 m == Len(r.c.buf)
      <4>1. r.loc = m - 1 /\ m > n /\ m \in Nat BY <3>1, <3>3 DEF Branches, Extends
      <4>2. r.loc > CurrentLoc(c) /\ r.loc = CurrentLoc(r.c)
        <5> HIDE DEF m, n, r
        <5>1. r.loc > n - 1 BY <1>1, <4>1 DEF n
        <5> QED BY <4>1, <5>1 DEF CurrentLoc, m, n
      <4> HIDE DEF r
      <4>3. ASSUME ~r.c.missed, NEW st, NEW act,
                   Ready(x.left, x.right, word, data, st) \/ Ready(y.left, y.right, word, data, st),
                   Goes(c.buf, data, goal, st, act)
            PROVE  Goes(r.c.buf, data, r.loc, st, act)
        <5>1. Right(src, k, st) = right(st)
          <6>1. CASE src = "K" BY <2>5, <6>1 DEF Right
          <6>2. CASE src # "K" BY <2>5, <6>2 DEF Right
          <6> QED BY <6>1, <6>2
        <5>2. (IF Jumps(x.type, st.a, right(st)) THEN x.tloc ELSE x.floc) = goal BY <2>1, <4>3
        <5> DEFINE v == Right(src, k, st)
        <5>3. (IF Jumps(x.type, st.a, v) THEN x.tloc ELSE x.floc) = goal BY <5>1, <5>2
        <5> HIDE DEF right
        <5>4. Goes(c.buf, data, IF Jumps(x.type, st.a, v) THEN x.tloc ELSE x.floc, st, act) BY <4>3, <5>3
        <5> QED BY <3>1, <4>3, <5>4 DEF Branches
      <4>4. Extends(r.c.buf, c.buf) BY <3>1 DEF Branches
      <4> QED BY <1>4, <4>1, <4>2, <4>3, <4>4
    <3> QED BY <3>2, <3>3
  <2>6. CASE ~IsConst(x.right, word)
    <3>1. r = AddJump(c, x.type, "X", 0, x.tloc, x.floc) BY <2>1a, <2>6
    <3> HIDE DEF r, Old, New
    <3> QED BY <2>5, <2>6, <3>1
  <2>7. CASE IsConst(x.right, word)
    <3> DEFINE k == ValueOf(x.right, word)
    <3>1. r = AddJumpK(c, x.type, k, x.tloc, x.floc) /\ right(s) = k BY <2>1a, <2>7
    <3>1a. IF Jumps(x.type, s.a, k) THEN x.tloc = goal ELSE x.floc = goal BY <2>4, <3>1
    <3>2. s.a \in Nat /\ s.a <= WORD_MAX /\ WORD_MAX \in Nat BY <2>3, WordFacts DEF Words
    <3> HIDE DEF r, Old, New, k
    <3>3. CASE x.type = "JGE" /\ k = 0
      <4>1. r = At(c, x.tloc) BY <3>1, <3>3 DEF AddJumpK
      <4>2. Jumps("JGE", s.a, 0) BY <3>2 DEF Jumps
      <4>3. x.tloc = goal BY <3>1a, <3>3, <4>2
      <4> QED BY <1>2, <2>1, <3>3, <4>1, <4>3
    <3>4. CASE x.type = "JGT" /\ k = WORD_MAX
      <4>1. r = At(c, x.floc) BY <3>1, <3>4 DEF AddJumpK
      <4>2. ~Jumps("JGT", s.a, WORD_MAX) BY <3>2 DEF Jumps
      <4>3. x.floc = goal BY <3>1a, <3>4, <4>2
      <4> QED BY <1>2, <2>1, <3>4, <4>1, <4>3
    <3>5. CASE x.type = "JSET" /\ k = 0
      <4>1. r = At(c, x.floc) BY <3>1, <3>5 DEF AddJumpK
      <4>2. ~Jumps("JSET", s.a, 0)
        <5>1. Bits("BIT_AND", s.a, 0) = 0 BY <2>3, WordOps DEF BitTypes, Clobber
        <5>2. BitAnd[s.a][0] = 0 BY <5>1, BitsAre
        <5> QED BY <5>2 DEF Jumps
      <4>3. x.floc = goal BY <3>1a, <3>5, <4>2
      <4> QED BY <1>2, <2>1, <3>5, <4>1, <4>3
    <3>6. CASE ~(x.type = "JGE" /\ k = 0) /\ ~(x.type = "JGT" /\ k = WORD_MAX) /\ ~(x.type = "JSET" /\ k = 0)
      <4>1. r = AddJump(c, x.type, "K", k, x.tloc, x.floc) BY <3>1, <3>6 DEF AddJumpK
      <4> QED BY <2>5, <2>7, <4>1 DEF k
    <3> QED BY <3>3, <3>4, <3>5, <3>6
  <2> QED BY <2>6, <2>7
<1> QED BY <1>3, <1>4

-----------------------------------------------------------------------------
(* Tasks that are put on top of others.                                    *)

(* A part of an expression more.                                           *)
LEMMA PartMore ==
  ASSUME NEW b, NEW data, NEW act, NEW ts, NEW pre, NEW mid, Promise(b, data, act, ts, pre, mid), ~TopLoads(ts),
         NEW post \in SUBSET States, NEW e, NEW tloc, NEW floc
  PROVE  /\ /\ e \in ConditionsOf(data)
            /\ mid # {} => Chosen(b, data, act, IF Holds(e, data.regs) THEN tloc ELSE floc, post)
            => LET us == Append(ts, Branch(e, tloc, floc)) IN Promise(b, data, act, us, pre, post) /\ ~TopLoads(us)
         /\ \A type : \A word \in WordNames :
            /\ Operated(e, data)
            /\ mid # {} => Chosen(b, data, act, Goal(type, e, tloc, floc, word, data), post)
            => LET us == Append(ts, Compare(type, e, tloc, floc, word))
               IN Promise(b, data, act, us, pre, post) /\ ~TopLoads(us)
         /\ /\ Operated(e, data)
            /\ mid # {} => LET l == WordOf(e.left, "HIGH", data.regs)
                               r == WordOf(e.right, "HIGH", data.regs)
                           IN /\ l > r => Chosen(b, data, act, tloc, post)
                              /\ l < r => Chosen(b, data, act, floc, post)
                              /\ l = r => post = States
            => LET us == Append(ts, CompareHigh(e, tloc, floc)) IN Promise(b, data, act, us, pre, post) /\ ~TopLoads(us)
<1>1. ASSUME NEW t, Link(b, data, act, t, post, mid), t.task \in {"branch", "compare", "high"}
      PROVE  Promise(b, data, act, Append(ts, t), pre, post) /\ ~TopLoads(Append(ts, t))
  <2>1. Stands(t, TopLoads(ts)) /\ ~Loading(t) BY <1>1 DEF Stands, Loading
  <2> QED BY <1>1, <2>1, PromiseMore
<1>2. ASSUME e \in ConditionsOf(data),
             mid # {} => Chosen(b, data, act, IF Holds(e, data.regs) THEN tloc ELSE floc, post)
      PROVE  LET us == Append(ts, Branch(e, tloc, floc)) IN Promise(b, data, act, us, pre, post) /\ ~TopLoads(us)
  <2> DEFINE t == Branch(e, tloc, floc)
  <2>1. t.task = "branch" /\ t.expr = e /\ t.tloc = tloc /\ t.floc = floc BY DEF Branch
  <2> HIDE DEF t
  <2>2. Link(b, data, act, t, post, mid) BY <1>2, <2>1 DEF Link, BranchLink
  <2>3. Promise(b, data, act, Append(ts, t), pre, post) /\ ~TopLoads(Append(ts, t)) BY <1>1, <2>1, <2>2
  <2> QED BY <2>3 DEF t
<1>3. ASSUME NEW type, NEW word \in WordNames, Operated(e, data),
             mid # {} => Chosen(b, data, act, Goal(type, e, tloc, floc, word, data), post)
      PROVE  LET us == Append(ts, Compare(type, e, tloc, floc, word))
             IN Promise(b, data, act, us, pre, post) /\ ~TopLoads(us)
  <2> DEFINE t == Compare(type, e, tloc, floc, word)
  <2>1. t.task = "compare" /\ t.type = type /\ t.expr = e /\ t.tloc = tloc /\ t.floc = floc /\ t.word = word
    BY DEF Compare
  <2> HIDE DEF t
  <2>2. CompareLink(b, data, act, t, post, mid) BY <1>3, <2>1 DEF CompareLink, LeftWord, RightWord, Goal
  <2>3. Promise(b, data, act, Append(ts, t), pre, post) /\ ~TopLoads(Append(ts, t)) BY <1>1, <2>1, <2>2 DEF Link
  <2> QED BY <2>3 DEF t
<1>4. ASSUME Operated(e, data),
             mid # {} => LET l == WordOf(e.left, "HIGH", data.regs)
                             r == WordOf(e.right, "HIGH", data.regs)
                         IN /\ l > r => Chosen(b, data, act, tloc, post)
                            /\ l < r => Chosen(b, data, act, floc, post)
                            /\ l = r => post = States
      PROVE  LET us == Append(ts, CompareHigh(e, tloc, floc)) IN Promise(b, data, act, us, pre, post) /\ ~TopLoads(us)
  <2> DEFINE t == CompareHigh(e, tloc, floc)
  <2>1. t.task = "high" /\ t.expr = e /\ t.tloc = tloc /\ t.floc = floc BY DEF CompareHigh
  <2> HIDE DEF t
  <2>2. HighLink(b, data, act, t, post, mid) BY <1>4, <2>1 DEF HighLink, LeftWord, RightWord
  <2>3. Promise(b, data, act, Append(ts, t), pre, post) /\ ~TopLoads(Append(ts, t)) BY <1>1, <2>1, <2>2 DEF Link
  <2> QED BY <2>3 DEF t
<1> QED BY <1>2, <1>3, <1>4

(* The operands of a jump do not depend on where it goes.                  *)
LEMMA SameOperands ==
  ASSUME NEW type, NEW e, NEW word, NEW t1, NEW f1, NEW t2, NEW f2
  PROVE  LET x == JumpOf(type, e, t1, f1, word)
             y == JumpOf(type, e, t2, f2, word)
         IN x.left = y.left /\ x.right = y.right
<1> DEFINE c == Comparison(type, e, t1, f1, word)
           d == Comparison(type, e, t2, f2, word)
<1>1. c.type = d.type /\ c.left = d.left /\ c.right = d.right BY DEF Comparison
<1> HIDE DEF c, d
<1> DEFINE m == /\ c.type \in {"JEQ", "JGT"} /\ c.left.type = "BIT_AND"
                /\ Const(c.right, word) = {0}
<1>2. CASE m
  <2>1. Masked(c, word).left = Operands(c.left, word)[1] /\ Masked(c, word).right = Operands(c.left, word)[2]
    BY <1>2 DEF Masked
  <2>2. Masked(d, word).left = Operands(c.left, word)[1] /\ Masked(d, word).right = Operands(c.left, word)[2]
    BY <1>1, <1>2 DEF Masked
  <2> QED BY <2>1, <2>2 DEF JumpOf, c, d
<1>3. CASE ~m
  <2>1. Masked(c, word) = c BY <1>3 DEF Masked
  <2>2. Masked(d, word) = d BY <1>1, <1>3 DEF Masked
  <2> QED BY <1>1, <2>1, <2>2 DEF JumpOf, c, d
<1> QED BY <1>2, <1>3

(* The loads of a jump make its operands ready.                            *)
LEMMA OperandsLoaded ==
  ASSUME NEW b, NEW data, Call(data), NEW act, NEW ts, NEW pre, NEW mid, Promise(b, data, act, ts, pre, mid),
         ~TopLoads(ts), mid \subseteq States, NEW word \in WordNames, NEW type \in JumpTypes,
         NEW e, Operated(e, data), ~Decided(e, word), NEW tloc, NEW floc, 0 < BPF_MEMWORDS, NEW post \in SUBSET States,
         LET x == JumpOf(type, e, tloc, floc, word)
         IN mid # {} => \A u \in States : Ready(x.left, x.right, word, data, u) => u \in post
  PROVE  LET us == ts \o OperandLoads(type, e, word) IN Promise(b, data, act, us, pre, post) /\ TopLoads(us)
<1> DEFINE x == JumpOf(type, e, tloc, floc, word)
           z == JumpOf(type, e, NOWHERE, NOWHERE, word)
           p == x.left
           q == x.right
           t1 == Append(ts, Newest)
<1>1. z.left = p /\ z.right = q BY SameOperands
<1>2. p \in TermsOf(data) /\ q \in TermsOf(data) /\ ~IsConst(p, word) BY JumpOfMeans
<1>3. OperandLoads(type, e, word) = IF IsConst(q, word) THEN <<Newest, LoadValue(p, word, 0)>>
                                    ELSE <<Newest>> \o LoadBoth(p, q, word, 0)
  BY <1>1 DEF OperandLoads, JumpOf
<1>4. mid # {} => \A u \in States : Ready(p, q, word, data, u) => u \in post OBVIOUS
<1>5. \E I : ts \in Seq(I) BY DEF Promise
<1>6. Promise(b, data, act, t1, pre, mid) /\ TopLoads(t1)
  <2>1. Newest.task = "newest" BY DEF Newest
  <2>2. Link(b, data, act, Newest, mid, mid) BY <2>1 DEF Link
  <2>3. Stands(Newest, TopLoads(ts)) /\ Loading(Newest) BY <2>1 DEF Stands, Loading
  <2> QED BY <2>2, <2>3, PromiseMore
<1> HIDE DEF x, z, p, q
<1>7. CASE IsConst(q, word)
  <2>1. ASSUME NEW st \in mid, NEW u, Loads(p, word, 0, data.regs, st, u) PROVE u \in post
    <3>1. Ready(p, q, word, data, u) BY <1>7, <2>1 DEF Ready, Loads
    <3> QED BY <1>4, <2>1, <3>1 DEF Loads
  <2> DEFINE us == Append(t1, LoadValue(p, word, 0))
  <2>2. 0 \in Nat OBVIOUS
  <2>3. Promise(b, data, act, us, pre, post) /\ TopLoads(us)
    <3> HIDE DEF t1
    <3> QED BY <1>2, <1>6, <2>1, <2>2, LoadMore
  <2>4. ts \o <<Newest, LoadValue(p, word, 0)>> = us BY <1>5, Listing
  <2> QED BY <1>3, <1>7, <2>3, <2>4
<1>8. CASE ~IsConst(q, word)
  <2>1. ASSUME NEW st \in mid, NEW u \in States, u.a = WordOf(p, word, data.regs), u.x = WordOf(q, word, data.regs)
        PROVE  u \in post
    <3>1. Ready(p, q, word, data, u) BY <1>8, <2>1 DEF Ready
    <3> QED BY <1>4, <3>1
  <2> DEFINE us == t1 \o LoadBoth(p, q, word, 0)
  <2>2. 0 \in Nat /\ (p.type # "VAR" => 0 < BPF_MEMWORDS) OBVIOUS
  <2>3. Promise(b, data, act, us, pre, post) /\ TopLoads(us)
    <3> HIDE DEF t1
    <3> QED BY <1>2, <1>6, <1>8, <2>1, <2>2, BothLoaded
  <2>4. ts \o (<<Newest>> \o LoadBoth(p, q, word, 0)) = us
    <3>1. TasksOK(LoadBoth(p, q, word, 0), 0) BY LoadTasks
    <3>2. PICK J : LoadBoth(p, q, word, 0) \in Seq(J) BY <3>1 DEF TasksOK
    <3> QED BY <1>5, <3>2, Listing
  <2> QED BY <1>3, <1>8, <2>3, <2>4
<1> QED BY <1>7, <1>8

(* When the two jumps on the high words are both needed, or GE alone is,   *)
(* what is loaded for GT is what GE compares.                              *)
LEMMA HighPair ==
  ASSUME NEW data, Call(data), NEW e, Operated(e, data), NEW c, CtxOK(c),
         NEW tloc \in Locs(Len(c.buf)), NEW floc \in Locs(Len(c.buf)), NEW t2, NEW f2,
         ~Decided(e, "HIGH"), WordJump(c, "JGE", e, tloc, floc, "HIGH").loc > CurrentLoc(c)
  PROVE  LET x == JumpOf("JGT", e, t2, f2, "HIGH")
             y == Comparison("JGE", e, tloc, floc, "HIGH")
         IN x.left = y.left /\ x.right = y.right
<1> DEFINE w == "HIGH"
           y == Comparison("JGE", e, tloc, floc, w)
           g == Comparison("JGT", e, t2, f2, w)
           x == JumpOf("JGT", e, t2, f2, w)
<1>1. y.left = g.left /\ y.right = g.right BY DEF Comparison
<1>2. g.type = IF IsConst(e.left, w) THEN "JGE" ELSE "JGT" BY DEF Comparison
<1>3. y.type = IF IsConst(e.left, w) THEN "JGT" ELSE "JGE" BY DEF Comparison
<1>4. y.tloc = IF IsConst(e.left, w) THEN floc ELSE tloc BY DEF Comparison
<1>5. x = Masked(g, w) BY DEF JumpOf
<1>6. WordJump(c, "JGE", e, tloc, floc, w)
      = IF IsConst(Masked(y, w).right, w)
        THEN AddJumpK(c, Masked(y, w).type, ValueOf(Masked(y, w).right, w), Masked(y, w).tloc, Masked(y, w).floc)
        ELSE AddJump(c, Masked(y, w).type, "X", 0, Masked(y, w).tloc, Masked(y, w).floc)
  BY DEF WordJump
<1> HIDE DEF y, g, x
<1>7. SUFFICES ASSUME x # g PROVE FALSE BY <1>1, <1>7 DEF x, y, g
<1>8. g.type = "JGT" /\ Const(g.right, w) = {0} BY <1>2, <1>5, <1>7 DEF Masked
<1>9. y.type = "JGE" /\ y.tloc = tloc BY <1>2, <1>3, <1>4, <1>8
<1>10. Masked(y, w) = y BY <1>9 DEF Masked
<1>11. IsConst(y.right, w) /\ ValueOf(y.right, w) = 0 BY <1>1, <1>8 DEF IsConst, ValueOf
<1>12. WordJump(c, "JGE", e, tloc, floc, w) = At(c, tloc) BY <1>6, <1>9, <1>10, <1>11 DEF AddJumpK
<1>13. WordJump(c, "JGE", e, tloc, floc, w).loc = tloc BY <1>12 DEF At
<1>14. Len(c.buf) \in Nat BY OneMore
<1>15. ~(tloc > CurrentLoc(c)) BY <1>14, LocsBelow DEF CurrentLoc
<1> QED BY <1>13, <1>15

-----------------------------------------------------------------------------
(* What a comparison means in terms of words.                              *)

(* Registers are compared by their words.                                  *)
LEMMA WordsCompare ==
  ASSUME NEW a \in Registers64, NEW b \in Registers64
  PROVE  LET ah == Word(a, "HIGH")
             al == Word(a, "LOW")
             bh == Word(b, "HIGH")
             bl == Word(b, "LOW")
         IN /\ ah \in Nat /\ al \in Nat /\ bh \in Nat /\ bl \in Nat
            /\ ah > bh => a > b
            /\ ah < bh => a < b
            /\ ah = bh => (a > b <=> al > bl) /\ (a >= b <=> al >= bl)
            /\ a = b <=> ah = bh /\ al = bl
<1> DEFINE h == a \div WORD
           l == a % WORD
           g == b \div WORD
           k == b % WORD
<1>1. Word(a, "HIGH") = h /\ Word(a, "LOW") = l /\ Word(b, "HIGH") = g /\ Word(b, "LOW") = k BY DEF Word
<1>2. a \in Nat /\ b \in Nat BY WordFacts DEF Registers64
<1>3. h \in Nat /\ l \in Words /\ a = h * WORD + l /\ g \in Nat /\ k \in Words /\ b = g * WORD + k
  BY <1>2, WordParts
<1>4. l \in 0..(WORD - 1) /\ k \in 0..(WORD - 1) /\ WORD \in Nat /\ WORD > 1 BY <1>3, WordFacts DEF Words
<1> HIDE DEF h, l, g, k
<1>5. ASSUME NEW m \in Nat, NEW n \in Nat, m > n, NEW x \in 0..(WORD - 1), NEW y \in 0..(WORD - 1)
      PROVE  m * WORD + x > n * WORD + y
  <2>1. (m - n) * WORD >= WORD BY <1>4, <1>5
  <2>2. m * WORD \in Nat /\ n * WORD \in Nat /\ (m - n) * WORD = m * WORD - n * WORD BY <1>4, <1>5
  <2> DEFINE mw == m * WORD
             nw == n * WORD
             dw == (m - n) * WORD
  <2>3. mw \in Nat /\ nw \in Nat /\ dw = mw - nw /\ dw >= WORD BY <2>1, <2>2
  <2> HIDE DEF mw, nw, dw
  <2>4. mw + x > nw + y BY <1>4, <2>3
  <2> QED BY <2>4 DEF mw, nw
<1>6. CASE h > g
  <2>1. a > b BY <1>3, <1>4, <1>5, <1>6
  <2> QED BY <1>1, <1>2, <1>3, <1>4, <1>6, <2>1
<1>7. CASE h < g
  <2>1. b > a BY <1>3, <1>4, <1>5, <1>7
  <2> QED BY <1>1, <1>2, <1>3, <1>4, <1>7, <2>1
<1>8. CASE h = g
  <2> DEFINE hw == h * WORD
  <2>1. hw \in Nat /\ a = hw + l /\ b = hw + k BY <1>3, <1>4, <1>8
  <2> HIDE DEF hw
  <2>2. (a > b <=> l > k) /\ (a >= b <=> l >= k) /\ (a = b <=> l = k) BY <1>4, <2>1
  <2> QED BY <1>1, <1>3, <1>4, <1>8, <2>2
<1> QED BY <1>3, <1>6, <1>7, <1>8

(* The comparisons that the code makes of a condition's words.             *)
TypeOf(e) == IF e.type = "EQ" THEN "JEQ" ELSE JumpType[e.type]

(* A comparison of registers by the words of its operands.                 *)
LEMMA HoldsByWords ==
  ASSUME NEW data, Call(data), NEW e \in ConditionsOf(data), e.type \in {"GT", "GE", "EQ"}
  PROVE  LET lh == WordOf(e.left, "HIGH", data.regs)
             rh == WordOf(e.right, "HIGH", data.regs)
             low == Jumps(TypeOf(e), WordOf(e.left, "LOW", data.regs), WordOf(e.right, "LOW", data.regs))
             h == Holds(e, data.regs)
         IN /\ Operated(e, data) /\ TypeOf(e) \in JumpTypes /\ lh \in Nat /\ rh \in Nat
            /\ ~Is64bit(e) => (h <=> low)
            /\ Is64bit(e) /\ e.type = "EQ" => (h <=> lh = rh /\ low)
            /\ Is64bit(e) /\ e.type # "EQ" => /\ lh > rh => h
                                              /\ lh < rh => ~h
                                              /\ lh = rh => (h <=> low)
<1> DEFINE a == Value(e.left, data.regs)
           b == Value(e.right, data.regs)
           al == Word(a, "LOW")
           bl == Word(b, "LOW")
           h == Holds(e, data.regs)
<1>1. e \in Exprs /\ e.left \in TermsOf(data) /\ e.right \in TermsOf(data) /\ e.type \in ComparisonTypes
  BY ConditionsAre DEF ConditionsOf, ConditionSet, TermsOf, ComparisonTypes
<1>2. a \in Registers64 /\ b \in Registers64 BY <1>1, TermFits DEF TermsOf, Call
<1>3. h <=> Compares(e.type, a % Width(e), b % Width(e)) BY <1>1, HoldsIs
<1>4. Is64bit(e) => a % Width(e) = a /\ b % Width(e) = b
  <2>1. ASSUME Is64bit(e) PROVE Seen(e, data.regs) BY <1>1, <2>1, NumbersSeen DEF TermsOf, Call
  <2> QED BY <2>1 DEF Seen
<1>5. ~Is64bit(e) => a % Width(e) = al /\ b % Width(e) = bl BY DEF Width, Word
<1>6. TypeOf(e) \in JumpTypes
  <2>1. JumpType["GT"] = "JGT" /\ JumpType["GE"] = "JGE" BY DEF JumpType
  <2> QED BY <2>1 DEF TypeOf, JumpTypes
<1>7. Operated(e, data) BY <1>1 DEF Operated
<1> HIDE DEF h
<1>8. \A x, y : Jumps(TypeOf(e), x, y) <=> Compares(e.type, x, y)
  <2> TAKE x, y
  <2>1. CASE e.type = "EQ"
    <3>1. TypeOf(e) = "JEQ" BY <2>1 DEF TypeOf
    <3>2. (Jumps("JEQ", x, y) <=> x = y) /\ (Compares("EQ", x, y) <=> x = y) BY DEF Jumps, Compares
    <3> QED BY <2>1, <3>1, <3>2
  <2>2. CASE e.type = "GT"
    <3>1. TypeOf(e) = "JGT" BY <2>2 DEF TypeOf, JumpType
    <3>2. Jumps("JGT", x, y) = (x > y) /\ Compares("GT", x, y) = (x > y) BY DEF Jumps, Compares
    <3> QED BY <2>2, <3>1, <3>2
  <2>3. CASE e.type = "GE"
    <3>1. TypeOf(e) = "JGE" BY <2>3 DEF TypeOf, JumpType
    <3>2. Jumps("JGE", x, y) = (x >= y) /\ Compares("GE", x, y) = (x >= y) BY DEF Jumps, Compares
    <3> QED BY <2>3, <3>1, <3>2
  <2> QED BY <2>1, <2>2, <2>3
<1> DEFINE ah == Word(a, "HIGH")
           bh == Word(b, "HIGH")
<1>9. /\ ah \in Nat /\ al \in Nat /\ bh \in Nat /\ bl \in Nat
      /\ ah > bh => a > b
      /\ ah < bh => a < b
      /\ ah = bh => (a > b <=> al > bl) /\ (a >= b <=> al >= bl)
      /\ a = b <=> ah = bh /\ al = bl
  BY <1>2, WordsCompare
<1>10. /\ WordOf(e.left, "HIGH", data.regs) = ah /\ WordOf(e.right, "HIGH", data.regs) = bh
       /\ WordOf(e.left, "LOW", data.regs) = al /\ WordOf(e.right, "LOW", data.regs) = bl
  BY DEF WordOf
<1>11. a \in Nat /\ b \in Nat BY <1>2, WordFacts DEF Registers64
<1> HIDE DEF a, b, ah, bh, al, bl
<1>12. ASSUME ~Is64bit(e) PROVE h <=> Jumps(TypeOf(e), al, bl) BY <1>3, <1>5, <1>8, <1>12
<1>13. ASSUME Is64bit(e) PROVE h <=> Compares(e.type, a, b) BY <1>3, <1>4, <1>13
<1>14. ASSUME Is64bit(e), e.type = "EQ" PROVE h <=> ah = bh /\ Jumps(TypeOf(e), al, bl)
  <2>1. (Compares("EQ", a, b) <=> a = b) /\ (Compares("EQ", al, bl) <=> al = bl) BY DEF Compares
  <2> QED BY <1>8, <1>9, <1>13, <1>14, <2>1
<1>15. ASSUME Is64bit(e), e.type # "EQ"
       PROVE  /\ ah > bh => h
              /\ ah < bh => ~h
              /\ ah = bh => (h <=> Jumps(TypeOf(e), al, bl))
  <2>1. CASE e.type = "GT"
    <3>1. (Compares("GT", a, b) <=> a > b) /\ (Compares("GT", al, bl) <=> al > bl) BY DEF Compares
    <3>2. (h <=> a > b) /\ (Jumps(TypeOf(e), al, bl) <=> al > bl) BY <1>8, <1>13, <1>15, <2>1, <3>1
    <3>3. a < b => ~(a > b) BY <1>11
    <3> QED BY <1>9, <3>2, <3>3
  <2>2. CASE e.type = "GE"
    <3>1. (Compares("GE", a, b) <=> a >= b) /\ (Compares("GE", al, bl) <=> al >= bl) BY DEF Compares
    <3>2. (h <=> a >= b) /\ (Jumps(TypeOf(e), al, bl) <=> al >= bl) BY <1>8, <1>13, <1>15, <2>2, <3>1
    <3>3. (a < b => ~(a >= b)) /\ (a > b => a >= b) BY <1>11
    <3> QED BY <1>9, <3>2, <3>3
  <2> QED BY <1>15, <2>1, <2>2
<1> QED BY <1>6, <1>7, <1>9, <1>10, <1>12, <1>14, <1>15 DEF h

(* LE, LT and NEQ are the negations of GT, GE and EQ.                      *)
LEMMA NegatedHolds ==
  ASSUME NEW data, Call(data), NEW e \in ConditionsOf(data), e.type \in DOMAIN Negated
  PROVE  LET f == [e EXCEPT !.type = Negated[@]]
         IN f \in ConditionsOf(data) /\ (Holds(f, data.regs) <=> ~Holds(e, data.regs))
<1> DEFINE t == Negated[e.type]
           f == [e EXCEPT !.type = Negated[@]]
<1>1. e.type \in {"LE", "LT", "NEQ"} BY DEF Negated
<1>2. /\ e.type = "LE" => t = "GT"
      /\ e.type = "LT" => t = "GE"
      /\ e.type = "NEQ" => t = "EQ"
  BY <1>1 DEF Negated
<1>3. /\ e \in Exprs /\ e.left \in Terms(DOMAIN data.regs, {}) /\ e.right \in Terms(DOMAIN data.regs, {})
      /\ e.type \in ComparisonTypes /\ e.type \in BinaryTypes
  BY <1>1, ConditionsAre DEF ConditionsOf, ConditionSet, ComparisonTypes, BinaryTypes
<1>4. t \in ComparisonTypes /\ t \in BinaryTypes BY <1>1, <1>2 DEF ComparisonTypes, BinaryTypes
<1>5. e = Binary(e.type, e.left, e.right)
  <2>1. Shape(e, Exprs) BY <1>3, Children
  <2> QED BY <1>3, <2>1 DEF Shape, BinaryTypes
<1>6. f = Binary(t, e.left, e.right)
  <2> HIDE DEF t
  <2>1. f = [e EXCEPT !.type = t] BY DEF t
  <2> HIDE DEF f
  <2>2. [e EXCEPT !.type = t] = Binary(t, e.left, e.right) BY <1>5 DEF Binary
  <2> QED BY <2>1, <2>2
<1> HIDE DEF t, f
<1>7. f.type = t /\ f.left = e.left /\ f.right = e.right BY <1>6 DEF Binary
<1>8. f \in Exprs
  <2> DEFINE D == MAX_EXPRESSION_DEPTH
  <2>1. D \in Nat BY ExpressionConstants
  <2>2. CASE D = 0
    <3>1. Shape(e, {}) BY <1>3, <2>2, ExprsToEquations, LeafShape DEF Exprs
    <3> QED BY <1>3, <3>1 DEF Shape, BinaryTypes
  <2>3. CASE D # 0
    <3>1. D - 1 \in Nat /\ (D - 1) + 1 = D BY <2>1, <2>3
    <3> HIDE DEF D
    <3>2. ExprsTo[D] = Over(ExprsTo[D - 1]) BY <3>1, ExprsToEquations
    <3>3. Shape(e, ExprsTo[D - 1]) BY <1>3, <3>2, OverShape DEF Exprs, D
    <3>4. e.left \in ExprsTo[D - 1] /\ e.right \in ExprsTo[D - 1] BY <1>3, <3>3 DEF Shape, BinaryTypes
    <3>5. f \in ExprsTo[D] BY <1>4, <1>6, <3>1, <3>4, TreeMade
    <3> QED BY <3>5 DEF Exprs, D
  <2> QED BY <2>2, <2>3
<1>9. f \in ConditionsOf(data) BY <1>3, <1>4, <1>7, <1>8, ConditionMade DEF ConditionsOf
<1>10. Is64bit(f) <=> Is64bit(e) BY <1>3, <1>4, <1>7, <1>8, Is64bitIs
<1> DEFINE a == Value(e.left, data.regs) % Width(e)
           b == Value(e.right, data.regs) % Width(e)
<1>11. (Holds(e, data.regs) <=> Compares(e.type, a, b)) /\ (Holds(f, data.regs) <=> Compares(t, a, b))
  <2>1. Width(f) = Width(e) BY <1>10 DEF Width
  <2>2. Holds(f, data.regs) <=> Compares(f.type, Value(f.left, data.regs) % Width(f), Value(f.right, data.regs) % Width(f))
    BY <1>4, <1>7, <1>8, HoldsIs
  <2> QED BY <1>3, <1>7, <2>1, <2>2, HoldsIs
<1>12. a \in Int /\ b \in Int
  <2>1. Width(e) \in Nat /\ Width(e) > 0 BY WordFacts DEF Width
  <2>2. \A k \in Registers64 : k \in Int BY WordFacts DEF Registers64
  <2>3. \A k \in Int, m \in Nat : m > 0 => k % m \in Int OBVIOUS
  <2>4. Value(e.left, data.regs) \in Registers64 /\ Value(e.right, data.regs) \in Registers64
    BY <1>3, TermFits DEF Call
  <2> QED BY <2>1, <2>2, <2>3, <2>4
<1> HIDE DEF a, b
<1>13. Compares(t, a, b) <=> ~Compares(e.type, a, b)
  <2>1. CASE e.type = "LE"
    <3>1. (Compares("LE", a, b) <=> a <= b) /\ (Compares("GT", a, b) <=> a > b) BY DEF Compares
    <3>2. a > b <=> ~(a <= b) BY <1>12
    <3> QED BY <1>2, <2>1, <3>1, <3>2
  <2>2. CASE e.type = "LT"
    <3>1. (Compares("LT", a, b) <=> a < b) /\ (Compares("GE", a, b) <=> a >= b) BY DEF Compares
    <3>2. a >= b <=> ~(a < b) BY <1>12
    <3> QED BY <1>2, <2>2, <3>1, <3>2
  <2>3. CASE e.type = "NEQ"
    <3>1. (Compares("NEQ", a, b) <=> a # b) /\ (Compares("EQ", a, b) <=> a = b) BY DEF Compares
    <3> QED BY <1>2, <2>3, <3>1
  <2> QED BY <1>1, <2>1, <2>2, <2>3
<1> QED BY <1>9, <1>11, <1>13 DEF f

-----------------------------------------------------------------------------
(* A step of the generator keeps the promise.                              *)

Place(c, ts, loc) == IF TopLoads(ts) THEN CurrentLoc(c) ELSE loc
Leads(b, data, act, loc) == \A st \in States : Goes(b, data, loc, st, act)

(* The code that the tasks ts still have to put in front of loc and that   *)
(* at loc leads a call from any state to the action.                       *)
OnCourse(c, ts, loc, data, act) ==
  /\ TopLoads(ts) => Len(c.buf) >= 1
  /\ \E post \in SUBSET States :
       /\ Promise(c.buf, data, act, ts, States, post)
       /\ \A st \in post : Goes(c.buf, data, Place(c, ts, loc), st, act)

(* What is promised for the task at hand and for those under it.           *)
AtHand(data, act, mid, post) ==
  /\ Promise(code.buf, data, act, Later, States, mid)
  /\ Link(code.buf, data, act, Task, post, mid)
  /\ Stands(Task, TopLoads(Later))
  /\ \A st \in post : Goes(code.buf, data, IF Loading(Task) THEN CurrentLoc(code) ELSE next, st, act)
  /\ Loading(Task) => Len(code.buf) >= 1

(* The task at hand is such a one.                                         *)
LEMMA TaskAtHand ==
  ASSUME NEW data, NEW act, OnCourse(code, tasks, next, data, act), tasks # <<>>
  PROVE  \E mid \in SUBSET States : \E post \in SUBSET States : AtHand(data, act, mid, post)
<1> DEFINE ts == tasks
           t  == ts[Len(ts)]
           us == SubSeq(ts, 1, Len(ts) - 1)
<1>1. t = Task /\ us = Later BY DEF Task, Later
<1>2. TopLoads(ts) <=> Loading(t) BY DEF TopLoads
<1>3. PICK post \in SUBSET States :
             /\ Promise(code.buf, data, act, ts, States, post)
             /\ \A st \in post : Goes(code.buf, data, Place(code, ts, next), st, act)
  BY DEF OnCourse
<1>4. PICK I : ts \in Seq(I) BY <1>3 DEF Promise
<1>5. Chain(code.buf, data, act, ts, States, post) BY <1>3 DEF Promise
<1>6. /\ \E mid \in SUBSET States : Chain(code.buf, data, act, us, States, mid) /\ Link(code.buf, data, act, t, post, mid)
      /\ Stands(t, TopLoads(us)) /\ us \in Seq(I)
  BY <1>4, <1>5, ChainLess
<1> HIDE DEF ts, t, us
<1>7. PICK mid \in SUBSET States : Chain(code.buf, data, act, us, States, mid) /\ Link(code.buf, data, act, t, post, mid)
  BY <1>6
<1>8. Promise(code.buf, data, act, us, States, mid) BY <1>6, <1>7 DEF Promise
<1>9. \A st \in post : Goes(code.buf, data, IF Loading(t) THEN CurrentLoc(code) ELSE next, st, act)
  BY <1>2, <1>3 DEF Place
<1>10. Loading(t) => Len(code.buf) >= 1 BY <1>2 DEF OnCourse, ts
<1>11. AtHand(data, act, mid, post) BY <1>1, <1>6, <1>7, <1>8, <1>9, <1>10 DEF AtHand
<1> QED BY <1>11

(* Where a part of an expression goes on.                                  *)
LEMMA TargetLeads ==
  ASSUME WritingOK, NEW data, NEW act, NEW post, tasks # <<>>, Task.task \in {"branch", "compare", "high"},
         \A st \in post : Goes(code.buf, data, IF Loading(Task) THEN CurrentLoc(code) ELSE next, st, act)
  PROVE  /\ ~Loading(Task)
         /\ Chosen(code.buf, data, act, Task.tloc, post) => Leads(code.buf, data, act, Tloc)
         /\ Chosen(code.buf, data, act, Task.floc, post) => Leads(code.buf, data, act, Floc)
         /\ Tloc # HERE /\ Floc # HERE
         /\ post = States => Leads(code.buf, data, act, next)
<1>1. ~Loading(Task) BY DEF Loading
<1>2. ASSUME NEW loc, Chosen(code.buf, data, act, loc, post) PROVE Leads(code.buf, data, act, Target(loc))
  <2>1. CASE loc = HERE BY <1>1, <1>2, <2>1 DEF Chosen, Leads, Target
  <2>2. CASE loc # HERE BY <1>2, <2>2 DEF Chosen, Leads, Target
  <2> QED BY <2>1, <2>2
<1>3. Tloc \in Locs(Len(code.buf)) /\ Floc \in Locs(Len(code.buf)) /\ Len(code.buf) \in Nat
  BY TargetsIn DEF WritingOK
<1>4. Tloc # HERE /\ Floc # HERE BY <1>3, LocsBelow
<1> QED BY <1>1, <1>2, <1>4 DEF Leads, Tloc, Floc

(* Nothing is written, and what has been put on the tasks ends elsewhere.  *)
LEMMA StaysOnCourse ==
  ASSUME NEW data, NEW act, NEW ts, NEW loc, Promise(code.buf, data, act, ts, States, {}), ~TopLoads(ts)
  PROVE  OnCourse(code, ts, loc, data, act)
<1>1. {} \in SUBSET States OBVIOUS
<1> QED BY <1>1 DEF OnCourse

(* AND, OR and NOT                                                         *)
LEMMA ConnectiveOnCourse ==
  ASSUME WritingOK, NEW data, Call(data), NEW act, OnCourse(code, tasks, next, data, act), GenerateConnective
  PROVE  OnCourse(code', tasks', next', data, act)
<1> DEFINE e == Task.expr
           R == data.regs
           b == code.buf
<1>1. tasks # <<>> /\ Task.task = "branch" BY DEF GenerateConnective, Doing
<1>2. PICK mid \in SUBSET States : \E post \in SUBSET States : AtHand(data, act, mid, post) BY <1>1, TaskAtHand
<1>3. PICK post \in SUBSET States : AtHand(data, act, mid, post) BY <1>2
<1>4. /\ Promise(b, data, act, Later, States, mid)
      /\ Link(b, data, act, Task, post, mid)
      /\ Stands(Task, TopLoads(Later))
  BY <1>3 DEF AtHand
<1>5. /\ Chosen(b, data, act, Task.tloc, post) => Leads(b, data, act, Tloc)
      /\ Chosen(b, data, act, Task.floc, post) => Leads(b, data, act, Floc)
      /\ Tloc # HERE /\ Floc # HERE
  BY <1>1, <1>3, TargetLeads DEF AtHand
<1>6. ~TopLoads(Later) BY <1>1, <1>4 DEF Stands
<1>7. e \in ConditionsOf(data) /\ (mid # {} => Chosen(b, data, act, IF Holds(e, R) THEN Task.tloc ELSE Task.floc, post))
  BY <1>1, <1>4 DEF Link, BranchLink, CompareLink, HighLink, LoadLink, WriteLink
<1>8. mid # {} => Leads(b, data, act, IF Holds(e, R) THEN Tloc ELSE Floc) BY <1>5, <1>7
<1>9. \E I : Later \in Seq(I) BY <1>4 DEF Promise
<1>10. ASSUME NEW loc, loc # HERE, NEW q PROVE Leads(b, data, act, loc) => Chosen(b, data, act, loc, q)
  BY <1>10 DEF Leads, Chosen
<1>11. {} \in SUBSET States /\ States \in SUBSET States OBVIOUS
<1>12. e \in Exprs BY <1>7, ConditionsAre DEF ConditionsOf, ConditionSet
<1> DEFINE l == e.left
           r == e.right
<1>13. ASSUME NEW t1, NEW f1, NEW m \in SUBSET States,
              l \in ConditionsOf(data), r \in ConditionsOf(data),
              mid # {} => Chosen(b, data, act, IF Holds(l, R) THEN t1 ELSE f1, m),
              m # {} => Leads(b, data, act, IF Holds(r, R) THEN Tloc ELSE Floc),
              code' = code, tasks' = Later \o <<Branch(l, t1, f1), Branch(r, Tloc, Floc)>>
       PROVE  OnCourse(code', tasks', next', data, act)
  <2> DEFINE us == Append(Later, Branch(l, t1, f1))
             vs == Append(us, Branch(r, Tloc, Floc))
  <2>1. Promise(b, data, act, us, States, m) /\ ~TopLoads(us) BY <1>4, <1>6, <1>13, PartMore
  <2>2. m # {} => Chosen(b, data, act, IF Holds(r, R) THEN Tloc ELSE Floc, {}) BY <1>5, <1>10, <1>13
  <2> HIDE DEF us
  <2>3. Promise(b, data, act, vs, States, {}) /\ ~TopLoads(vs) BY <1>11, <1>13, <2>1, <2>2, PartMore
  <2> HIDE DEF vs
  <2>4. tasks' = vs BY <1>9, <1>13, Listing DEF us, vs
  <2> QED BY <1>13, <2>3, <2>4, StaysOnCourse
<1>14. CASE e.type = "AND"
  <2> DEFINE m == IF mid # {} /\ Holds(l, R) THEN States ELSE {}
  <2>1. l \in ConditionsOf(data) /\ r \in ConditionsOf(data)
    BY <1>7, <1>14, ConditionsAre DEF ConditionsOf, ConditionSet, ComparisonTypes
  <2>2. Holds(e, R) <=> Holds(l, R) /\ Holds(r, R) BY <1>12, <1>14, HoldsIs
  <2>3. code' = code /\ tasks' = Later \o <<Branch(l, HERE, Floc), Branch(r, Tloc, Floc)>>
    BY <1>14 DEF GenerateConnective, Replace
  <2> HIDE DEF e, l, r, b, R
  <2>4. mid # {} => Chosen(b, data, act, IF Holds(l, R) THEN HERE ELSE Floc, m)
    <3>1. CASE Holds(l, R) BY <3>1 DEF Chosen
    <3>2. CASE ~Holds(l, R) BY <1>5, <1>8, <1>10, <2>2, <3>2
    <3> QED BY <3>1, <3>2
  <2>5. m # {} => Leads(b, data, act, IF Holds(r, R) THEN Tloc ELSE Floc) BY <1>8, <2>2
  <2>6. m \in SUBSET States OBVIOUS
  <2> HIDE DEF m
  <2> QED BY <1>13, <2>1, <2>3, <2>4, <2>5, <2>6
<1>15. CASE e.type = "OR"
  <2> DEFINE m == IF mid # {} /\ ~Holds(l, R) THEN States ELSE {}
  <2>1. l \in ConditionsOf(data) /\ r \in ConditionsOf(data)
    BY <1>7, <1>15, ConditionsAre DEF ConditionsOf, ConditionSet, ComparisonTypes
  <2>2. Holds(e, R) <=> Holds(l, R) \/ Holds(r, R) BY <1>12, <1>15, HoldsIs
  <2>3. code' = code /\ tasks' = Later \o <<Branch(l, Tloc, HERE), Branch(r, Tloc, Floc)>>
    BY <1>15 DEF GenerateConnective, Replace
  <2> HIDE DEF e, l, r, b, R
  <2>4. mid # {} => Chosen(b, data, act, IF Holds(l, R) THEN Tloc ELSE HERE, m)
    <3>1. CASE Holds(l, R) BY <1>5, <1>8, <1>10, <2>2, <3>1
    <3>2. CASE ~Holds(l, R) BY <3>2 DEF Chosen
    <3> QED BY <3>1, <3>2
  <2>5. m # {} => Leads(b, data, act, IF Holds(r, R) THEN Tloc ELSE Floc) BY <1>8, <2>2
  <2>6. m \in SUBSET States OBVIOUS
  <2> HIDE DEF m
  <2> QED BY <1>13, <2>1, <2>3, <2>4, <2>5, <2>6
<1>16. CASE e.type = "NOT"
  <2> DEFINE c == e.child
             us == Append(Later, Branch(c, Floc, Tloc))
  <2>1. c \in ConditionsOf(data)
    BY <1>7, <1>16, ConditionsAre DEF ConditionsOf, ConditionSet, ComparisonTypes
  <2>2. Holds(e, R) <=> ~Holds(c, R) BY <1>12, <1>16, HoldsIs
  <2>3. code' = code /\ tasks' = Later \o <<Branch(c, Floc, Tloc)>>
    BY <1>16 DEF GenerateConnective, Replace
  <2> HIDE DEF e, c, b, R
  <2>4. mid # {} => Chosen(b, data, act, IF Holds(c, R) THEN Floc ELSE Tloc, {}) BY <1>5, <1>8, <1>10, <2>2
  <2>5. Promise(b, data, act, us, States, {}) /\ ~TopLoads(us) BY <1>4, <1>6, <1>11, <2>1, <2>4, PartMore DEF R
  <2> HIDE DEF us
  <2>6. tasks' = us BY <1>9, <2>3, Listing DEF us
  <2> QED BY <2>3, <2>5, <2>6, StaysOnCourse DEF b
<1> QED BY <1>14, <1>15, <1>16 DEF GenerateConnective

(* The comparisons                                                         *)
LEMMA ComparisonOnCourse ==
  ASSUME WritingOK, NEW data, Call(data), NEW act, OnCourse(code, tasks, next, data, act), GenerateComparison
  PROVE  OnCourse(code', tasks', next', data, act)
<1> DEFINE e == Task.expr
           R == data.regs
           b == code.buf
           lh == WordOf(e.left, "HIGH", data.regs)
           rh == WordOf(e.right, "HIGH", data.regs)
           ll == WordOf(e.left, "LOW", data.regs)
           rl == WordOf(e.right, "LOW", data.regs)
           low == Jumps(TypeOf(e), ll, rl)
           h == Holds(e, R)
<1>1. tasks # <<>> /\ Task.task = "branch" BY DEF GenerateComparison, Doing
<1>2. PICK mid \in SUBSET States : \E post \in SUBSET States : AtHand(data, act, mid, post) BY <1>1, TaskAtHand
<1>3. PICK post \in SUBSET States : AtHand(data, act, mid, post) BY <1>2
<1>4. /\ Promise(b, data, act, Later, States, mid)
      /\ Link(b, data, act, Task, post, mid)
      /\ Stands(Task, TopLoads(Later))
  BY <1>3 DEF AtHand
<1>5. /\ Chosen(b, data, act, Task.tloc, post) => Leads(b, data, act, Tloc)
      /\ Chosen(b, data, act, Task.floc, post) => Leads(b, data, act, Floc)
      /\ Tloc # HERE /\ Floc # HERE
  BY <1>1, <1>3, TargetLeads DEF AtHand
<1>6. ~TopLoads(Later) BY <1>1, <1>4 DEF Stands
<1>7. e \in ConditionsOf(data) /\ (mid # {} => Chosen(b, data, act, IF h THEN Task.tloc ELSE Task.floc, post))
  BY <1>1, <1>4 DEF Link, BranchLink, CompareLink, HighLink, LoadLink, WriteLink
<1>8. mid # {} => Leads(b, data, act, IF h THEN Tloc ELSE Floc) BY <1>5, <1>7
<1>9. \E I : Later \in Seq(I) BY <1>4 DEF Promise
<1>10. ASSUME NEW loc, loc # HERE, NEW q PROVE Leads(b, data, act, loc) => Chosen(b, data, act, loc, q)
  BY <1>10 DEF Leads, Chosen
<1>11. {} \in SUBSET States /\ States \in SUBSET States /\ "LOW" \in WordNames /\ "HIGH" \in WordNames
  BY DEF WordNames
<1>12. CASE e.type \in DOMAIN Negated
  <2> DEFINE f == [e EXCEPT !.type = Negated[@]]
             us == Append(Later, Branch(f, Floc, Tloc))
  <2>1. f \in ConditionsOf(data) /\ (Holds(f, R) <=> ~h) BY <1>7, <1>12, NegatedHolds
  <2>2. code' = code /\ tasks' = Later \o <<Branch(f, Floc, Tloc)>>
    <3>1. e.type \notin {"GT", "GE"} /\ e.type # "EQ" BY <1>12 DEF Negated
    <3> QED BY <3>1 DEF GenerateComparison, Replace
  <2> HIDE DEF f, h, b
  <2>3. mid # {} => Chosen(b, data, act, IF Holds(f, R) THEN Floc ELSE Tloc, {}) BY <1>5, <1>8, <1>10, <2>1
  <2> HIDE DEF e
  <2>4. Promise(b, data, act, us, States, {}) /\ ~TopLoads(us) BY <1>4, <1>6, <1>11, <2>1, <2>3, PartMore
  <2> HIDE DEF us
  <2>5. tasks' = us BY <1>9, <2>2, Listing DEF us
  <2> QED BY <2>2, <2>4, <2>5, StaysOnCourse DEF b
<1>13. CASE e.type \in {"GT", "GE", "EQ"}
  <2> DEFINE type == TypeOf(e)
             w == Compare(type, e, Tloc, Floc, "LOW")
  <2>1. /\ Operated(e, data) /\ type \in JumpTypes /\ lh \in Nat /\ rh \in Nat
        /\ ~Is64bit(e) => (h <=> low)
        /\ Is64bit(e) /\ e.type = "EQ" => (h <=> lh = rh /\ low)
        /\ Is64bit(e) /\ e.type # "EQ" => /\ lh > rh => h
                                          /\ lh < rh => ~h
                                          /\ lh = rh => (h <=> low)
    BY <1>7, <1>13, HoldsByWords
  <2>2. Goal(type, e, Tloc, Floc, "LOW", data) = IF low THEN Tloc ELSE Floc BY DEF Goal
  <2>3. ASSUME NEW us, NEW m, Promise(b, data, act, us, States, m), ~TopLoads(us),
               m # {} => Leads(b, data, act, IF low THEN Tloc ELSE Floc)
        PROVE  Promise(b, data, act, Append(us, w), States, {}) /\ ~TopLoads(Append(us, w))
    <3>1. m # {} => Chosen(b, data, act, Goal(type, e, Tloc, Floc, "LOW", data), {}) BY <1>5, <1>10, <2>2, <2>3
    <3> HIDE DEF e, type
    <3> QED BY <1>11, <2>1, <2>3, <3>1, PartMore
  <2>4. code' = code BY <1>13 DEF GenerateComparison, Replace
  <2>5. CASE ~Is64bit(e)
    <3> DEFINE us == Append(Later, w)
    <3>1. tasks' = Later \o (<<>> \o <<w>>)
      <4>1. e.type \notin DOMAIN Negated BY <1>13 DEF Negated
      <4> QED BY <1>13, <2>5, <4>1 DEF GenerateComparison, Replace, TypeOf
    <3> HIDE DEF h, low, w, e
    <3>2. Promise(b, data, act, us, States, {}) /\ ~TopLoads(us) BY <1>4, <1>6, <1>8, <2>1, <2>3, <2>5
    <3>3. <<>> \o <<w>> = <<w>> OBVIOUS
    <3> HIDE DEF us
    <3>4. tasks' = us BY <1>9, <3>1, <3>3, Listing DEF us
    <3> QED BY <2>4, <3>2, <3>4, StaysOnCourse DEF b
  <2>6. ASSUME NEW v, NEW m \in SUBSET States, tasks' = Later \o (<<v>> \o <<w>>),
               Promise(b, data, act, Append(Later, v), States, m), ~TopLoads(Append(Later, v)),
               m # {} => Leads(b, data, act, IF low THEN Tloc ELSE Floc)
        PROVE  OnCourse(code', tasks', next', data, act)
    <3> DEFINE us == Append(Append(Later, v), w)
    <3> HIDE DEF w, low
    <3>1. Promise(b, data, act, us, States, {}) /\ ~TopLoads(us) BY <2>3, <2>6
    <3> HIDE DEF us
    <3>2. tasks' = us BY <1>9, <2>6, Listing DEF us
    <3> QED BY <2>4, <3>1, <3>2, StaysOnCourse
  <2>7. CASE Is64bit(e) /\ e.type = "EQ"
    <3> DEFINE v == Compare("JEQ", e, HERE, Floc, "HIGH")
               m == IF mid # {} /\ lh = rh THEN States ELSE {}
    <3>1. tasks' = Later \o (<<v>> \o <<w>>)
      <4>1. e.type \notin DOMAIN Negated /\ type = "JEQ" BY <2>7 DEF Negated, TypeOf
      <4> QED BY <2>7, <4>1 DEF GenerateComparison, Replace
    <3>2. Goal("JEQ", e, HERE, Floc, "HIGH", data) = IF lh = rh THEN HERE ELSE Floc BY DEF Goal, Jumps
    <3> HIDE DEF h, low, w, b
    <3>3. mid # {} => Chosen(b, data, act, Goal("JEQ", e, HERE, Floc, "HIGH", data), m)
      <4>1. CASE lh = rh
        <5> HIDE DEF lh, rh
        <5> QED BY <3>2, <4>1 DEF Chosen
      <4>2. CASE lh # rh
        <5> HIDE DEF lh, rh
        <5> QED BY <1>5, <1>8, <1>10, <2>1, <2>7, <3>2, <4>2
      <4> QED BY <4>1, <4>2
    <3>4. m \in SUBSET States OBVIOUS
    <3>5. m # {} => Leads(b, data, act, IF low THEN Tloc ELSE Floc)
      <4> HIDE DEF lh, rh
      <4> QED BY <1>8, <2>1, <2>7
    <3> HIDE DEF m
    <3>6. Promise(b, data, act, Append(Later, v), States, m) /\ ~TopLoads(Append(Later, v))
      <4> HIDE DEF e
      <4> QED BY <1>4, <1>6, <1>11, <2>1, <3>3, <3>4, PartMore
    <3> HIDE DEF v
    <3> QED BY <2>6, <3>1, <3>4, <3>5, <3>6 DEF b
  <2>8. CASE Is64bit(e) /\ e.type # "EQ"
    <3> DEFINE v == CompareHigh(e, Tloc, Floc)
               m == IF mid # {} /\ lh = rh THEN States ELSE {}
    <3>1. tasks' = Later \o (<<v>> \o <<w>>)
      <4>1. e.type \notin DOMAIN Negated /\ type = JumpType[e.type] BY <1>13, <2>8 DEF Negated, TypeOf
      <4> QED BY <1>13, <2>8, <4>1 DEF GenerateComparison, Replace
    <3> HIDE DEF h, low, w, b
    <3>2. mid # {} => /\ lh > rh => Chosen(b, data, act, Tloc, m)
                      /\ lh < rh => Chosen(b, data, act, Floc, m)
                      /\ lh = rh => m = States
      <4> HIDE DEF lh, rh, e
      <4> QED BY <1>5, <1>8, <1>10, <2>1, <2>8
    <3>3. m \in SUBSET States OBVIOUS
    <3>4. m # {} => Leads(b, data, act, IF low THEN Tloc ELSE Floc)
      <4> HIDE DEF lh, rh
      <4> QED BY <1>8, <2>1, <2>8
    <3> HIDE DEF m
    <3>5. Promise(b, data, act, Append(Later, v), States, m) /\ ~TopLoads(Append(Later, v))
      <4> HIDE DEF e
      <4> QED BY <1>4, <1>6, <2>1, <3>2, <3>3, PartMore DEF e
    <3> HIDE DEF v
    <3> QED BY <2>6, <3>1, <3>3, <3>4, <3>5 DEF b
  <2> QED BY <2>5, <2>7, <2>8
<1> QED BY <1>12, <1>13 DEF GenerateComparison

(* The jump on a word                                                      *)
LEMMA WordOnCourse ==
  ASSUME WritingOK, NEW data, Call(data), NEW act, OnCourse(code, tasks, next, data, act), CompareWord,
         Fits(code')
  PROVE  OnCourse(code', tasks', next', data, act)
<1> DEFINE e == Task.expr
           w == Task.word
           type == Task.type
           b == code.buf
           r == WordJump(code, type, e, Tloc, Floc, w)
           x == JumpOf(type, e, Tloc, Floc, w)
           goal == Goal(type, e, Tloc, Floc, w, data)
<1>1. tasks # <<>> /\ Task.task = "compare" BY DEF CompareWord, Doing
<1>2. PICK mid \in SUBSET States : \E post \in SUBSET States : AtHand(data, act, mid, post) BY <1>1, TaskAtHand
<1>3. PICK post \in SUBSET States : AtHand(data, act, mid, post) BY <1>2
<1>4. /\ Promise(b, data, act, Later, States, mid)
      /\ Link(b, data, act, Task, post, mid)
      /\ Stands(Task, TopLoads(Later))
  BY <1>3 DEF AtHand
<1>5. /\ Chosen(b, data, act, Task.tloc, post) => Leads(b, data, act, Tloc)
      /\ Chosen(b, data, act, Task.floc, post) => Leads(b, data, act, Floc)
  BY <1>1, <1>3, TargetLeads DEF AtHand
<1>6. ~TopLoads(Later) BY <1>1, <1>4 DEF Stands
<1>7. /\ Operated(e, data) /\ w \in WordNames
      /\ mid # {} => Chosen(b, data, act, Goal(type, e, Task.tloc, Task.floc, w, data), post)
  BY <1>1, <1>4 DEF Link, BranchLink, CompareLink, HighLink, LoadLink, WriteLink, Goal, LeftWord, RightWord
<1>8. mid # {} => Leads(b, data, act, goal) BY <1>5, <1>7 DEF Goal
<1>9. \E I : Later \in Seq(I) BY <1>4 DEF Promise
<1>10. code' = r.c /\ next' = r.loc
       /\ tasks' = Later \o (IF r.loc > CurrentLoc(code) THEN OperandLoads(type, e, w) ELSE <<>>)
  BY DEF CompareWord
<1>11. type \in JumpTypes BY <1>1, TaskOn DEF WritingOK, TaskOK
<1>12. Tloc \in Locs(Len(b)) /\ Floc \in Locs(Len(b)) BY <1>1, TargetsIn
<1>13. CtxOK(code) /\ Rests(b, 0) BY DEF WritingOK
<1> DEFINE y == Comparison(type, e, Tloc, Floc, w)
           Old == ~(r.loc > CurrentLoc(code)) /\ r.c = code /\ r.loc = goal
           New == /\ r.loc > CurrentLoc(code) /\ ~Decided(e, w) /\ r.loc = CurrentLoc(r.c)
                  /\ Len(r.c.buf) \in Nat /\ Extends(r.c.buf, b)
                  /\ ~r.c.missed => \A st, a :
                       /\ Ready(x.left, x.right, w, data, st) \/ Ready(y.left, y.right, w, data, st)
                       /\ Goes(b, data, goal, st, a)
                       => Goes(r.c.buf, data, r.loc, st, a)
<1>14. Old \/ New BY <1>7, <1>11, <1>12, <1>13, WordJumpDoes
<1> HIDE DEF r, goal, y
<1>15. CASE Old
  <2>1. tasks' = Later BY <1>9, <1>10, <1>15, Listing
  <2>2. code' = code /\ next' = goal BY <1>10, <1>15
  <2>3. \A st \in mid : Goes(b, data, Place(code, Later, goal), st, act) BY <1>6, <1>8 DEF Place, Leads
  <2>4. OnCourse(code, Later, goal, data, act) BY <1>4, <1>6, <2>3 DEF OnCourse
  <2> QED BY <2>1, <2>2, <2>4
<1>16. CASE New
  <2> DEFINE d == r.c.buf
             us == Later \o OperandLoads(type, e, w)
             q == {u \in States : mid # {} /\ Ready(x.left, x.right, w, data, u)}
  <2>1. tasks' = us BY <1>10, <1>16
  <2>2. ~r.c.missed /\ 0 < BPF_MEMWORDS
    <3>1. code'.stack \in Nat BY FittedBefore DEF GenerateExpr
    <3> QED BY <1>10, <3>1, CodegenConstants DEF Fits
  <2>3. Promise(d, data, act, Later, States, mid) BY <1>4, <1>16, ChainStill DEF Promise
  <2>4. q \in SUBSET States /\ (mid # {} => \A u \in States : Ready(x.left, x.right, w, data, u) => u \in q)
    OBVIOUS
  <2>5. \A u \in q : Goes(d, data, r.loc, u, act) BY <1>8, <1>16, <2>2 DEF Leads
  <2> HIDE DEF q, d
  <2>6. Promise(d, data, act, us, States, q) /\ TopLoads(us)
    <3> HIDE DEF e, w, type
    <3> QED BY <1>6, <1>7, <1>11, <1>16, <2>2, <2>3, <2>4, OperandsLoaded
  <2> HIDE DEF us
  <2>7. Len(d) >= 1
    <3>1. Len(b) \in Nat BY DEF WritingOK
    <3> QED BY <1>16, <3>1 DEF CurrentLoc, d
  <2>8. \A u \in q : Goes(d, data, Place(r.c, us, r.loc), u, act) BY <1>16, <2>5, <2>6 DEF Place
  <2>9. OnCourse(r.c, us, r.loc, data, act) BY <2>4, <2>6, <2>7, <2>8 DEF OnCourse, d
  <2> QED BY <1>10, <2>1, <2>9
<1> QED BY <1>14, <1>15, <1>16

(* The two jumps on the high words together.                               *)
HighGoal(e, tloc, floc, loc, data) ==
  LET l == WordOf(e.left, "HIGH", data.regs)
      r == WordOf(e.right, "HIGH", data.regs)
  IN IF l > r THEN tloc ELSE IF l < r THEN floc ELSE loc

(* The comparisons of the high words go where their words say.             *)
LEMMA HighJumpsDo ==
  ASSUME NEW data, Call(data), NEW e, Operated(e, data), NEW c, CtxOK(c), Rests(c.buf, 0),
         NEW tloc \in Locs(Len(c.buf)), NEW floc \in Locs(Len(c.buf)), NEW loc \in Locs(Len(c.buf))
  PROVE  LET ge == WordJump(c, "JGE", e, loc, floc, "HIGH")
             gt == WordJump(ge.c, "JGT", e, tloc, ge.loc, "HIGH")
             x  == JumpOf("JGT", e, tloc, ge.loc, "HIGH")
             goal == HighGoal(e, tloc, floc, loc, data)
             loaded == ge.loc > CurrentLoc(c) \/ gt.loc > CurrentLoc(ge.c)
         IN ~gt.c.missed => \/ ~loaded /\ gt.c = c /\ gt.loc = goal
                            \/ /\ loaded /\ ~Decided(e, "HIGH") /\ gt.loc = CurrentLoc(gt.c)
                               /\ Len(gt.c.buf) \in Nat /\ Len(gt.c.buf) >= 1 /\ Extends(gt.c.buf, c.buf)
                               /\ \A st, act :
                                    Ready(x.left, x.right, "HIGH", data, st) /\ Goes(c.buf, data, goal, st, act)
                                    => Goes(gt.c.buf, data, gt.loc, st, act)
<1> DEFINE w == "HIGH"
           ge == WordJump(c, "JGE", e, loc, floc, w)
           gt == WordJump(ge.c, "JGT", e, tloc, ge.loc, w)
           x  == JumpOf("JGT", e, tloc, ge.loc, w)
           y  == Comparison("JGE", e, loc, floc, w)
           l  == WordOf(e.left, w, data.regs)
           r  == WordOf(e.right, w, data.regs)
           goal  == HighGoal(e, tloc, floc, loc, data)
           goal1 == Goal("JGE", e, loc, floc, w, data)
           goal2 == Goal("JGT", e, tloc, ge.loc, w, data)
           Old1 == ~(ge.loc > CurrentLoc(c)) /\ ge.c = c /\ ge.loc = goal1
           New1 == /\ ge.loc > CurrentLoc(c) /\ ~Decided(e, w) /\ ge.loc = CurrentLoc(ge.c)
                   /\ Len(ge.c.buf) \in Nat /\ Extends(ge.c.buf, c.buf)
                   /\ ~ge.c.missed => \A st, act :
                        Ready(y.left, y.right, w, data, st) /\ Goes(c.buf, data, goal1, st, act)
                        => Goes(ge.c.buf, data, ge.loc, st, act)
           Old2 == /\ ~(gt.loc > CurrentLoc(ge.c)) /\ gt.c = ge.c /\ gt.loc = goal2
                   /\ ~Decided(e, w) => gt.loc = ge.loc
           New2 == /\ gt.loc > CurrentLoc(ge.c) /\ ~Decided(e, w) /\ gt.loc = CurrentLoc(gt.c)
                   /\ Len(gt.c.buf) \in Nat /\ Extends(gt.c.buf, ge.c.buf)
                   /\ ~gt.c.missed => \A st, act :
                        Ready(x.left, x.right, w, data, st) /\ Goes(ge.c.buf, data, goal2, st, act)
                        => Goes(gt.c.buf, data, gt.loc, st, act)
           loaded == ge.loc > CurrentLoc(c) \/ gt.loc > CurrentLoc(ge.c)
           New == /\ loaded /\ ~Decided(e, w) /\ gt.loc = CurrentLoc(gt.c)
                  /\ Len(gt.c.buf) \in Nat /\ Len(gt.c.buf) >= 1 /\ Extends(gt.c.buf, c.buf)
                  /\ \A st, act : Ready(x.left, x.right, w, data, st) /\ Goes(c.buf, data, goal, st, act)
                                  => Goes(gt.c.buf, data, gt.loc, st, act)
<1> SUFFICES ASSUME ~gt.c.missed PROVE (~loaded /\ gt.c = c /\ gt.loc = goal) \/ New OBVIOUS
<1>1. w \in WordNames /\ "JGE" \in JumpTypes /\ "JGT" \in JumpTypes BY DEF WordNames, JumpTypes
<1>2. Len(c.buf) \in Nat BY OneMore
<1>3. Continues(c, ge, loc, floc) BY <1>1, WordJumpAdded
<1>4. /\ CtxOK(ge.c) /\ Rests(ge.c.buf, 0) /\ Len(ge.c.buf) \in Nat
      /\ ge.loc \in Locs(Len(ge.c.buf)) /\ Locs(Len(c.buf)) \subseteq Locs(Len(ge.c.buf))
  BY <1>3, ContinuesIn DEF Continues
<1>5. Old1 \/ New1
  <2> DEFINE z == JumpOf("JGE", e, loc, floc, w)
             Both == ~ge.c.missed => \A st, act :
                       /\ Ready(z.left, z.right, w, data, st) \/ Ready(y.left, y.right, w, data, st)
                       /\ Goes(c.buf, data, goal1, st, act)
                       => Goes(ge.c.buf, data, ge.loc, st, act)
  <2>1. \/ Old1
        \/ /\ ge.loc > CurrentLoc(c) /\ ~Decided(e, w) /\ ge.loc = CurrentLoc(ge.c)
           /\ Len(ge.c.buf) \in Nat /\ Extends(ge.c.buf, c.buf) /\ Both
    BY <1>1, WordJumpDoes
  <2>2. Both => (~ge.c.missed => \A st, act :
                   Ready(y.left, y.right, w, data, st) /\ Goes(c.buf, data, goal1, st, act)
                   => Goes(ge.c.buf, data, ge.loc, st, act))
    <3> HIDE DEF ge, z, y, goal1
    <3> QED OBVIOUS
  <2> HIDE DEF Both, ge, y, goal1
  <2> QED BY <2>1, <2>2
<1> DEFINE d == ge.c
           g == ge.loc
<1> HIDE DEF ge
<1>6. Old2 \/ New2
  <2> DEFINE z == Comparison("JGT", e, tloc, g, w)
             Both == ~gt.c.missed => \A st, act :
                       /\ Ready(x.left, x.right, w, data, st) \/ Ready(z.left, z.right, w, data, st)
                       /\ Goes(d.buf, data, goal2, st, act)
                       => Goes(gt.c.buf, data, gt.loc, st, act)
  <2>1. \/ /\ ~(gt.loc > CurrentLoc(d)) /\ gt.c = d /\ gt.loc = goal2
           /\ ~Decided(e, w) => gt.loc = g
        \/ /\ gt.loc > CurrentLoc(d) /\ ~Decided(e, w) /\ gt.loc = CurrentLoc(gt.c)
           /\ Len(gt.c.buf) \in Nat /\ Extends(gt.c.buf, d.buf) /\ Both
    <3>1. tloc \in Locs(Len(d.buf)) BY <1>4
    <3> HIDE DEF d, g
    <3>2. CtxOK(d) /\ Rests(d.buf, 0) /\ g \in Locs(Len(d.buf)) BY <1>4 DEF d, g
    <3>3. LET k == WordJump(d, "JGT", e, tloc, g, w)
              v == Comparison("JGT", e, tloc, g, w)
              u == JumpOf("JGT", e, tloc, g, w)
              aim == Goal("JGT", e, tloc, g, w, data)
          IN \/ /\ ~(k.loc > CurrentLoc(d)) /\ k.c = d /\ k.loc = aim
                /\ "JGT" = "JGT" /\ ~Decided(e, w) => k.loc = g
             \/ /\ k.loc > CurrentLoc(d) /\ ~Decided(e, w) /\ k.loc = CurrentLoc(k.c)
                /\ Len(k.c.buf) \in Nat /\ Extends(k.c.buf, d.buf)
                /\ ~k.c.missed => \A st, act :
                     /\ Ready(u.left, u.right, w, data, st) \/ Ready(v.left, v.right, w, data, st)
                     /\ Goes(d.buf, data, aim, st, act)
                     => Goes(k.c.buf, data, k.loc, st, act)
      <4> HIDE DEF gt, x, goal2
      <4> QED BY <1>1, <3>1, <3>2, WordJumpDoes
    <3> QED BY <3>3 DEF d, g
  <2>2. Both => (~gt.c.missed => \A st, act :
                   Ready(x.left, x.right, w, data, st) /\ Goes(d.buf, data, goal2, st, act)
                   => Goes(gt.c.buf, data, gt.loc, st, act))
    <3> HIDE DEF gt, z, x, goal2
    <3> QED OBVIOUS
  <2> HIDE DEF Both, gt, x, goal2
  <2> QED BY <2>1, <2>2
<1>7. ~ge.c.missed
  <2>1. tloc \in Locs(Len(d.buf)) BY <1>4
  <2> HIDE DEF d, g
  <2>2. CtxOK(d) /\ Rests(d.buf, 0) /\ g \in Locs(Len(d.buf)) BY <1>4 DEF d, g
  <2>3. Adds(d, WordJump(d, "JGT", e, tloc, g, w).c) BY <1>1, <2>1, <2>2, WordJumpAdds
  <2>4. Adds(ge.c, gt.c) BY <2>3 DEF d, g
  <2> QED BY <2>4 DEF Adds
<1>8. l \in Nat /\ r \in Nat
  <2>1. l \in Words /\ r \in Words BY <1>1, ConstRight DEF Call, TermsOf, Operated
  <2> QED BY <2>1, WordFacts DEF Words
<1>9. /\ goal = IF l > r THEN tloc ELSE IF l < r THEN floc ELSE loc
      /\ goal1 = IF l >= r THEN loc ELSE floc
      /\ goal2 = IF l > r THEN tloc ELSE ge.loc
  <2>1. Jumps("JGE", l, r) = (l >= r) /\ Jumps("JGT", l, r) = (l > r) BY DEF Jumps
  <2> QED BY <2>1 DEF HighGoal, Goal
<1> HIDE DEF l, r, goal, goal1, goal2
<1>10. ~(l > r) => goal = goal1 /\ goal2 = ge.loc BY <1>8, <1>9
<1>11. l > r => goal = tloc /\ goal2 = tloc BY <1>9
<1>12. ASSUME New1 PROVE x.left = y.left /\ x.right = y.right
  <2>1. ge.loc > CurrentLoc(c) /\ ~Decided(e, w) BY <1>12
  <2> HIDE DEF New1, New2, Old1, Old2, New, x, y
  <2> HIDE DEF g
  <2>2. LET z == JumpOf("JGT", e, tloc, g, w) IN z.left = y.left /\ z.right = y.right
    BY <2>1, HighPair DEF ge, y
  <2> QED BY <2>2 DEF x, g
<1> HIDE DEF x, y, gt
<1>13. CASE Old1 /\ Old2
  <2>1. gt.c = c /\ ge.loc = goal1 /\ gt.loc = goal2 BY <1>13
  <2>2. goal2 = goal BY <1>9, <1>10, <2>1
  <2>3. ~loaded BY <1>13
  <2> QED BY <2>1, <2>2, <2>3
<1>14. CASE New1 /\ Old2
  <2>1. gt.c = ge.c /\ gt.loc = ge.loc /\ gt.loc = goal2 BY <1>14
  <2>2. ~(l > r)
    <3>1. ~(tloc > CurrentLoc(c)) BY <1>2, LocsBelow DEF CurrentLoc
    <3> QED BY <1>11, <1>14, <2>1, <3>1
  <2>3. ASSUME NEW st, NEW act, Ready(x.left, x.right, w, data, st), Goes(c.buf, data, goal, st, act)
        PROVE  Goes(gt.c.buf, data, gt.loc, st, act)
    <3>1. Ready(y.left, y.right, w, data, st) BY <1>12, <1>14, <2>3
    <3>2. Goes(c.buf, data, goal1, st, act) BY <1>10, <2>2, <2>3
    <3>3. Goes(ge.c.buf, data, ge.loc, st, act) BY <1>7, <1>14, <3>1, <3>2
    <3> QED BY <2>1, <3>3
  <2>4. Len(ge.c.buf) >= 1
    <3> DEFINE n == Len(ge.c.buf)
               m == Len(c.buf)
    <3>1. n - 1 > m - 1 /\ n \in Nat /\ m \in Nat BY <1>2, <1>14 DEF CurrentLoc
    <3> HIDE DEF n, m
    <3>2. n >= 1 BY <3>1
    <3> QED BY <3>2 DEF n
  <2>5. New BY <1>14, <2>1, <2>3, <2>4
  <2> QED BY <2>5
<1>15. ASSUME New2, NEW st, NEW act, Ready(x.left, x.right, w, data, st), Goes(ge.c.buf, data, goal2, st, act)
       PROVE  Goes(gt.c.buf, data, gt.loc, st, act)
  BY <1>15
<1>16. ASSUME New2 PROVE Len(gt.c.buf) >= 1
  <2> DEFINE n == Len(gt.c.buf)
             m == Len(ge.c.buf)
  <2>1. n - 1 > m - 1 /\ n \in Nat /\ m \in Nat BY <1>4, <1>16 DEF CurrentLoc
  <2> HIDE DEF n, m
  <2>2. n >= 1 BY <2>1
  <2> QED BY <2>2 DEF n
<1>17. CASE Old1 /\ New2
  <2>1. goal2 = goal BY <1>9, <1>10, <1>17
  <2>2. ASSUME NEW st, NEW act, Ready(x.left, x.right, w, data, st), Goes(c.buf, data, goal, st, act)
        PROVE  Goes(gt.c.buf, data, gt.loc, st, act)
    <3>1. Goes(ge.c.buf, data, goal2, st, act) BY <1>17, <2>1, <2>2
    <3> QED BY <1>15, <1>17, <2>2, <3>1
  <2>3. Extends(gt.c.buf, c.buf) BY <1>17
  <2>4. New BY <1>16, <1>17, <2>2, <2>3
  <2> QED BY <2>4
<1>18. CASE New1 /\ New2
  <2>1. Extends(gt.c.buf, c.buf)
    <3>1. Extends(gt.c.buf, ge.c.buf) /\ Extends(ge.c.buf, c.buf) BY <1>18
    <3> QED BY <3>1, ExtendsMore
  <2>2. ASSUME NEW st, NEW act, Ready(x.left, x.right, w, data, st), Goes(c.buf, data, goal, st, act)
        PROVE  Goes(gt.c.buf, data, gt.loc, st, act)
    <3>1. Goes(ge.c.buf, data, goal2, st, act)
      <4>1. CASE l > r
        <5>1. Extends(ge.c.buf, c.buf) BY <1>18
        <5>2. Goes(ge.c.buf, data, goal, st, act) BY <2>2, <5>1, GoesStill
        <5> QED BY <1>11, <4>1, <5>2
      <4>2. CASE ~(l > r)
        <5>1. Ready(y.left, y.right, w, data, st) BY <1>12, <1>18, <2>2
        <5>2. Goes(c.buf, data, goal1, st, act) BY <1>10, <2>2, <4>2
        <5>3. Goes(ge.c.buf, data, ge.loc, st, act) BY <1>7, <1>18, <5>1, <5>2
        <5> QED BY <1>10, <4>2, <5>3
      <4> QED BY <4>1, <4>2
    <3> QED BY <1>15, <1>18, <2>2, <3>1
  <2>3. New BY <1>16, <1>18, <2>1, <2>2
  <2> QED BY <2>3
<1> HIDE DEF Old1, New1, Old2, New2
<1> QED BY <1>5, <1>6, <1>13, <1>14, <1>17, <1>18

(* The comparison of the high words                                        *)
LEMMA HighOnCourse ==
  ASSUME WritingOK, NEW data, Call(data), NEW act, OnCourse(code, tasks, next, data, act), CompareHighWords,
         Fits(code')
  PROVE  OnCourse(code', tasks', next', data, act)
<1> DEFINE e == Task.expr
           b == code.buf
           ge == WordJump(code, "JGE", e, next, Floc, "HIGH")
           gt == WordJump(ge.c, "JGT", e, Tloc, ge.loc, "HIGH")
           x  == JumpOf("JGT", e, Tloc, ge.loc, "HIGH")
           goal == HighGoal(e, Tloc, Floc, next, data)
           loaded == ge.loc > CurrentLoc(code) \/ gt.loc > CurrentLoc(ge.c)
           New == /\ loaded /\ ~Decided(e, "HIGH") /\ gt.loc = CurrentLoc(gt.c)
                  /\ Len(gt.c.buf) \in Nat /\ Len(gt.c.buf) >= 1 /\ Extends(gt.c.buf, b)
                  /\ \A st, a : Ready(x.left, x.right, "HIGH", data, st) /\ Goes(b, data, goal, st, a)
                                => Goes(gt.c.buf, data, gt.loc, st, a)
<1>1. tasks # <<>> /\ Task.task = "high" BY DEF CompareHighWords, Doing
<1>2. PICK mid \in SUBSET States : \E post \in SUBSET States : AtHand(data, act, mid, post) BY <1>1, TaskAtHand
<1>3. PICK post \in SUBSET States : AtHand(data, act, mid, post) BY <1>2
<1>4. /\ Promise(b, data, act, Later, States, mid)
      /\ Link(b, data, act, Task, post, mid)
      /\ Stands(Task, TopLoads(Later))
  BY <1>3 DEF AtHand
<1>5. /\ Chosen(b, data, act, Task.tloc, post) => Leads(b, data, act, Tloc)
      /\ Chosen(b, data, act, Task.floc, post) => Leads(b, data, act, Floc)
      /\ post = States => Leads(b, data, act, next)
  BY <1>1, <1>3, TargetLeads DEF AtHand
<1>6. ~TopLoads(Later) BY <1>1, <1>4 DEF Stands
<1>7. HighLink(b, data, act, Task, post, mid)
  BY <1>1, <1>4 DEF Link, BranchLink, CompareLink, LoadLink, WriteLink
<1>8. Operated(e, data) BY <1>7 DEF HighLink
<1>9. mid # {} => Leads(b, data, act, goal)
  <2> DEFINE l == WordOf(e.left, "HIGH", data.regs)
             r == WordOf(e.right, "HIGH", data.regs)
  <2>1. mid # {} => /\ l > r => Chosen(b, data, act, Task.tloc, post)
                    /\ l < r => Chosen(b, data, act, Task.floc, post)
                    /\ l = r => post = States
    BY <1>7 DEF HighLink, LeftWord, RightWord
  <2>2. goal = IF l > r THEN Tloc ELSE IF l < r THEN Floc ELSE next BY DEF HighGoal
  <2>3. l \in Nat /\ r \in Nat
    <3>1. "HIGH" \in WordNames BY DEF WordNames
    <3>2. l \in Words /\ r \in Words BY <1>8, <3>1, ConstRight DEF Call, TermsOf, Operated
    <3> QED BY <3>2, WordFacts DEF Words
  <2> HIDE DEF l, r, goal
  <2>4. l > r \/ l < r \/ l = r BY <2>3
  <2> QED BY <1>5, <2>1, <2>2, <2>3, <2>4
<1>10. \E I : Later \in Seq(I) BY <1>4 DEF Promise
<1>11. code' = gt.c /\ next' = gt.loc
       /\ tasks' = Later \o (IF loaded THEN OperandLoads("JGT", e, "HIGH") ELSE <<>>)
  BY DEF CompareHighWords
<1>12. Tloc \in Locs(Len(b)) /\ Floc \in Locs(Len(b)) /\ next \in Locs(Len(b)) BY <1>1, TargetsIn DEF WritingOK
<1>13. CtxOK(code) /\ Rests(b, 0) BY DEF WritingOK
<1>14. ~gt.c.missed BY <1>11 DEF Fits
<1>15. (~loaded /\ gt.c = code /\ gt.loc = goal) \/ New BY <1>8, <1>12, <1>13, <1>14, HighJumpsDo
<1> HIDE DEF ge, gt, goal, loaded
<1>16. CASE ~loaded /\ gt.c = code /\ gt.loc = goal
  <2>1. tasks' = Later BY <1>10, <1>11, <1>16, Listing
  <2>2. code' = code /\ next' = goal BY <1>11, <1>16
  <2>3. \A st \in mid : Goes(b, data, Place(code, Later, goal), st, act) BY <1>6, <1>9 DEF Place, Leads
  <2>4. OnCourse(code, Later, goal, data, act) BY <1>4, <1>6, <2>3 DEF OnCourse
  <2> QED BY <2>1, <2>2, <2>4
<1>17. CASE New
  <2> DEFINE d == gt.c.buf
             us == Later \o OperandLoads("JGT", e, "HIGH")
             q == {u \in States : mid # {} /\ Ready(x.left, x.right, "HIGH", data, u)}
  <2>1. tasks' = us BY <1>11, <1>17
  <2>2. 0 < BPF_MEMWORDS
    <3>1. code'.stack \in Nat BY FittedBefore DEF GenerateExpr
    <3> QED BY <3>1, CodegenConstants DEF Fits
  <2>3. Promise(d, data, act, Later, States, mid) BY <1>4, <1>17, ChainStill DEF Promise
  <2>4. q \in SUBSET States /\ (mid # {} => \A u \in States : Ready(x.left, x.right, "HIGH", data, u) => u \in q)
    OBVIOUS
  <2>5. \A u \in q : Goes(d, data, gt.loc, u, act) BY <1>9, <1>17 DEF Leads
  <2>6. "HIGH" \in WordNames /\ "JGT" \in JumpTypes BY DEF WordNames, JumpTypes
  <2> HIDE DEF q, d
  <2>7. Promise(d, data, act, us, States, q) /\ TopLoads(us)
    <3> HIDE DEF e
    <3> QED BY <1>6, <1>8, <1>17, <2>2, <2>3, <2>4, <2>6, OperandsLoaded
  <2> HIDE DEF us
  <2>8. \A u \in q : Goes(d, data, Place(gt.c, us, gt.loc), u, act) BY <1>17, <2>5, <2>7 DEF Place
  <2>9. OnCourse(gt.c, us, gt.loc, data, act) BY <1>17, <2>4, <2>7, <2>8 DEF OnCourse, d
  <2> QED BY <1>11, <2>1, <2>9
<1> QED BY <1>15, <1>16, <1>17

(* What is promised for a task that loads.                                 *)
LEMMA LoadAtHand ==
  ASSUME WritingOK, NEW data, NEW act, OnCourse(code, tasks, next, data, act), tasks # <<>>,
         Task.task \in {"load", "write", "newest"}
  PROVE  \E mid \in SUBSET States : \E post \in SUBSET States :
           /\ Promise(code.buf, data, act, Later, States, mid)
           /\ Task.task = "load" => LoadLink(data, Task, post, mid)
           /\ Task.task = "write" => WriteLink(data, Task, post, mid)
           /\ Task.task = "newest" => mid \subseteq post
           /\ Task.task # "newest" <=> TopLoads(Later)
           /\ \A st \in post : Goes(code.buf, data, Len(code.buf) - 1, st, act)
           /\ Len(code.buf) >= 1
<1>1. PICK mid \in SUBSET States : \E post \in SUBSET States : AtHand(data, act, mid, post) BY TaskAtHand
<1>2. PICK post \in SUBSET States : AtHand(data, act, mid, post) BY <1>1
<1>3. Loading(Task) BY DEF Loading
<1>4. Link(code.buf, data, act, Task, post, mid) BY <1>2 DEF AtHand
<1>5. /\ Task.task = "load" => LoadLink(data, Task, post, mid)
      /\ Task.task = "write" => WriteLink(data, Task, post, mid)
      /\ Task.task = "newest" => mid \subseteq post
  BY <1>4 DEF Link, BranchLink, CompareLink, HighLink, LoadLink, WriteLink
<1>6. Task.task # "newest" <=> TopLoads(Later) BY <1>2 DEF AtHand, Stands
<1>7. (\A st \in post : Goes(code.buf, data, Len(code.buf) - 1, st, act)) /\ Len(code.buf) >= 1
  BY <1>2, <1>3 DEF AtHand, CurrentLoc
<1>8. Promise(code.buf, data, act, Later, States, mid) BY <1>2 DEF AtHand
<1> QED BY <1>5, <1>6, <1>7, <1>8

(* The newest instruction is written in front of what the tasks promise.   *)
LEMMA WrittenOnCourse ==
  ASSUME WritingOK, NEW data, NEW act, NEW post, NEW q \in SUBSET States, NEW x, NEW us, NEW loc, NEW d,
         d.buf = Append(code.buf, x), Len(code.buf) >= 1,
         \A st \in post : Goes(code.buf, data, Len(code.buf) - 1, st, act),
         \A u \in q : \E t \in post : Steps(x, u, data, t),
         Promise(d.buf, data, act, us, States, q), TopLoads(us)
  PROVE  OnCourse(d, us, loc, data, act)
<1> DEFINE b == code.buf
           f == Append(b, x)
<1>1. Extends(f, b) /\ Len(f) = Len(b) + 1 /\ f[Len(b) + 1] = x /\ Len(b) \in Nat BY OneMore DEF WritingOK
<1> HIDE DEF f
<1>2. ASSUME NEW u \in q PROVE Goes(f, data, Len(f) - 1, u, act)
  <2>1. PICK t \in post : Steps(x, u, data, t) BY <1>2
  <2>2. Goes(b, data, Len(b) - 1, t, act) BY <2>1
  <2> QED BY <1>1, <2>1, <2>2, NewestGoes
<1>3. d.buf = f BY DEF f
<1>4. \A u \in q : Goes(d.buf, data, Place(d, us, loc), u, act) BY <1>2, <1>3 DEF Place, CurrentLoc
<1>5. Len(d.buf) >= 1 BY <1>1, <1>3
<1> QED BY <1>4, <1>5 DEF OnCourse

(* An instruction after code.                                              *)
LEMMA AddedBuf ==
  ASSUME WritingOK, NEW x
  PROVE  Add(code, x).buf = Append(code.buf, x) /\ Extends(Append(code.buf, x), code.buf)
<1>1. CtxOK(code) BY DEF WritingOK
<1> DEFINE d == Add(code, x)
<1>2. d = [buf |-> Append(code.buf, x), basic |-> code.basic, cache |-> code.cache, stack |-> code.stack,
           missed |-> code.missed]
  BY <1>1, AddToCtx
<1> HIDE DEF d
<1>3. d.buf = Append(code.buf, x) BY <1>2
<1> QED BY <1>1, <1>3, OneMore DEF d

(* The load of an argument, and the other instructions                     *)
LEMMA ArgumentOnCourse ==
  ASSUME WritingOK, NEW data, Call(data), NEW act, OnCourse(code, tasks, next, data, act), LoadArgument
  PROVE  OnCourse(code', tasks', next', data, act)
<1> DEFINE e == Task.expr
           w == Task.word
           x == LoadArg(e.var, w)
<1>1. tasks # <<>> /\ Task.task = "load" /\ e.type = "VAR" /\ code' = Add(code, x) /\ tasks' = Later
  BY DEF LoadArgument, Doing
<1>2. PICK mid \in SUBSET States : \E post \in SUBSET States :
        /\ Promise(code.buf, data, act, Later, States, mid) /\ LoadLink(data, Task, post, mid) /\ TopLoads(Later)
        /\ \A st \in post : Goes(code.buf, data, Len(code.buf) - 1, st, act)
        /\ Len(code.buf) >= 1
  BY <1>1, LoadAtHand
<1>3. PICK post \in SUBSET States :
        /\ Promise(code.buf, data, act, Later, States, mid) /\ LoadLink(data, Task, post, mid) /\ TopLoads(Later)
        /\ \A st \in post : Goes(code.buf, data, Len(code.buf) - 1, st, act)
        /\ Len(code.buf) >= 1
  BY <1>2
<1>4. e \in TermsOf(data) /\ w \in WordNames /\ Task.sp \in Nat /\ ~IsConst(e, w)
      /\ \A st \in mid : \A u : Loads(e, w, Task.sp, data.regs, st, u) => u \in post
  BY <1>3 DEF LoadLink
<1>5. WordOf(e, w, data.regs) = Word(data.regs[e.var], w)
  <2>1. e.type \notin BitTypes BY <1>1 DEF BitTypes
  <2> QED BY <1>4, <2>1, UnknownTerm
<1>6. Add(code, x).buf = Append(code.buf, x) /\ Extends(Append(code.buf, x), code.buf) BY AddedBuf
<1> DEFINE v == WordOf(e, w, data.regs)
<1>7. v \in Nat
  <2>1. v \in Words BY <1>4, ConstRight DEF Call, TermsOf
  <2> QED BY <2>1, WordFacts DEF Words
<1>8. ASSUME NEW st \in mid PROVE \E t \in post : Steps(x, st, data, t)
  <2> DEFINE t == State(Word(data.regs[e.var], w), st.x, st.m)
  <2>1. Steps(x, st, data, t) BY InstructionDoes
  <2>2. t = State(v, st.x, st.m) BY <1>5
  <2> HIDE DEF t, v
  <2>3. t \in States /\ t.a = v /\ t.x = st.x /\ t.m = st.m BY <1>7, <2>2, StateParts
  <2>4. Kept(st, t, Task.sp) BY <2>3 DEF Kept
  <2>5. ~Indexed(e, w) BY <1>1 DEF Indexed, BitTypes
  <2>6. Loads(e, w, Task.sp, data.regs, st, t) BY <2>3, <2>4, <2>5 DEF Loads, v
  <2> QED BY <1>4, <2>1, <2>6
<1> DEFINE d == Add(code, x)
<1>9. Promise(d.buf, data, act, Later, States, mid) BY <1>3, <1>6, ChainStill DEF Promise
<1> HIDE DEF x, d
<1>10. OnCourse(d, Later, next', data, act) BY <1>3, <1>6, <1>8, <1>9, WrittenOnCourse DEF d
<1> QED BY <1>1, <1>10 DEF d

(* Writing an instruction keeps the course,                                *)
LEMMA InstructionOnCourse ==
  ASSUME WritingOK, NEW data, NEW act, OnCourse(code, tasks, next, data, act), WriteInstruction
  PROVE  OnCourse(code', tasks', next', data, act)
<1> DEFINE x == Task.instr
           d == Add(code, x)
<1>1. tasks # <<>> /\ Task.task = "write" /\ code' = d /\ tasks' = Later
  BY DEF WriteInstruction, Doing
<1>2. PICK mid \in SUBSET States : \E post \in SUBSET States :
        /\ Promise(code.buf, data, act, Later, States, mid) /\ WriteLink(data, Task, post, mid) /\ TopLoads(Later)
        /\ \A st \in post : Goes(code.buf, data, Len(code.buf) - 1, st, act)
        /\ Len(code.buf) >= 1
  BY <1>1, LoadAtHand
<1>3. PICK post \in SUBSET States :
        /\ Promise(code.buf, data, act, Later, States, mid) /\ WriteLink(data, Task, post, mid) /\ TopLoads(Later)
        /\ \A st \in post : Goes(code.buf, data, Len(code.buf) - 1, st, act)
        /\ Len(code.buf) >= 1
  BY <1>2
<1>4. \A st \in mid : \E t \in post : Steps(x, st, data, t) BY <1>3 DEF WriteLink
<1>5. d.buf = Append(code.buf, x) /\ Extends(Append(code.buf, x), code.buf) BY AddedBuf
<1>6. Promise(d.buf, data, act, Later, States, mid) BY <1>3, <1>5, ChainStill DEF Promise
<1> HIDE DEF d, x
<1>7. OnCourse(d, Later, next', data, act) BY <1>3, <1>4, <1>5, <1>6, WrittenOnCourse
<1> QED BY <1>1, <1>7

(* and so does an operand that is in the accumulator.                      *)
LEMMA ValueOnCourse ==
  ASSUME WritingOK, NEW data, NEW act, OnCourse(code, tasks, next, data, act), ValueLoaded
  PROVE  OnCourse(code', tasks', next', data, act)
<1>1. tasks # <<>> /\ Task.task = "newest" /\ code' = code /\ tasks' = Later /\ next' = CurrentLoc(code)
  BY DEF ValueLoaded, Doing
<1>2. PICK mid \in SUBSET States : \E post \in SUBSET States :
        /\ Promise(code.buf, data, act, Later, States, mid) /\ mid \subseteq post /\ ~TopLoads(Later)
        /\ \A st \in post : Goes(code.buf, data, Len(code.buf) - 1, st, act)
  BY <1>1, LoadAtHand
<1>3. \A st \in mid : Goes(code.buf, data, Place(code, Later, CurrentLoc(code)), st, act)
  BY <1>2 DEF Place, CurrentLoc
<1>4. OnCourse(code, Later, CurrentLoc(code), data, act) BY <1>2, <1>3 DEF OnCourse
<1> QED BY <1>1, <1>4

(* The load of an operation on bits                                        *)
LEMMA OperationOnCourse ==
  ASSUME WritingOK, NEW data, Call(data), NEW act, OnCourse(code, tasks, next, data, act), LoadOperation,
         Fits(code')
  PROVE  OnCourse(code', tasks', next', data, act)
<1> DEFINE e == Task.expr
           w == Task.word
           sp == Task.sp
           R == data.regs
           W(z) == WordOf(z, w, R)
           p == Operands(e, w)[1]
           q == Operands(e, w)[2]
           op == IF e.type = "BIT_AND" THEN "AND" ELSE "OR"
           identity == IF e.type = "BIT_AND" THEN WORD_MAX ELSE 0
           K == ValueOf(q, w)
           raised == IF p.type # "VAR" /\ sp > code.stack THEN sp ELSE code.stack
<1>1. tasks # <<>> /\ Task.task = "load" /\ e.type # "VAR" BY DEF LoadOperation, Doing
<1>2. IF IsConst(q, w)
      THEN /\ code' = IF K = identity THEN code ELSE Add(code, Alu(op, "K", K))
           /\ tasks' = Append(Later, LoadValue(p, w, sp))
      ELSE /\ code' = Add([code EXCEPT !.stack = raised], Alu(op, "X", 0))
           /\ tasks' = Later \o LoadBoth(p, q, w, sp)
  BY DEF LoadOperation
<1>3. PICK mid \in SUBSET States : \E post \in SUBSET States :
        /\ Promise(code.buf, data, act, Later, States, mid) /\ LoadLink(data, Task, post, mid) /\ TopLoads(Later)
        /\ \A st \in post : Goes(code.buf, data, Len(code.buf) - 1, st, act)
        /\ Len(code.buf) >= 1
  BY <1>1, LoadAtHand
<1>4. PICK post \in SUBSET States :
        /\ Promise(code.buf, data, act, Later, States, mid) /\ LoadLink(data, Task, post, mid) /\ TopLoads(Later)
        /\ \A st \in post : Goes(code.buf, data, Len(code.buf) - 1, st, act)
        /\ Len(code.buf) >= 1
  BY <1>3
<1>5. e \in TermsOf(data) /\ w \in WordNames /\ sp \in Nat /\ ~IsConst(e, w)
      /\ \A st \in mid : \A u : Loads(e, w, sp, R, st, u) => u \in post
  BY <1>4 DEF LoadLink
<1>6. /\ e.type \in BitTypes /\ p \in TermsOf(data) /\ q \in TermsOf(data) /\ ~IsConst(p, w)
      /\ W(e) = Bits(e.type, W(p), W(q))
  BY <1>1, <1>5, UnknownTerm
<1>7. W(p) \in Words /\ W(q) \in Words /\ W(e) \in Words /\ W(e) \in Nat
  <2>1. W(p) \in Words /\ W(q) \in Words /\ W(e) \in Words BY <1>5, <1>6, ConstRight DEF Call, TermsOf
  <2> QED BY <2>1, WordFacts DEF Words
(* The operation's instruction completes the load. *)
<1>8. ASSUME NEW st \in mid, NEW u \in States, u.a = W(p), Kept(st, u, sp), Indexed(e, w) => u.x = W(q),
             NEW src \in {"K", "X"}, NEW k, Right(src, k, u) = W(q)
      PROVE  \E t \in post : Steps(Alu(op, src, k), u, data, t)
  <2> DEFINE t == State(Bits(e.type, u.a, Right(src, k, u)), u.x, u.m)
  <2>1. Steps(Alu(op, src, k), u, data, t) BY <1>6, InstructionDoes
  <2>2. t = State(W(e), u.x, u.m) BY <1>6, <1>8
  <2> HIDE DEF t, W
  <2>3. t \in States /\ t.a = W(e) /\ t.x = u.x /\ t.m = u.m BY <1>7, <2>2, StateParts
  <2>4. Kept(st, t, sp) BY <1>8, <2>3 DEF Kept
  <2>5. e.type # "VAR" BY <1>6 DEF BitTypes
  <2>6. Indexed(e, w) => t.x = W(q) BY <1>8, <2>3
  <2>7. Loads(e, w, sp, R, st, t) BY <2>3, <2>4, <2>5, <2>6 DEF Loads, W
  <2> QED BY <1>5, <2>1, <2>7
<1>9. CASE IsConst(q, w)
  <2> DEFINE us == Append(Later, LoadValue(p, w, sp))
             m == {u \in States : \E st \in mid : Loads(p, w, sp, R, st, u)}
             x == Alu(op, "K", K)
             d == Add(code, x)
  <2>1. K = W(q) BY <1>5, <1>6, <1>9, KnownWord
  <2>2. ~Indexed(e, w) BY <1>9 DEF Indexed
  <2>3. m \in SUBSET States /\ \A st \in mid : \A u : Loads(p, w, sp, R, st, u) => u \in m BY DEF Loads
  <2>4. ASSUME NEW b, Promise(b, data, act, Later, States, mid)
        PROVE  Promise(b, data, act, us, States, m) /\ TopLoads(us)
    <3> HIDE DEF m, e, w, sp, p
    <3> QED BY <1>4, <1>5, <1>6, <2>3, <2>4, LoadMore
  <2>5. tasks' = us BY <1>2, <1>9
  <2>6. CASE K = identity
    <3>1. code' = code BY <1>2, <1>9, <2>6
    <3>2. W(e) = W(p)
      <4>1. identity = Identity(e.type, WORD_MAX) BY <1>6 DEF Identity, BitTypes
      <4>2. Bits(e.type, W(p), Identity(e.type, WORD_MAX)) = W(p) BY <1>6, <1>7, WordOps
      <4> QED BY <1>6, <2>1, <2>6, <4>1, <4>2
    <3>3. ASSUME NEW u \in m PROVE u \in post
      <4>1. PICK st \in mid : Loads(p, w, sp, R, st, u) BY <3>3
      <4>2. Loads(e, w, sp, R, st, u)
        <5>1. u \in States /\ u.a = W(p) /\ Kept(st, u, sp) BY <4>1 DEF Loads
        <5> HIDE DEF W
        <5>2. u.a = W(e) BY <3>2, <5>1
        <5> QED BY <1>1, <2>2, <5>1, <5>2 DEF Loads, W
      <4> QED BY <1>5, <4>2
    <3>4. Promise(code.buf, data, act, us, States, m) /\ TopLoads(us) BY <1>4, <2>4
    <3> HIDE DEF us, m
    <3>5. \A u \in m : Goes(code.buf, data, Place(code, us, next'), u, act)
      BY <1>4, <3>3, <3>4 DEF Place, CurrentLoc
    <3>6. OnCourse(code, us, next', data, act) BY <1>4, <2>3, <3>4, <3>5 DEF OnCourse
    <3> QED BY <2>5, <3>1, <3>6
  <2>7. CASE K # identity
    <3>1. code' = d BY <1>2, <1>9, <2>7
    <3>2. d.buf = Append(code.buf, x) /\ Extends(Append(code.buf, x), code.buf) BY AddedBuf
    <3>3. Promise(d.buf, data, act, Later, States, mid)
      <4> HIDE DEF d, x
      <4>1. Extends(d.buf, code.buf) BY <3>2
      <4>2. Promise(code.buf, data, act, Later, States, mid) BY <1>4
      <4> QED BY <4>1, <4>2, PromiseStill
    <3>4. Promise(d.buf, data, act, us, States, m) /\ TopLoads(us)
      <4> HIDE DEF d, us, m
      <4> QED BY <2>4, <3>3
    <3>5. ASSUME NEW u \in m PROVE \E t \in post : Steps(x, u, data, t)
      <4>1. PICK st \in mid : Loads(p, w, sp, R, st, u) BY <3>5
      <4>2. u \in States /\ u.a = W(p) /\ Kept(st, u, sp) BY <4>1 DEF Loads
      <4>3. Right("K", K, u) = W(q) BY <2>1 DEF Right
      <4> HIDE DEF m, W, e, w, sp, R, p, q, K, op
      <4>4. \E t \in post : Steps(Alu(op, "K", K), u, data, t) BY <1>8, <2>2, <4>2, <4>3
      <4> QED BY <4>4
    <3> HIDE DEF us, m, x, d
    <3>6. OnCourse(d, us, next', data, act) BY <1>4, <2>3, <3>2, <3>4, <3>5, WrittenOnCourse
    <3> QED BY <2>5, <3>1, <3>6
  <2> QED BY <2>6, <2>7
<1>10. CASE ~IsConst(q, w)
  <2> DEFINE us == Later \o LoadBoth(p, q, w, sp)
             m == {u \in States : u.a = W(p) /\ u.x = W(q) /\ \E st \in mid : Kept(st, u, sp)}
             x == Alu(op, "X", 0)
             c == [code EXCEPT !.stack = raised]
             d == Add(c, x)
  <2>1. code' = d /\ tasks' = us BY <1>2, <1>10
  <2>2. IsCtx(code) /\ code.stack \in Nat BY DEF WritingOK, CtxOK, IsCtx
  <2> HIDE DEF raised
  <2>3. c = [buf |-> code.buf, basic |-> code.basic, cache |-> code.cache, stack |-> raised, missed |-> code.missed]
    BY <2>2 DEF IsCtx
  <2> HIDE DEF x
  <2>4. d = [buf |-> Append(code.buf, x), basic |-> code.basic, cache |-> code.cache, stack |-> raised,
             missed |-> code.missed]
    <3> HIDE DEF c
    <3>1. Add(c, x) = [buf |-> Append(code.buf, x), basic |-> code.basic, cache |-> code.cache, stack |-> raised,
                       missed |-> code.missed]
      BY <2>3, AddTo
    <3> QED BY <3>1
  <2> HIDE DEF c, d
  <2>5. d.buf = Append(code.buf, x) /\ d.stack = raised BY <2>4
  <2>6. p.type # "VAR" => sp < BPF_MEMWORDS
    <3>1. raised < BPF_MEMWORDS BY <2>1, <2>5 DEF Fits
    <3>2. p.type # "VAR" => sp <= raised BY <1>5, <2>2 DEF raised
    <3>3. raised \in Nat BY <1>5, <2>2 DEF raised
    <3> HIDE DEF sp, p
    <3> QED BY <1>5, <3>1, <3>2, <3>3, CodegenConstants
  <2>7. Extends(d.buf, code.buf)
    <3>1. CtxOK(code) BY DEF WritingOK
    <3> QED BY <2>5, <3>1, OneMore
  <2>8. Promise(d.buf, data, act, Later, States, mid) BY <1>4, <2>7, ChainStill DEF Promise
  <2>9. m \in SUBSET States /\ mid \subseteq States
        /\ \A st \in mid : \A u \in States : u.a = W(p) /\ u.x = W(q) /\ Kept(st, u, sp) => u \in m
    OBVIOUS
  <2>10. \A u \in m : u \in States /\ u.a = W(p) /\ u.x = W(q) /\ \E st \in mid : Kept(st, u, sp) OBVIOUS
  <2>11. Promise(d.buf, data, act, us, States, m) /\ TopLoads(us)
    <3>1. ~IsConst(p, w) /\ ~IsConst(q, w) BY <1>6, <1>10
    <3>2. \A st \in mid : \A u \in States :
            u.a = WordOf(p, w, data.regs) /\ u.x = WordOf(q, w, data.regs) /\ Kept(st, u, sp) => u \in m
      BY <2>9
    <3>3. m \in SUBSET States /\ mid \subseteq States BY <2>9
    <3> HIDE DEF m, e, w, sp, p, q, d
    <3>4. LET vs == Later \o LoadBoth(p, q, w, sp) IN Promise(d.buf, data, act, vs, States, m) /\ TopLoads(vs)
      BY <1>4, <1>5, <1>6, <2>6, <2>8, <3>1, <3>2, <3>3, BothLoaded
    <3> QED BY <3>4
  <2> HIDE DEF m, us
  <2>12. ASSUME NEW u \in m PROVE \E t \in post : Steps(x, u, data, t)
    <3>1. u \in States /\ u.a = W(p) /\ u.x = W(q) /\ \E st \in mid : Kept(st, u, sp) BY <2>10
    <3>2. PICK st \in mid : Kept(st, u, sp) BY <3>1
    <3>3. Right("X", 0, u) = W(q) BY <3>1 DEF Right
    <3> HIDE DEF W, e, w, sp, R, p, q, op
    <3>4. \E t \in post : Steps(Alu(op, "X", 0), u, data, t) BY <1>8, <3>1, <3>2, <3>3
    <3> QED BY <3>4 DEF x
  <2>13. OnCourse(d, us, next', data, act) BY <1>4, <2>5, <2>9, <2>11, <2>12, WrittenOnCourse
  <2> QED BY <2>1, <2>13
<1> QED BY <1>9, <1>10

(* generate_expr and what it calls                                         *)
LEMMA ExprOnCourse ==
  ASSUME WritingOK, NEW data, Call(data), NEW act, OnCourse(code, tasks, next, data, act), GenerateExpr,
         Fits(code')
  PROVE  OnCourse(code', tasks', next', data, act)
BY ConnectiveOnCourse, ComparisonOnCourse, WordOnCourse, HighOnCourse, ArgumentOnCourse, OperationOnCourse,
   InstructionOnCourse, ValueOnCourse DEF GenerateExpr

-----------------------------------------------------------------------------
(* The tree of comparisons.  A subtree of generate_rules' list is for the  *)
(* numbers from its own to the one below that of the subtree before.       *)

Upto(ls, k) == IF k = 1 THEN MAX_SYSCALL_NR ELSE ls[k - 1].nr - 1
Within(ls, k, nr) == ls[k].nr <= nr /\ nr <= Upto(ls, k)

(* With the number nr in the accumulator loc leads the call to the action  *)
(* act.                                                                    *)
Answers(b, data, loc, nr, act) == \A st \in States : st.a = nr => Goes(b, data, loc, st, act)

(* The subtrees of ls answer W, pairs of a number and an action.           *)
Answered(b, data, ls, W) ==
  \A k \in 1..Len(ls) : \A w \in W : Within(ls, k, w[1]) => Answers(b, data, ls[k].action, w[1], w[2])

(* The subtrees begin at base, which is where the last one does.           *)
BeginAt(ls, base) ==
  /\ \E L : ls \in Seq(LevelType(Nat, L))
  /\ \A k \in 1..Len(ls) : ls[k].nr >= base
  /\ ls # <<>> => ls[Len(ls)].nr = base
  /\ ls = <<>> => base = MAX_SYSCALL_NR + 1

(* The numbers are above base, or in the range from nr to base and         *)
(* answered at loc.                                                        *)
Above(b, data, W, base, nr, loc) ==
  \A w \in W : /\ w[1] \in Nat
               /\ \/ w[1] >= base
                  \/ nr <= w[1] /\ w[1] < base /\ Answers(b, data, loc, w[1], w[2])

(* More code changes nothing.                                              *)
LEMMA AnsweredStill ==
  ASSUME NEW b, NEW d, Extends(d, b), NEW data, NEW ls, NEW W, Answered(b, data, ls, W)
  PROVE  Answered(d, data, ls, W)
<1>1. ASSUME NEW loc, NEW nr, NEW act, Answers(b, data, loc, nr, act) PROVE Answers(d, data, loc, nr, act)
  BY <1>1, GoesStill DEF Answers
<1> QED BY <1>1 DEF Answered

(* The subtrees answer W, and below them is a range from nr on whose       *)
(* numbers are answered at loc, if there are any in U.                     *)
Below(b, data, ls, base, nr, W, U, loc) ==
  /\ base \in Nat /\ BeginAt(ls, base) /\ nr \in Nat /\ nr < base /\ Answered(b, data, ls, W)
  /\ Above(b, data, U, base, nr, loc)
  /\ \A w \in U : w[1] >= base => w \in W

(* The last subtree begins at nr. *)
Widened(ls, nr) == [ls EXCEPT ![Len(ls)].nr = nr]
SameActions(t, ls) == \A k \in 1..Len(ls) : t[k].action = ls[k].action

(* The last subtree takes the range below it that has the same action.     *)
LEMMA RangeWider ==
  ASSUME NEW b, NEW data, NEW ls, ls # <<>>, NEW base, NEW nr, NEW W, NEW U,
         Below(b, data, ls, base, nr, W, U, ls[Len(ls)].action)
  PROVE  LET t == Widened(ls, nr)
         IN BeginAt(t, nr) /\ Answered(b, data, t, U) /\ Len(t) = Len(ls) /\ SameActions(t, ls)
<1>0. /\ base \in Nat /\ BeginAt(ls, base) /\ nr \in Nat /\ nr < base /\ Answered(b, data, ls, W)
      /\ Above(b, data, U, base, nr, ls[Len(ls)].action)
      /\ \A w \in U : w[1] >= base => w \in W
  BY DEF Below
<1> USE <1>0
<1> DEFINE n == Len(ls)
           t == [ls EXCEPT ![n].nr = nr]
<1>1. PICK L : ls \in Seq(LevelType(Nat, L)) BY DEF BeginAt
<1>2. n \in Nat \ {0} /\ \A k \in 1..n : ls[k] \in LevelType(Nat, L) BY <1>1
<1>3. \A k \in 1..n : ls[k].nr \in Nat /\ ls[k].nr >= base BY <1>2 DEF LevelType, BeginAt
<1>4a. \A k \in 1..n : t[k] \in LevelType(Nat, L) /\ t[k].action = ls[k].action
  BY <1>2 DEF LevelType
<1>4b. t = [k \in 1..n |-> t[k]] OBVIOUS
<1>4c. \A k \in 1..n : t[k].nr = IF k = n THEN nr ELSE ls[k].nr
  BY <1>2 DEF LevelType
<1>4. /\ \A k \in 1..n : /\ t[k] \in LevelType(Nat, L) /\ t[k].action = ls[k].action
                         /\ t[k].nr = IF k = n THEN nr ELSE ls[k].nr
      /\ t = [k \in 1..n |-> t[k]]
  BY <1>4a, <1>4b, <1>4c
<1>5. ls[n].nr = base BY DEF BeginAt
<1> DEFINE T == LevelType(Nat, L)
<1> HIDE DEF t, T, n
<1>6. t \in Seq(T) /\ Len(t) = n
  <2>1. \A k \in 1..n : t[k] \in T BY <1>4 DEF T
  <2>2. t \in [1..n -> T] BY <1>4, <2>1
  <2>3. n \in Nat BY <1>2
  <2> QED BY <2>2, <2>3
<1>7. BeginAt(t, nr)
  <2>1. \A k \in 1..n : t[k].nr >= nr BY <1>3, <1>4
  <2>2. n \in 1..n /\ t # <<>> BY <1>2, <1>6
  <2> QED BY <1>4, <1>6, <2>1, <2>2 DEF BeginAt, T
<1>8. Answered(b, data, t, U)
  <2> SUFFICES ASSUME NEW k \in 1..n, NEW w \in U, Within(t, k, w[1])
               PROVE  Answers(b, data, t[k].action, w[1], w[2])
    BY <1>6 DEF Answered
  <2>1. w[1] \in Nat /\ t[k].nr <= w[1] /\ w[1] <= Upto(t, k) BY DEF Within, Above
  <2>2. Upto(t, k) = Upto(ls, k)
    <3>1. k # 1 => k - 1 \in 1..n /\ k - 1 # n BY <1>2
    <3> QED BY <1>4, <3>1 DEF Upto
  <2>3. CASE w[1] >= base
    <3>1. ls[k].nr <= w[1]
      <4>1. CASE k = n BY <1>5, <2>3, <4>1
      <4>2. CASE k # n BY <1>4, <2>1, <4>2
      <4> QED BY <4>1, <4>2
    <3> QED BY <1>4, <2>1, <2>2, <2>3, <3>1 DEF Answered, Within, n
  <2>4. CASE ~(w[1] >= base)
    <3>1. Answers(b, data, ls[n].action, w[1], w[2]) BY <2>4 DEF Above, n
    <3>2. k = n
      <4>1. CASE k # n
        <5>1. t[k].nr >= base BY <1>3, <1>4, <4>1
        <5>2. t[k].nr \in Nat BY <1>3, <1>4, <4>1
        <5> QED BY <2>1, <2>4, <5>1, <5>2
      <4> QED BY <4>1
    <3> QED BY <1>4, <3>1, <3>2
  <2> QED BY <2>3, <2>4
<1> QED BY <1>4, <1>6, <1>7, <1>8 DEF t, n, Widened, SameActions

(* A subtree of its own for the range below.                               *)
LEMMA SubtreeAdded ==
  ASSUME NEW b, NEW data, NEW ls, NEW base, NEW nr, NEW loc, NEW W, NEW U,
         Below(b, data, ls, base, nr, W, U, loc)
  PROVE  LET t == Append(ls, Level(0, nr, loc))
         IN BeginAt(t, nr) /\ Answered(b, data, t, U) /\ Len(t) = Len(ls) + 1 /\ Len(ls) \in Nat
            /\ t[Len(ls) + 1].action = loc
            /\ \A k \in 1..Len(ls) : t[k].action = ls[k].action
<1>0. /\ base \in Nat /\ BeginAt(ls, base) /\ nr \in Nat /\ nr < base /\ Answered(b, data, ls, W)
      /\ Above(b, data, U, base, nr, loc)
      /\ \A w \in U : w[1] >= base => w \in W
  BY DEF Below
<1> USE <1>0
<1> DEFINE n == Len(ls)
           x == Level(0, nr, loc)
           t == Append(ls, x)
<1>1. PICK L : ls \in Seq(LevelType(Nat, L)) BY DEF BeginAt
<1>2. n \in Nat /\ \A k \in 1..n : ls[k] \in LevelType(Nat, L) BY <1>1
<1>3. \A k \in 1..n : ls[k].nr \in Nat /\ ls[k].nr >= base BY <1>2 DEF LevelType, BeginAt
<1> DEFINE M == L \cup {loc}
           T == LevelType(Nat, M)
<1>4. x \in T /\ x.nr = nr /\ x.action = loc BY DEF LevelType, Level
<1>5. ls \in Seq(T)
  <2>1. LevelType(Nat, L) \subseteq T BY DEF LevelType
  <2> HIDE DEF T
  <2> QED BY <1>1, <2>1, SeqGrows
<1> HIDE DEF x, T, M
<1>6. t \in Seq(T) /\ Len(t) = n + 1 /\ t[n + 1] = x /\ \A k \in 1..n : t[k] = ls[k]
  BY <1>2, <1>4, <1>5
<1>7. MAX_SYSCALL_NR \in Nat BY MaxSyscallNr
<1> HIDE DEF t, n
<1>8. BeginAt(t, nr)
  <2>1. \A k \in 1..(n + 1) : t[k].nr >= nr
    <3> SUFFICES ASSUME NEW k \in 1..(n + 1) PROVE t[k].nr >= nr OBVIOUS
    <3>1. k \in 1..n \/ k = n + 1 BY <1>2
    <3>2. CASE k \in 1..n BY <1>3, <1>6, <3>2
    <3>3. CASE k = n + 1 BY <1>4, <1>6, <3>3
    <3> QED BY <3>1, <3>2, <3>3
  <2>2. t # <<>>
    <3>1. Len(t) # 0 BY <1>2, <1>6
    <3> QED BY <1>6, <3>1
  <2> QED BY <1>4, <1>6, <2>1, <2>2 DEF BeginAt, T
<1>9. Answered(b, data, t, U)
  <2> SUFFICES ASSUME NEW k \in 1..(n + 1), NEW w \in U, Within(t, k, w[1])
               PROVE  Answers(b, data, t[k].action, w[1], w[2])
    BY <1>6 DEF Answered
  <2>1. w[1] \in Nat /\ t[k].nr <= w[1] /\ w[1] <= Upto(t, k) BY DEF Within, Above
  <2>2. CASE k \in 1..n
    <3>1. k # 1 => k - 1 \in 1..n BY <1>2, <2>2
    <3>2. Upto(t, k) = Upto(ls, k) BY <1>6, <3>1 DEF Upto
    <3>3. ls[k].nr <= w[1] /\ w[1] >= base
      <4>1. t[k].nr = ls[k].nr /\ ls[k].nr \in Nat /\ ls[k].nr >= base BY <1>3, <1>6, <2>2
      <4> QED BY <2>1, <4>1
    <3> QED BY <1>6, <2>1, <2>2, <3>2, <3>3 DEF Answered, Within, n
  <2>3. CASE k = n + 1
    <3>1. w[1] < base
      <4>1. CASE n = 0
        <5>1. ls = <<>> /\ k = 1 BY <1>1, <2>3, <4>1 DEF n
        <5>2. Upto(t, k) = MAX_SYSCALL_NR BY <5>1 DEF Upto
        <5>3. base = MAX_SYSCALL_NR + 1 BY <5>1 DEF BeginAt
        <5> QED BY <1>7, <2>1, <5>2, <5>3
      <4>2. CASE n # 0
        <5>1. k # 1 /\ k - 1 = n /\ n \in 1..n BY <1>2, <2>3, <4>2
        <5>2. Upto(t, k) = t[n].nr - 1 BY <5>1 DEF Upto
        <5>3. ls # <<>> BY <4>2 DEF n
        <5>4. t[n].nr = base BY <1>6, <5>1, <5>3 DEF BeginAt, n
        <5> QED BY <2>1, <5>2, <5>4
      <4> QED BY <4>1, <4>2
    <3>2. Answers(b, data, loc, w[1], w[2]) BY <2>1, <3>1 DEF Above
    <3> QED BY <1>4, <1>6, <2>3, <3>2
  <2>4. k \in 1..n \/ k = n + 1 BY <1>2
  <2> QED BY <2>2, <2>3, <2>4
<1> QED BY <1>2, <1>4, <1>6, <1>8, <1>9 DEF t, n, x

(* The last two subtrees are one that has height h and goes on at loc,     *)
(* where the calls are compared with where the upper one begins.           *)
Joined(ls, h, loc) == Append(SubSeq(ls, 1, Len(ls) - 2), Level(h, ls[Len(ls)].nr, loc))
SameFront(t, ls)   == \A k \in 1..(Len(ls) - 2) : t[k].action = ls[k].action
JoinsTo(b, d, ls, loc) ==
  \A data, st, act :
    Goes(b, data, IF Jumps("JGE", st.a, ls[Len(ls) - 1].nr) THEN ls[Len(ls) - 1].action
                  ELSE ls[Len(ls)].action, st, act)
    => Goes(d, data, loc, st, act)

(* Two subtrees joined by a comparison with where the upper one begins.    *)
LEMMA SubtreesJoined ==
  ASSUME NEW b, NEW d, Extends(d, b), NEW ls, NEW base \in Nat, BeginAt(ls, base), Len(ls) >= 2,
         NEW data, NEW W, Answered(b, data, ls, W), \A w \in W : w[1] \in Nat, NEW h \in Nat, NEW loc,
         JoinsTo(b, d, ls, loc)
  PROVE  LET t == Joined(ls, h, loc)
         IN BeginAt(t, base) /\ Answered(d, data, t, W) /\ Len(t) = Len(ls) - 1 /\ Len(ls) \in Nat
            /\ t[Len(ls) - 1].action = loc /\ SameFront(t, ls)
<1> DEFINE n == Len(ls)
           x == Level(h, ls[n].nr, loc)
           s == SubSeq(ls, 1, n - 2)
           t == Append(s, x)
<1>1. PICK L : ls \in Seq(LevelType(Nat, L)) BY DEF BeginAt
<1>2. n \in Nat /\ n >= 2 /\ \A k \in 1..n : ls[k] \in LevelType(Nat, L) BY <1>1
<1>3. \A k \in 1..n : ls[k].nr \in Nat /\ ls[k].nr >= base BY <1>2 DEF LevelType, BeginAt
<1> DEFINE M == L \cup {loc}
           T == LevelType(Nat, M)
<1>4. n \in 1..n /\ n - 1 \in 1..n /\ n # 1 /\ n - 1 # 0 /\ ls # <<>> BY <1>2
<1>5. ls[n].nr = base /\ ls[n - 1].nr \in Nat /\ ls[n - 1].nr >= base BY <1>3, <1>4 DEF BeginAt
<1>6. x \in T /\ x.nr = base /\ x.action = loc BY <1>5 DEF LevelType, Level
<1>7. ls \in Seq(T)
  <2>1. LevelType(Nat, L) \subseteq T BY DEF LevelType
  <2> HIDE DEF T
  <2> QED BY <1>1, <2>1, SeqGrows
<1> HIDE DEF x, T, M
<1>8. s \in Seq(T) /\ Len(s) = n - 2 /\ \A k \in 1..(n - 2) : s[k] = ls[k]
  <2>1. \A k \in 1..(n - 2) : ls[k] \in T
    <3>1. \A k \in 1..(n - 2) : k \in 1..n BY <1>2
    <3> QED BY <1>7, <3>1
  <2>2. 1 \in Int /\ n - 2 \in Int BY <1>2
  <2>3. /\ s \in Seq(T) /\ Len(s) = IF 1 <= n - 2 THEN (n - 2) - 1 + 1 ELSE 0
        /\ \A k \in 1..((n - 2) - 1 + 1) : s[k] = ls[1 + k - 1]
    BY <2>1, <2>2, SubSeqProperties
  <2> HIDE DEF s
  <2>4. \A k \in 1..(n - 2) : s[k] = ls[k]
    <3> TAKE k \in 1..(n - 2)
    <3>1. k \in 1..((n - 2) - 1 + 1) /\ 1 + k - 1 = k BY <1>2
    <3> QED BY <2>3, <3>1
  <2>5. \A y \in Nat : y >= 2 => (IF 1 <= y - 2 THEN (y - 2) - 1 + 1 ELSE 0) = y - 2 OBVIOUS
  <2> QED BY <1>2, <2>3, <2>4, <2>5
<1> HIDE DEF s
<1>9. t \in Seq(T) /\ Len(t) = n - 1 /\ t[n - 1] = x /\ \A k \in 1..(n - 2) : t[k] = ls[k]
  <2>1. Len(t) = Len(s) + 1 /\ t[Len(s) + 1] = x /\ t \in Seq(T)
        /\ \A k \in 1..Len(s) : t[k] = s[k]
    BY <1>6, <1>8
  <2> QED BY <1>2, <1>8, <2>1
<1> HIDE DEF t, n
<1>10. BeginAt(t, base)
  <2>1. \A k \in 1..(n - 1) : t[k].nr >= base
    <3> SUFFICES ASSUME NEW k \in 1..(n - 1) PROVE t[k].nr >= base OBVIOUS
    <3>1. (k \in 1..(n - 2) /\ k \in 1..n) \/ k = n - 1 BY <1>2
    <3>2. CASE k \in 1..(n - 2) /\ k \in 1..n BY <1>3, <1>9, <3>2
    <3>3. CASE k = n - 1 BY <1>6, <1>9, <3>3
    <3> QED BY <3>1, <3>2, <3>3
  <2>2. t # <<>>
    <3>1. Len(t) # 0 BY <1>2, <1>9
    <3>2. t = <<>> => Len(t) = 0 OBVIOUS
    <3> QED BY <3>1, <3>2
  <2>3. t[Len(t)].nr = base BY <1>6, <1>9
  <2>4. \A k \in 1..Len(t) : t[k].nr >= base BY <1>9, <2>1
  <2>5. t \in Seq(LevelType(Nat, M)) BY <1>9 DEF T
  <2>6. \E K : t \in Seq(LevelType(Nat, K)) BY <2>5
  <2> QED BY <2>2, <2>3, <2>4, <2>6 DEF BeginAt
<1>11. Answered(d, data, t, W)
  <2> SUFFICES ASSUME NEW k \in 1..(n - 1), NEW w \in W, Within(t, k, w[1])
               PROVE  Answers(d, data, t[k].action, w[1], w[2])
    BY <1>9 DEF Answered
  <2>1. w[1] \in Nat /\ t[k].nr <= w[1] /\ w[1] <= Upto(t, k) BY DEF Within
  <2>2. Upto(t, k) = Upto(ls, k)
    <3>1. k # 1 => k - 1 \in 1..(n - 2) BY <1>2
    <3> QED BY <1>9, <3>1 DEF Upto
  <2>3. CASE k \in 1..(n - 2)
    <3>1. k \in 1..n BY <1>2, <2>3
    <3>2. Answers(b, data, ls[k].action, w[1], w[2]) BY <1>9, <2>1, <2>2, <2>3, <3>1 DEF Answered, Within, n
    <3>3. Answers(d, data, ls[k].action, w[1], w[2]) BY <3>2, GoesStill DEF Answers
    <3> QED BY <1>9, <2>3, <3>3
  <2>4. CASE k = n - 1
    <3> DEFINE upper == ls[n - 1]
               lower == ls[n]
    <3>1. ASSUME w[1] >= upper.nr PROVE Answers(b, data, upper.action, w[1], w[2])
      BY <1>4, <2>1, <2>2, <2>4, <3>1 DEF Answered, Within, n
    <3>2. ASSUME ~(w[1] >= upper.nr) PROVE Answers(b, data, lower.action, w[1], w[2])
      <4>1. Upto(ls, n) = upper.nr - 1 BY <1>4 DEF Upto
      <4>2. t[k].nr = base /\ lower.nr = base BY <1>5, <1>6, <1>9, <2>4
      <4>3. lower.nr <= w[1] /\ w[1] <= upper.nr - 1
        <5> DEFINE u == upper.nr
        <5>1. u \in Nat /\ ~(w[1] >= u) /\ w[1] \in Nat /\ lower.nr <= w[1]
          BY <1>5, <2>1, <3>2, <4>2
        <5> HIDE DEF u
        <5>2. w[1] <= u - 1 BY <5>1
        <5> QED BY <5>1, <5>2 DEF u
      <4>4. Within(ls, n, w[1]) BY <4>1, <4>3 DEF Within
      <4> QED BY <1>4, <4>4 DEF Answered, n
    <3>3. ASSUME NEW st \in States, st.a = w[1] PROVE Goes(d, data, loc, st, w[2])
      <4>1. Jumps("JGE", st.a, upper.nr) <=> w[1] >= upper.nr BY <3>3 DEF Jumps
      <4>2. CASE w[1] >= upper.nr
        <5>1. Goes(b, data, upper.action, st, w[2]) BY <3>1, <3>3, <4>2 DEF Answers
        <5> QED BY <4>1, <4>2, <5>1 DEF n, JoinsTo
      <4>3. CASE ~(w[1] >= upper.nr)
        <5>1. Goes(b, data, lower.action, st, w[2]) BY <3>2, <3>3, <4>3 DEF Answers
        <5> QED BY <4>1, <4>3, <5>1 DEF n, JoinsTo
      <4> QED BY <4>2, <4>3
    <3>4. t[k].action = loc BY <1>6, <1>9, <2>4
    <3> QED BY <3>3, <3>4 DEF Answers
  <2>5. k \in 1..(n - 2) \/ k = n - 1 BY <1>2
  <2> QED BY <2>3, <2>4, <2>5
<1> QED BY <1>2, <1>6, <1>9, <1>10, <1>11 DEF t, n, x, s, Joined, SameFront

-----------------------------------------------------------------------------
(* What the ranges ask of the tree.                                        *)

(* The rule r has act for the call: its action, or that of the first of    *)
(* its conditions to hold; the last one always does.                       *)
Takes(r, data, act) ==
  IF IsConditional(r)
  THEN /\ Call(data) /\ \A k \in 1..(Len(r.exprs) - 1) : r.exprs[k].expr \in ConditionsOf(data)
       /\ \E k \in 1..Len(r.exprs) :
            /\ r.exprs[k].action = act
            /\ k = Len(r.exprs) \/ Holds(r.exprs[k].expr, data.regs)
            /\ \A m \in 1..(k - 1) : ~Holds(r.exprs[m].expr, data.regs)
  ELSE r.action = act

(* The ranges follow one another from 0 to MAX_SYSCALL_NR (NormalizedRules). *)
RangesOK(rs) ==
  /\ \E E : rs \in Seq(RuleType(E, Actions))
  /\ rs # <<>> /\ rs[1].first = 0 /\ rs[Len(rs)].last = MAX_SYSCALL_NR
  /\ \A k \in 1..Len(rs) : /\ rs[k].first <= rs[k].last
                           /\ k < Len(rs) => rs[k + 1].first = rs[k].last + 1
                           /\ IsConditional(rs[k]) => HasCatchAll(rs[k])

(* Where the last d of them begin. *)
Base(rs, d) == IF d = 0 THEN MAX_SYSCALL_NR + 1 ELSE rs[Len(rs) - d + 1].first

Unconditional(rs, m) == ~IsConditional(rs[m])
OfRule(rs, m, data, w) == rs[m].first <= w[1] /\ w[1] <= rs[m].last /\ Takes(rs[m], data, w[2])

(* What the last d ranges decide for the call.                             *)
Wanted(rs, d, data) ==
  {w \in Nat \X Actions : \E m \in 1..Len(rs) : m > Len(rs) - d /\ OfRule(rs, m, data, w)}

FromBase(rs, d) == \A m \in 1..Len(rs) : m > Len(rs) - d => rs[m].first >= Base(rs, d)

(* The next range ends where those that are done begin.                    *)
LEMMA NextRange ==
  ASSUME NEW rs, RangesOK(rs), NEW d \in Nat, d < Len(rs), FromBase(rs, d)
  PROVE  LET r == rs[Len(rs) - d]
         IN /\ r.first \in Nat /\ Base(rs, d) \in Nat /\ r.first < Base(rs, d)
            /\ r.last = Base(rs, d) - 1 /\ Base(rs, d + 1) = r.first
            /\ FromBase(rs, d + 1)
            /\ ~IsConditional(r) => r.action \in Actions
            /\ \A data : \A w \in Wanted(rs, d + 1, data) :
                 /\ w[1] \in Nat
                 /\ w[1] >= Base(rs, d) => w \in Wanted(rs, d, data)
                 /\ w[1] >= Base(rs, d) \/ (r.first <= w[1] /\ w[1] < Base(rs, d) /\ Takes(r, data, w[2]))
<1> DEFINE R == Len(rs)
           p == R - d
           r == rs[p]
<1>1. PICK E : rs \in Seq(RuleType(E, Actions)) BY DEF RangesOK
<1>2. R \in Nat /\ p \in 1..R /\ (\A m \in 1..R : rs[m] \in RuleType(E, Actions)) BY <1>1
<1>3. MAX_SYSCALL_NR \in Nat BY MaxSyscallNr
<1> HIDE DEF R
<1>4. ASSUME NEW m \in 1..R
      PROVE  /\ rs[m].first \in Nat /\ rs[m].last \in Nat /\ rs[m].first <= rs[m].last
             /\ rs[m].action \in Actions \cup {ACTION_CONDITIONAL}
  <2>1. rs[m] \in RuleType(E, Actions) BY <1>2
  <2>2. /\ rs[m].first \in Numbers /\ rs[m].last \in Numbers
        /\ rs[m].action \in Actions \cup {ACTION_CONDITIONAL}
    BY <2>1 DEF RuleType
  <2>3. Numbers \subseteq Nat BY <1>3 DEF Numbers
  <2>4. rs[m].first <= rs[m].last BY DEF RangesOK, R
  <2> QED BY <2>2, <2>3, <2>4
<1>5. p # R => p + 1 \in 1..R /\ p < R BY <1>2
<1>6. Base(rs, d) = IF p = R THEN MAX_SYSCALL_NR + 1 ELSE rs[p + 1].first
  BY <1>2 DEF Base, R
<1>7. r.last = MAX_SYSCALL_NR \/ p # R BY DEF RangesOK, R
<1>8. p # R => rs[p + 1].first = r.last + 1 BY <1>2, <1>5 DEF RangesOK, R
<1>9. r.last + 1 = Base(rs, d) BY <1>6, <1>7, <1>8
<1>10. /\ r.first \in Nat /\ r.last \in Nat /\ r.first <= r.last BY <1>2, <1>4
<1>11. Base(rs, d + 1) = r.first
  <2>1. d + 1 # 0 /\ R - (d + 1) + 1 = p BY <1>2
  <2> QED BY <2>1 DEF Base, R
<1> DEFINE B == Base(rs, d)
<1> HIDE DEF p, B
<1>12. p = R - d /\ r = rs[p] BY DEF p
<1>13. B \in Nat /\ r.first < B /\ r.last = B - 1 BY <1>9, <1>10 DEF B
<1>14. \A m \in 1..R : m > R - (d + 1) => m = p \/ m > R - d BY <1>2, <1>12
<1>15. \A m \in 1..R : m > R - d => rs[m].first >= B BY DEF FromBase, R, B
<1>16. FromBase(rs, d + 1)
  <2> SUFFICES ASSUME NEW m \in 1..R, m > R - (d + 1) PROVE rs[m].first >= r.first
    BY <1>11 DEF FromBase, R
  <2>1. CASE m = p BY <1>10, <1>12, <2>1
  <2>2. CASE m > R - d
    <3>1. rs[m].first >= B /\ rs[m].first \in Nat BY <1>4, <1>15, <2>2
    <3> QED BY <1>10, <1>13, <3>1
  <2> QED BY <1>14, <2>1, <2>2
<1>17. ASSUME NEW data, NEW w \in Wanted(rs, d + 1, data)
       PROVE  /\ w[1] \in Nat /\ w \in Nat \X Actions
              /\ ((w[1] >= B /\ w \in Wanted(rs, d, data)) \/ (w[1] < B /\ OfRule(rs, p, data, w)))
  <2>1. w \in Nat \X Actions /\ w[1] \in Nat BY DEF Wanted
  <2>2. PICK m \in 1..R : m > R - (d + 1) /\ OfRule(rs, m, data, w) BY DEF Wanted, R
  <2>3. CASE m = p
    <3>1. w[1] <= r.last BY <1>12, <2>2, <2>3 DEF OfRule
    <3>2. w[1] < B BY <1>10, <1>13, <2>1, <3>1
    <3> QED BY <2>1, <2>2, <2>3, <3>2
  <2>4. CASE m > R - d
    <3>1. rs[m].first >= B /\ rs[m].first \in Nat /\ rs[m].first <= w[1] BY <1>4, <1>15, <2>2, <2>4 DEF OfRule
    <3>2. w[1] >= B BY <1>13, <2>1, <3>1
    <3>3. w \in Wanted(rs, d, data) BY <2>1, <2>2, <2>4 DEF Wanted, R
    <3> QED BY <2>1, <3>2, <3>3
  <2> QED BY <1>14, <2>2, <2>3, <2>4
<1>18. ASSUME NEW data, NEW w \in Wanted(rs, d + 1, data)
       PROVE  /\ w[1] \in Nat
              /\ w[1] >= B => w \in Wanted(rs, d, data)
              /\ w[1] >= B \/ (r.first <= w[1] /\ w[1] < B /\ Takes(r, data, w[2]))
  <2>1. w[1] \in Nat /\ ((w[1] >= B /\ w \in Wanted(rs, d, data)) \/ (w[1] < B /\ OfRule(rs, p, data, w)))
    BY <1>17
  <2>2. OfRule(rs, p, data, w) => r.first <= w[1] /\ Takes(r, data, w[2]) BY <1>12 DEF OfRule
  <2>3. w[1] >= B => ~(w[1] < B) BY <1>13, <2>1
  <2> QED BY <2>1, <2>2, <2>3
<1>19. ASSUME ~IsConditional(r) PROVE r.action \in Actions BY <1>2, <1>4, <1>12, <1>19 DEF IsConditional
<1> QED BY <1>10, <1>11, <1>13, <1>16, <1>18, <1>19 DEF B, p, R
-----------------------------------------------------------------------------
(* What generate_rules writes is in front of what was there.               *)
LEMMA GeneratedAdds ==
  ASSUME RulesInv, LevelsInv, CodeInv, GenerateCode PROVE Adds(code, code')
<1>1. CtxOK(code) /\ Rests(code.buf, 0) /\ Len(code.buf) \in Nat
  <2>1. stage \in Collecting BY GenerateStages DEF GenerateCode, Collecting
  <2>2. CtxOK(code) /\ Rests(code.buf, 0) BY <2>1 DEF CodeInv
  <2> QED BY <2>2, CodeLength
<1>2. Adds(code, code)
  <2>1. Noted(code, code) BY DEF Noted
  <2> QED BY <1>1, <2>1, OneAdds
<1>3. CASE GenerateAction \/ PlaceRange \/ AddSubtree
  <2>1. code' = code BY <1>3 DEF GenerateAction, PlaceRange, AddSubtree
  <2> QED BY <1>2, <2>1
<1>4. CASE JoinEqual \/ JoinRest
  <2>1. PICK h : JoinLast(h) /\ Len(levels) >= 2 BY <1>4 DEF JoinEqual, JoinRest, Joinable
  <2> DEFINE n == Len(levels)
             k == levels[n - 1].nr
             t == levels[n - 1].action
             f == levels[n].action
             r == AddJump(code, "JGE", "K", k, t, f)
  <2>2. code' = r.c BY <2>1 DEF JoinLast
  <2>3. stage \in Generating BY <1>4 DEF JoinEqual, JoinRest, Generating
  <2>4. PICK N, L : levels \in Seq(LevelType(N, L)) /\ L \subseteq Locs(Len(code.buf))
    BY <2>3 DEF CodeInv, LevelsIn
  <2>5. t \in Locs(Len(code.buf)) /\ f \in Locs(Len(code.buf))
    <3>1. n \in Nat /\ n - 1 \in 1..n /\ n \in 1..n BY <2>1, <2>4
    <3>2. levels[n - 1] \in LevelType(N, L) /\ levels[n] \in LevelType(N, L) BY <2>4, <3>1
    <3> QED BY <2>4, <3>2 DEF LevelType
  <2>6. "JGE" \in BranchTypes /\ "K" \in {"K", "X"} BY DEF BranchTypes
  <2> HIDE DEF k, t, f
  <2>7. Branches(code, r, "JGE", "K", k, t, f) BY <1>1, <2>5, <2>6, JumpBranches
  <2> HIDE DEF r
  <2>8. Adds(code, r.c) BY <2>7 DEF Branches, Adds
  <2> QED BY <2>2, <2>8
<1>5. CASE stage = "action" /\ GenerateExpr /\ UNCHANGED <<stage, levels, done>>
  <2>1. WritingOK BY <1>1, <1>5 DEF WritingOK, CodeInv
  <2> QED BY <1>5, <2>1, ExprAdds
<1> QED BY <1>3, <1>4, <1>5 DEF GenerateCode, GenerateRules

(* What fits has fitted.                                                   *)
LEMMA GeneratedFits ==
  ASSUME RulesInv, LevelsInv, CodeInv, GenerateCode, Fits(code') PROVE Fits(code)
<1>1. CtxOK(code) /\ IsCtx(code) /\ ~code.missed
  <2>1. ~code.missed BY GeneratedAdds DEF Adds, Fits
  <2> QED BY <2>1 DEF CodeInv, CtxOK, IsCtx
<1>2. CASE code'.stack = code.stack BY <1>1, <1>2 DEF Fits
<1>3. CASE GenerateAction \/ PlaceRange \/ AddSubtree
  <2>1. code' = code BY <1>3 DEF GenerateAction, PlaceRange, AddSubtree
  <2> QED BY <1>2, <2>1
<1>4. CASE JoinEqual \/ JoinRest
  <2>1. PICK h : JoinLast(h) BY <1>4 DEF JoinEqual, JoinRest
  <2> DEFINE n == Len(levels)
             r == AddJump(code, "JGE", "K", levels[n - 1].nr, levels[n - 1].action, levels[n].action)
  <2>2. code' = r.c BY <2>1 DEF JoinLast
  <2>3. r.c.stack = code.stack BY <1>1, JumpStack
  <2> HIDE DEF r
  <2> QED BY <1>2, <2>2, <2>3
<1>5. CASE stage = "action" /\ GenerateExpr /\ UNCHANGED <<stage, levels, done>>
  <2>1. stage \in Collecting BY <1>5 DEF Collecting
  <2>2. WritingOK BY <1>5, <2>1, CodeLength DEF WritingOK, CodeInv
  <2> QED BY <1>5, <2>2, FittedBefore
<1> QED BY <1>3, <1>4, <1>5 DEF GenerateCode, GenerateRules

-----------------------------------------------------------------------------
(* The code of the conditions of a range.                                  *)

(* When nothing is left to generate, the code is where the call goes on.   *)
LEMMA EndOfCourse ==
  ASSUME NEW c, NEW ts, ts = <<>>, NEW loc, NEW data, NEW act, OnCourse(c, ts, loc, data, act)
  PROVE  Leads(c.buf, data, act, loc)
<1>1. ~TopLoads(ts) BY DEF TopLoads
<1>2. PICK post \in SUBSET States :
        /\ Promise(c.buf, data, act, ts, States, post)
        /\ \A st \in post : Goes(c.buf, data, Place(c, ts, loc), st, act)
  BY DEF OnCourse
<1>3. post = States
  <2>1. Len(ts) = 0 OBVIOUS
  <2>2. Chain(c.buf, data, act, ts, States, post) BY <1>2 DEF Promise
  <2> QED BY <2>1, <2>2 DEF Chain
<1> QED BY <1>1, <1>2, <1>3 DEF Place, Leads

(* With no task left, a place that leads every state on is on course.      *)
LEMMA LeadsOnCourse ==
  ASSUME NEW c, NEW ts, ts = <<>>, NEW loc, NEW data, NEW act, Leads(c.buf, data, act, loc)
  PROVE  OnCourse(c, ts, loc, data, act)
<1>1. ~TopLoads(ts) BY DEF TopLoads
<1>2. States \in SUBSET States OBVIOUS
<1>3. Promise(c.buf, data, act, ts, States, States)
  <2>1. ts \in Seq({}) OBVIOUS
  <2> QED BY <1>2, <2>1, ChainNone DEF Promise
<1> QED BY <1>1, <1>2, <1>3 DEF OnCourse, Place, Leads

(* generate_action: the conditions in turn, each with its action, which    *)
(* the call goes on from the first one that holds; the last action stands  *)
(* without its condition.                                                  *)
LEMMA ConditionsTurned ==
  ASSUME RulesInv, CodeInv, GenerateAction, NEW data, NEW act, Takes(LastRule, data, act)
  PROVE  OnCourse(code', tasks', next', data, act)
<1> DEFINE r == LastRule
           n == Len(r.exprs)
           b == code.buf
<1>1. /\ stage = "generate" /\ done < Len(rules) /\ code' = code
      /\ IF IsConditional(r)
         THEN /\ next' = -r.exprs[n].action
              /\ tasks' = [k \in 1..(n - 1) |-> Branch(r.exprs[k].expr, -r.exprs[k].action, HERE)]
         ELSE next' = -r.action /\ UNCHANGED tasks
  BY DEF GenerateAction
<1>2. PICK E : rules \in Seq(RuleType(E, Actions)) BY DEF RulesInv
<1>3. Len(rules) - done \in DOMAIN rules
  <2>1. Len(rules) \in Nat /\ DOMAIN rules = 1..Len(rules) /\ done \in Nat BY <1>2 DEF CodeInv
  <2> QED BY <1>1, <2>1
<1>4. r \in RuleType(E, Actions) BY <1>2, <1>3 DEF LastRule
<1>5. IsConditional(r) => r.exprs # <<>> BY <1>1, <1>3 DEF RulesInv, Generating, LastRule
<1>6. tasks = <<>> BY <1>1 DEF CodeInv
<1>7. Takes(r, data, act) OBVIOUS
<1> HIDE DEF r, b
<1>8. /\ r.action \in Actions \cup {ACTION_CONDITIONAL} /\ r.exprs \in Seq(MappingType(E, Actions))
  BY <1>4 DEF RuleType
<1>9. ASSUME NEW a \in Actions
      PROVE  -a # HERE /\ \A st : Goes(b, data, -a, st, a)
  <2>1. a \in Nat \ {0} BY ActionRange
  <2>2. -a < 0 /\ -(-a) = a BY <2>1
  <2>3. -a # HERE
    <3>1. -a \in Locs(0) BY DEF Locs
    <3> QED BY <3>1, LocsBelow
  <2> QED BY <2>2, <2>3 DEF Goes
<1>10. CASE ~IsConditional(r)
  <2>1. r.action \in Actions /\ r.action = act BY <1>7, <1>8, <1>10 DEF IsConditional, Takes
  <2>2. tasks' = <<>> /\ next' = -act BY <1>1, <1>6, <1>10, <2>1
  <2>3. Leads(b, data, act, next') BY <1>9, <2>1, <2>2 DEF Leads
  <2> QED BY <1>1, <2>2, <2>3, LeadsOnCourse DEF b
<1>11. CASE IsConditional(r)
  <2> DEFINE e(k) == r.exprs[k].expr
             a(k) == r.exprs[k].action
             t(k) == Branch(e(k), -a(k), HERE)
             No(k) == \A m \in 1..k : ~Holds(e(m), data.regs)
             P == [k \in 0..(n - 1) |-> IF No(k) THEN States ELSE {}]
             I == {t(k) : k \in 1..(n - 1)}
             ts == [k \in 1..(n - 1) |-> t(k)]
  <2>1. n \in Nat \ {0} /\ \A k \in 1..n : r.exprs[k] \in MappingType(E, Actions) BY <1>5, <1>8, <1>11
  <2>2. \A k \in 1..n : a(k) \in Actions BY <2>1 DEF MappingType
  <2>3. tasks' = ts /\ next' = -a(n) BY <1>1, <1>11
  <2>4. \A k \in 1..(n - 1) : e(k) \in ConditionsOf(data) BY <1>7, <1>11 DEF Takes
  <2>5. PICK x \in 1..n : /\ a(x) = act /\ (x = n \/ Holds(e(x), data.regs))
                          /\ \A m \in 1..(x - 1) : ~Holds(e(m), data.regs)
    BY <1>7, <1>11 DEF Takes
  <2>6. \A k \in 1..(n - 1) : t(k).task = "branch" /\ t(k).expr = e(k) /\ t(k).tloc = -a(k) /\ t(k).floc = HERE
    BY DEF Branch
  <2>7. \A k \in 0..(n - 1) : P[k] = IF No(k) THEN States ELSE {} OBVIOUS
  <2> HIDE DEF n, t, P
  <2>8. Len(ts) = n - 1 /\ ts \in Seq(I) /\ \A k \in 1..(n - 1) : ts[k] = t(k)
    <3>1. ts \in [1..(n - 1) -> I] /\ \A k \in 1..(n - 1) : ts[k] = t(k) OBVIOUS
    <3> DEFINE m == n - 1
    <3>2. m \in Nat BY <2>1
    <3> HIDE DEF ts, I, m
    <3>3. ts \in Seq(I) /\ Len(ts) = m BY <3>1, <3>2 DEF m
    <3> QED BY <3>1, <3>3 DEF m
  <2> HIDE DEF ts, I, e, a
  <2>9. 0 \in 0..(n - 1) /\ n - 1 \in 0..(n - 1) /\ n \in 1..n /\ 1..0 = {} BY <2>1
  <2>10. P[0] = States BY <2>7, <2>9
  <2>11. ASSUME NEW k \in 1..(n - 1)
         PROVE  Link(b, data, act, t(k), P[k], P[k - 1]) /\ Stands(t(k), k > 1 /\ Loading(ts[k - 1]))
    <3>1. k \in 1..n /\ k \in 0..(n - 1) /\ k - 1 \in 0..(n - 1) /\ k # n BY <2>1
    <3>2. ASSUME P[k - 1] # {}
          PROVE  Chosen(b, data, act, IF Holds(e(k), data.regs) THEN -a(k) ELSE HERE, P[k])
      <4>1. No(k - 1) BY <2>7, <3>1, <3>2
      <4>2. CASE Holds(e(k), data.regs)
        <5>1. x = k
          <6>1. ~(x < k)
            <7> SUFFICES ASSUME x < k PROVE FALSE OBVIOUS
            <7>1. x \in 1..(k - 1) /\ x # n BY <2>1
            <7> QED BY <2>5, <4>1, <7>1
          <6>2. ~(k < x)
            <7> SUFFICES ASSUME k < x PROVE FALSE OBVIOUS
            <7>1. k \in 1..(x - 1) BY <2>1
            <7> QED BY <2>5, <4>2, <7>1
          <6> QED BY <2>1, <6>1, <6>2
        <5> QED BY <1>9, <2>2, <2>5, <3>1, <4>2, <5>1 DEF Chosen
      <4>3. CASE ~Holds(e(k), data.regs)
        <5>1. No(k)
          <6> SUFFICES ASSUME NEW m \in 1..k PROVE ~Holds(e(m), data.regs) OBVIOUS
          <6>1. m = k \/ m \in 1..(k - 1) OBVIOUS
          <6> QED BY <4>1, <4>3, <6>1
        <5>2. P[k] = States BY <2>7, <3>1, <5>1
        <5> QED BY <4>3, <5>2 DEF Chosen
      <4> QED BY <4>2, <4>3
    <3>3. BranchLink(b, data, act, t(k), P[k], P[k - 1]) BY <2>4, <2>6, <3>2 DEF BranchLink
    <3>4. k > 1 => ~Loading(ts[k - 1])
      <4>1. k > 1 => k - 1 \in 1..(n - 1) BY <2>1
      <4> QED BY <2>6, <2>8, <4>1 DEF Loading
    <3>5. ~(t(k).task \in {"load", "write"}) BY <2>6
    <3> QED BY <3>3, <3>4, <3>5 DEF Link, Stands
  <2>12. \A k \in 0..(n - 1) : P[k] \subseteq States BY <2>7
  <2>13. Chain(b, data, act, ts, States, P[n - 1]) BY <2>8, <2>10, <2>11, <2>12 DEF Chain
  <2>14. ~TopLoads(ts)
    <3> SUFFICES ASSUME ts # <<>> PROVE ~Loading(ts[Len(ts)]) BY DEF TopLoads
    <3>1. Len(ts) \in 1..(n - 1) BY <2>1, <2>8
    <3> QED BY <2>6, <2>8, <3>1 DEF Loading
  <2>15. ASSUME NEW st \in P[n - 1] PROVE Goes(b, data, -a(n), st, act)
    <3>1. No(n - 1) BY <2>7, <2>9, <2>15
    <3>2. x = n
      <4> SUFFICES ASSUME x # n PROVE FALSE OBVIOUS
      <4>1. x \in 1..(n - 1) BY <2>1
      <4> QED BY <2>5, <3>1, <4>1
    <3> QED BY <1>9, <2>2, <2>5, <2>9, <3>2
  <2>16. OnCourse(code, ts, -a(n), data, act)
    <3>1. Promise(b, data, act, ts, States, P[n - 1]) BY <2>8, <2>13 DEF Promise
    <3>2. P[n - 1] \in SUBSET States BY <2>9, <2>12
    <3> QED BY <2>14, <2>15, <3>1, <3>2 DEF OnCourse, Place, b
  <2> QED BY <1>1, <2>3, <2>16
<1> QED BY <1>10, <1>11

(* While the action of a range is generated, what is written and what is   *)
(* still to be lead each of its calls to the action that the range has for *)
(* the call, as long as it fits.                                           *)
CourseInv ==
  stage \in {"action", "join"} =>
    /\ ~IsConditional(LastRule) => tasks = <<>>
    /\ Fits(code) => \A data, act : Takes(LastRule, data, act) => OnCourse(code, tasks, next, data, act)

(* A step of the code of a range keeps the course of its calls.            *)
LEMMA CourseGenerated == ASSUME RulesInv, LevelsInv, CodeInv, CourseInv, GenerateCode PROVE CourseInv'
<1> SUFFICES ASSUME stage' \in {"action", "join"}
             PROVE  /\ ~IsConditional(LastRule') => tasks' = <<>>
                    /\ Fits(code') => \A data, act : Takes(LastRule', data, act)
                                                      => OnCourse(code', tasks', next', data, act)
  BY DEF CourseInv
<1>1. rules' = rules /\ (Fits(code') => Fits(code)) BY GeneratedFits DEF GenerateCode
<1>2. CASE GenerateAction
  <2>1. stage = "generate" /\ done' = done /\ (~IsConditional(LastRule) => tasks' = tasks)
    BY <1>2 DEF GenerateAction
  <2>2. LastRule' = LastRule /\ tasks = <<>> BY <1>1, <2>1 DEF LastRule, CodeInv
  <2> QED BY <1>2, <2>1, <2>2, ConditionsTurned
<1>3. CASE PlaceRange \/ AddSubtree
  <2>1. stage = "action" /\ done' = done /\ UNCHANGED <<code, tasks, next>> BY <1>3 DEF PlaceRange, AddSubtree
  <2>2. LastRule' = LastRule BY <1>1, <2>1 DEF LastRule
  <2> QED BY <2>1, <2>2 DEF CourseInv
<1>4. CASE JoinEqual \/ JoinRest
  <2>1. stage = "join" /\ UNCHANGED <<stage, tasks, next, done>> BY <1>4 DEF JoinEqual, JoinRest
  <2>2. LastRule' = LastRule /\ tasks = <<>> BY <1>1, <2>1 DEF LastRule, CodeInv
  <2>3. ASSUME Fits(code'), NEW data, NEW act, Takes(LastRule', data, act)
        PROVE  OnCourse(code', tasks', next', data, act)
    <3>1. OnCourse(code, tasks, next, data, act) BY <1>1, <2>1, <2>2, <2>3 DEF CourseInv
    <3>2. Leads(code.buf, data, act, next) BY <2>2, <3>1, EndOfCourse
    <3>3. Extends(code'.buf, code.buf) BY GeneratedAdds DEF Adds
    <3>4. Leads(code'.buf, data, act, next) BY <3>2, <3>3, GoesStill DEF Leads
    <3> QED BY <2>1, <2>2, <3>4, LeadsOnCourse
  <2> QED BY <2>1, <2>2, <2>3
<1>5. CASE stage = "action" /\ GenerateExpr /\ UNCHANGED <<stage, levels, done>>
  <2>1. LastRule' = LastRule BY <1>1, <1>5 DEF LastRule
  <2>2. tasks # <<>> /\ IsConditional(LastRule)
    <3>1. tasks # <<>>
      BY <1>5 DEF GenerateExpr, GenerateConnective, GenerateComparison, CompareWord, CompareHighWords,
                  LoadArgument, LoadOperation, WriteInstruction, ValueLoaded, Doing
    <3> QED BY <1>5, <3>1 DEF CourseInv
  <2>3. stage \in Collecting BY <1>5 DEF Collecting
  <2>4. WritingOK BY <1>5, <2>3, CodeLength DEF WritingOK, CodeInv
  <2>5. ASSUME Fits(code'), NEW data, NEW act, Takes(LastRule', data, act)
        PROVE  OnCourse(code', tasks', next', data, act)
    <3>1. OnCourse(code, tasks, next, data, act) BY <1>1, <1>5, <2>1, <2>5 DEF CourseInv
    <3>2. Call(data) BY <2>1, <2>2, <2>5 DEF Takes
    <3> QED BY <1>5, <2>4, <2>5, <3>1, <3>2, ExprOnCourse
  <2> QED BY <2>1, <2>2, <2>5
<1> QED BY <1>2, <1>3, <1>4, <1>5 DEF GenerateCode, GenerateRules

(* When the conditions of a range have been coded, the code leads every    *)
(* call from any state of the machine to the action of the first condition *)
(* to hold, or to the last action, as long as jumps and memory slots fit   *)
(* (generate_action, generate_expr, generate_load).                        *)
THEOREM ConditionsCoded == Spec => []CourseInv
<1>1. Init => CourseInv BY DEF Init, CourseInv
<1>2. RulesInv /\ LevelsInv /\ CodeInv /\ CourseInv /\ [Next]_vars => CourseInv'
  <2> SUFFICES ASSUME RulesInv, LevelsInv, CodeInv, CourseInv, [Next]_vars PROVE CourseInv' OBVIOUS
  <2>1. CASE GenerateCode BY <2>1, CourseGenerated
  <2>2. CASE Next /\ ~GenerateCode
    <3>1. CASE BeginRules BY <3>1 DEF BeginRules, CourseInv
    <3>2. CASE ~BeginRules BY <2>2, <3>2, NotGenerating DEF CourseInv, Generating
    <3> QED BY <3>1, <3>2
  <2>3. CASE UNCHANGED vars
    <3>1. UNCHANGED <<stage, rules, code, done, next, tasks>>
      BY <2>3 DEF vars, normalVars, genVars
    <3>2. LastRule' = LastRule BY <3>1 DEF LastRule
    <3> QED BY <3>1, <3>2 DEF CourseInv
  <2> QED BY <2>1, <2>2, <2>3
<1> QED BY <1>1, <1>2, RulesKept, LevelsKept, CodeKept, PTL DEF Spec

-----------------------------------------------------------------------------
(* The choice of the architecture.                                         *)

(* Calls of architectures other than those of S are killed.                *)
Kills(b, loc, S) ==
  \A data, st : (\A a \in S : st.a # Archs[a]) => Goes(b, data, loc, st, ACTION_KILL)

ArchInv == stage \in Collecting /\ ~code.missed => Kills(code.buf, entry, TargetArchs \ todo)

(* Before the first target is compiled every call is killed.               *)
LEMMA KillsAll == ASSUME NEW b, NEW S PROVE Kills(b, -ACTION_KILL, S)
<1>1. ACTION_KILL \in Nat \ {0} BY ActionRange
<1> DEFINE k == ACTION_KILL
<1>2. -k < 0 /\ -(-k) = k BY <1>1
<1> HIDE DEF k
<1>3. \A data, st : Goes(b, data, -k, st, k) BY <1>2 DEF Goes
<1> QED BY <1>3 DEF Kills, k

(* Code that goes where other code went.                                   *)
LEMMA KillsStill ==
  ASSUME NEW b, NEW d, Extends(d, b), NEW loc, NEW S, Kills(b, loc, S) PROVE Kills(d, loc, S)
BY GoesStill DEF Kills

(* The tree, with the load of the number in front (compile_policy_for_archs). *)
Loaded == IF levels[1].action >= 0 THEN Added(code, Load("nr")) ELSE At(code, -default_action)

(* Where the code of the target starts can be resolved.                    *)
LEMMA TreeLoaded ==
  ASSUME PolicyInv, CodeInv, FinishArch
  PROVE  /\ CtxOK(Loaded.c) /\ Rests(Loaded.c.buf, 0) /\ Adds(code, Loaded.c)
         /\ Loaded.loc \in Locs(Len(Loaded.c.buf)) /\ entry \in Locs(Len(Loaded.c.buf))
<1> DEFINE n == Len(code.buf)
<1>1. CtxOK(code) /\ Rests(code.buf, 0) /\ n \in Nat /\ entry \in Locs(n)
  <2>1. stage \in Collecting BY DEF FinishArch, Collecting
  <2>2. CtxOK(code) /\ Rests(code.buf, 0) /\ entry \in Locs(n) BY <2>1 DEF CodeInv
  <2> QED BY <2>2, CodeLength
<1>2. Noted(code, code) BY DEF Noted
<1>3. CASE levels[1].action >= 0
  <2> DEFINE x == Load("nr")
             c == Add(code, x)
  <2>1. Loaded = [c |-> c, loc |-> n] BY <1>3 DEF Loaded, Added, At
  <2>2. x.op # "RET" BY DEF Load
  <2> HIDE DEF x
  <2>3. CtxOK(c) /\ Rests(c.buf, 0) /\ Len(c.buf) = n + 1 BY <1>1, <2>2, InstructionAdded
  <2>4. Adds(code, c) BY <1>1, <1>2, OneAdds
  <2> HIDE DEF c
  <2> DEFINE g == Len(c.buf)
  <2>5. n \in 0..(g - 1) /\ g \in Nat /\ g >= n
    <3> HIDE DEF n
    <3> QED BY <1>1, <2>3
  <2>6. n \in Locs(g) BY <2>5 DEF Locs
  <2>7. entry \in Locs(g)
    <3> HIDE DEF n, g
    <3> QED BY <1>1, <2>5, LocsGrow
  <2> QED BY <2>1, <2>3, <2>4, <2>6, <2>7
<1>4. CASE ~(levels[1].action >= 0)
  <2>1. Loaded = [c |-> code, loc |-> -default_action] BY <1>4 DEF Loaded, At
  <2>2. default_action \in Actions BY DEF FinishArch, PolicyInv, Collecting
  <2>3. -default_action \in Locs(n) BY <2>2 DEF Locs
  <2>4. Adds(code, code) BY <1>1, <1>2, OneAdds
  <2> QED BY <1>1, <2>1, <2>3, <2>4
<1> QED BY <1>3, <1>4

(* Calls of the target go to its tree, and other ones where they did; when *)
(* the tree is KILL they all go there.                                     *)
LEMMA TargetChosen ==
  ASSUME PolicyInv, CodeInv, FinishArch
  PROVE  /\ Adds(code, code')
         /\ ~code'.missed =>
              /\ ~Loaded.c.missed
              /\ \A data, st, act :
                   st.a # Archs[Lowest(todo)] /\ Goes(code.buf, data, entry, st, act)
                   => Goes(code'.buf, data, entry', st, act)
              /\ \A data, st, act :
                   /\ st.a = Archs[Lowest(todo)] /\ Goes(Loaded.c.buf, data, Loaded.loc, st, act)
                   /\ Loaded.loc = -ACTION_KILL => Goes(code.buf, data, entry, st, ACTION_KILL)
                   => Goes(code'.buf, data, entry', st, act)
<1> DEFINE l == Loaded
           name == Archs[Lowest(todo)]
           r == IF l.loc = -ACTION_KILL THEN At(l.c, entry)
                ELSE AddJump(l.c, "JEQ", "K", name, l.loc, entry)
<1>1. code' = r.c /\ entry' = r.loc BY DEF FinishArch, Loaded
<1>2. /\ CtxOK(l.c) /\ Rests(l.c.buf, 0) /\ Adds(code, l.c)
      /\ l.loc \in Locs(Len(l.c.buf)) /\ entry \in Locs(Len(l.c.buf))
  BY TreeLoaded
<1> HIDE DEF l, name
<1>3. Extends(l.c.buf, code.buf) /\ (~l.c.missed => ~code.missed) BY <1>2 DEF Adds
<1>4. CASE l.loc = -ACTION_KILL
  <2>1. r = [c |-> l.c, loc |-> entry] BY <1>4 DEF At
  <2>2. r.c = l.c /\ r.loc = entry BY <2>1
  <2> HIDE DEF r
  <2>3. code' = l.c /\ entry' = entry BY <1>1, <2>2
  <2>4. ASSUME NEW data, NEW st, NEW act, Goes(code.buf, data, entry, st, act)
        PROVE  Goes(code'.buf, data, entry', st, act)
    BY <1>3, <2>3, <2>4, GoesStill
  <2>5. ASSUME NEW data, NEW st, NEW act, Goes(l.c.buf, data, l.loc, st, act)
        PROVE  act = ACTION_KILL
    <3> DEFINE k == ACTION_KILL
    <3>1. k \in Nat \ {0} /\ l.loc = -k BY <1>4, ActionRange
    <3> HIDE DEF k
    <3>2. l.loc < 0 /\ -l.loc = k BY <3>1
    <3>3. act = k BY <2>5, <3>2 DEF Goes
    <3> QED BY <3>3 DEF k
  <2>6. ASSUME NEW data, NEW st, NEW act, Goes(l.c.buf, data, l.loc, st, act),
               Goes(code.buf, data, entry, st, ACTION_KILL)
        PROVE  Goes(code'.buf, data, entry', st, act)
    <3>1. act = ACTION_KILL BY <2>5, <2>6
    <3> QED BY <2>4, <2>6, <3>1
  <2> QED BY <1>2, <1>4, <2>3, <2>4, <2>6 DEF l, name
<1>5. CASE l.loc # -ACTION_KILL
  <2>1. r = AddJump(l.c, "JEQ", "K", name, l.loc, entry) BY <1>5
  <2> HIDE DEF r
  <2>2. "JEQ" \in BranchTypes /\ "K" \in {"K", "X"} BY DEF BranchTypes
  <2>3. Branches(l.c, r, "JEQ", "K", name, l.loc, entry) BY <1>2, <2>1, <2>2, JumpBranches
  <2>4. Extends(r.c.buf, l.c.buf) /\ (~r.c.missed => ~l.c.missed) BY <2>3 DEF Branches
  <2>5. Adds(l.c, r.c) BY <2>4 DEF Adds
  <2>6. Adds(code, code') BY <1>1, <1>2, <2>5, AddsMore
  <2>7. ASSUME ~r.c.missed, NEW data, NEW st, NEW act,
               Goes(l.c.buf, data, IF st.a = name THEN l.loc ELSE entry, st, act)
        PROVE  Goes(r.c.buf, data, r.loc, st, act)
    <3>1. Jumps("JEQ", st.a, Right("K", name, st)) <=> st.a = name BY DEF Jumps, Right
    <3>2. Goes(l.c.buf, data, IF Jumps("JEQ", st.a, Right("K", name, st)) THEN l.loc ELSE entry, st, act)
      BY <2>7, <3>1
    <3> QED BY <2>3, <2>7, <3>2 DEF Branches
  <2>8. ASSUME ~code'.missed, NEW data, NEW st, NEW act, st.a # name,
               Goes(code.buf, data, entry, st, act)
        PROVE  Goes(code'.buf, data, entry', st, act)
    <3>1. Goes(l.c.buf, data, entry, st, act) BY <1>3, <2>8, GoesStill
    <3> QED BY <1>1, <2>7, <2>8, <3>1
  <2>9. ASSUME ~code'.missed, NEW data, NEW st, NEW act, st.a = name,
               Goes(l.c.buf, data, l.loc, st, act)
        PROVE  Goes(code'.buf, data, entry', st, act)
    BY <1>1, <2>7, <2>9
  <2>10. ~code'.missed => ~l.c.missed BY <1>1, <2>4
  <2> QED BY <2>6, <2>8, <2>9, <2>10 DEF l, name
<1> QED BY <1>4, <1>5

(* The text stays as it is.                                                *)
LEMMA TextStays == ASSUME [Next]_vars PROVE source' = source
<1>1. CASE CompileText BY <1>1, ParseStages
<1>2. CASE Next /\ ~CompileText BY <1>2, AfterParsing
<1>3. CASE UNCHANGED vars BY <1>3 DEF vars
<1> QED BY <1>1, <1>2, <1>3

(* While an architecture is compiled, calls of those that are not done are *)
(* killed.                                                                 *)
THEOREM ArchsOnTheirOwn == Spec => []ArchInv
<1>1. Init => ArchInv BY DEF Init, ArchInv, Collecting
<1>2. PolicyInv /\ RulesInv /\ LevelsInv /\ CodeInv /\ ArchInv /\ [Next]_vars => ArchInv'
  <2> SUFFICES ASSUME PolicyInv, RulesInv, LevelsInv, CodeInv, ArchInv, [Next]_vars PROVE ArchInv'
    OBVIOUS
  <2>0. TargetArchs' = TargetArchs BY TextStays DEF TargetArchs
  <2> SUFFICES ASSUME stage' \in Collecting, ~code'.missed
               PROVE  Kills(code'.buf, entry', TargetArchs \ todo')
    BY <2>0 DEF ArchInv
  <2>1. CASE BeginCode BY <2>1, KillsAll DEF BeginCode
  <2>2. CASE GenerateCode
    <3>1. stage \in Collecting /\ entry' = entry /\ todo' = todo
      BY <2>2, GenerateStages DEF GenerateCode, Collecting
    <3>2. Extends(code'.buf, code.buf) /\ ~code.missed BY <2>2, GeneratedAdds DEF Adds
    <3>3. Kills(code.buf, entry, TargetArchs \ todo) BY <3>1, <3>2 DEF ArchInv
    <3> QED BY <3>1, <3>2, <3>3, KillsStill
  <2>3. CASE FinishArch
    <3> DEFINE low == Lowest(todo)
    <3>1. stage \in Collecting /\ todo' = todo \ {low} BY <2>3 DEF FinishArch, Collecting
    <3>2. low \in TargetArchs
      <4>1. todo \subseteq TargetArchs /\ todo # {} BY <2>3 DEF FinishArch, PolicyInv, Collecting
      <4>2. todo \subseteq Nat BY <4>1, ArchNumbers
      <4>3. low \in todo BY <4>1, <4>2, LowestIn
      <4> QED BY <4>1, <4>3
    <3>3. ~code.missed BY <2>3, TargetChosen DEF Adds
    <3>4. Kills(code.buf, entry, TargetArchs \ todo) BY <3>1, <3>3 DEF ArchInv
    <3> HIDE DEF low
    <3> SUFFICES ASSUME NEW data, NEW st, \A a \in TargetArchs \ todo' : st.a # Archs[a]
                 PROVE  Goes(code'.buf, data, entry', st, ACTION_KILL)
      BY DEF Kills
    <3>5. st.a # Archs[low] /\ \A a \in TargetArchs \ todo : st.a # Archs[a] BY <3>1, <3>2
    <3>6. Goes(code.buf, data, entry, st, ACTION_KILL) BY <3>4, <3>5 DEF Kills
    <3> QED BY <2>3, <3>5, <3>6, TargetChosen DEF low
  <2>4. CASE FinishCode BY <2>4 DEF FinishCode, Finish, Collecting
  <2>5. CASE CompileText BY <2>5, ParseStages DEF Collecting
  <2>6. CASE \/ Validate \/ BeginArch \/ CollectRules \/ NormalizeRules \/ BeginRules \/ Returned
             \/ UNCHANGED vars
    <3>1. stage \in Collecting /\ UNCHANGED <<code, entry, todo>>
      <4>1. CASE Validate BY <4>1 DEF Validate, Finish, Collecting
      <4>2. CASE BeginArch BY <4>2 DEF BeginArch, genVars, Collecting
      <4>3. CASE CollectRules
        BY <4>3 DEF CollectRules, LeaveBody, UsePolicy, ActionEntry, RulesComplete, genVars, Collecting
      <4>4. CASE NormalizeRules BY <4>4, NormalizeStages DEF NormalizeRules, genVars, Collecting
      <4>5. CASE BeginRules BY <4>5 DEF BeginRules, Collecting
      <4>6. CASE Returned \/ UNCHANGED vars BY <4>6 DEF Returned, vars, normalVars, genVars, Collecting
      <4> QED BY <2>6, <4>1, <4>2, <4>3, <4>4, <4>5, <4>6
    <3>2. Kills(code.buf, entry, TargetArchs \ todo) BY <3>1 DEF ArchInv
    <3> QED BY <3>1, <3>2
  <2> QED BY <2>1, <2>2, <2>3, <2>4, <2>5, <2>6 DEF Next
<1> QED BY <1>1, <1>2, PoliciesKept, RulesKept, LevelsKept, CodeKept, PTL DEF Spec

-----------------------------------------------------------------------------
(* The finished program.                                                   *)

IsState(st) == st = [a |-> st.a, x |-> st.x, m |-> st.m]
Starting    == [a |-> 0, x |-> 0, m |-> <<>>]

(* Where the program starts (EntryNewest).                                 *)
StartsAt(b, loc) == IF loc >= 0 THEN loc = Len(b) - 2 ELSE b[Len(b)] = Ret(-loc)

(* What a load does to the machine.                                        *)
LEMMA LoadDoes ==
  ASSUME NEW st, IsState(st), NEW data, NEW from
  PROVE  LET x == Load(from) IN
         /\ x.op # "RET" /\ Skip(x, st) = 0 /\ ~Stuck(x, st)
         /\ Effect(x, st, data) = [a |-> data[from], x |-> st.x, m |-> st.m]
<1> DEFINE x == Load(from)
           t == [a |-> st.a, x |-> st.x, m |-> st.m]
           v == data[from]
<1>1. x.op = "LD" /\ x.k = from BY DEF Load
<1>2. st = t BY DEF IsState
<1> HIDE DEF x
<1>3. Effect(x, st, data) = [st EXCEPT !.a = v] BY <1>1 DEF Effect
<1>4. [t EXCEPT !.a = v] = [a |-> v, x |-> st.x, m |-> st.m]
  <2> HIDE DEF v
  <2> QED OBVIOUS
<1>5. [st EXCEPT !.a = v] = [t EXCEPT !.a = v] BY <1>2
<1>6. Skip(x, st) = 0 /\ ~Stuck(x, st) BY <1>1 DEF Skip, Stuck
<1> HIDE DEF t, v
<1>7. Effect(x, st, data) = [a |-> v, x |-> st.x, m |-> st.m] BY <1>3, <1>4, <1>5
<1> QED BY <1>1, <1>6, <1>7 DEF x, v

(* A load that is the newest instruction goes on before itself.            *)
LEMMA LoadGoes ==
  ASSUME NEW b, NEW n \in Nat, Len(b) = n + 1, NEW from, b[n + 1] = Load(from),
         NEW loc, loc = n - 1, loc >= 0, NEW st, IsState(st), NEW data, NEW act,
         Goes(b, data, loc, [a |-> data[from], x |-> st.x, m |-> st.m], act)
  PROVE  Yields(b, data, n, st, act)
<1> DEFINE t == [a |-> data[from], x |-> st.x, m |-> st.m]
           x == Load(from)
<1>1. x.op # "RET" /\ Skip(x, st) = 0 /\ ~Stuck(x, st) /\ Effect(x, st, data) = t BY LoadDoes
<1> HIDE DEF t, x
<1>2. Yields(b, data, loc, t, act)
  <2>1. ~(loc < 0) OBVIOUS
  <2> QED BY <2>1 DEF Goes, t
<1>3. n \in 0..(Len(b) - 1) /\ n - 1 - 0 = loc OBVIOUS
<1>4. b[n + 1] = x BY DEF x
<1> QED BY <1>1, <1>2, <1>3, <1>4, YieldsLater

(* The program starts with the architecture in the accumulator.            *)
LEMMA ProgramStarts ==
  ASSUME CodeInv, FinishCode, StartsAt(code'.buf, entry'), NEW data, NEW st, IsState(st), NEW act,
         Goes(code.buf, data, entry, [a |-> data["arch"], x |-> st.x, m |-> st.m], act)
  PROVE  Yields(code'.buf, data, Len(code'.buf) - 1, st, act)
<1> DEFINE n == Len(code.buf)
<1>1. CtxOK(code) /\ Rests(code.buf, 0) /\ n \in Nat /\ entry \in Locs(n)
  <2>1. stage \in Collecting BY DEF FinishCode, Collecting
  <2>2. CtxOK(code) /\ Rests(code.buf, 0) /\ entry \in Locs(n) BY <2>1 DEF CodeInv
  <2> QED BY <2>2, CodeLength
<1>2. entry' = entry BY DEF FinishCode
<1>3. CASE entry >= 0
  <2> DEFINE x == Load("arch")
  <2>1. code' = Add(code, x) /\ ~(entry < 0)
    <3>1. \A e \in Int : e >= 0 => ~(e < 0) OBVIOUS
    <3>2. entry \in Int
      <4>1. \A a \in Actions : -a \in Int BY ActionRange
      <4> HIDE DEF n
      <4> QED BY <1>1, <4>1 DEF Locs
    <3>3. ~(entry < 0) BY <1>3, <3>1, <3>2
    <3> QED BY <1>3, <3>3 DEF FinishCode
  <2> HIDE DEF x
  <2>2. Noted(code, code) BY DEF Noted
  <2>3. code'.buf = Append(code.buf, x) BY <1>1, <2>1, <2>2, NoteAdded
  <2>4. /\ Extends(Append(code.buf, x), code.buf) /\ Len(Append(code.buf, x)) = n + 1
        /\ Append(code.buf, x)[n + 1] = x
    BY <1>1, OneMore
  <2> DEFINE b == code'.buf
             t == [a |-> data["arch"], x |-> st.x, m |-> st.m]
  <2>5. Extends(b, code.buf) /\ Len(b) = n + 1 /\ b[n + 1] = x BY <2>3, <2>4
  <2> HIDE DEF t
  <2>6. Goes(b, data, entry, t, act)
    <3>1. Goes(code.buf, data, entry, t, act) BY DEF t
    <3> HIDE DEF b
    <3> QED BY <2>5, <3>1, GoesStill
  <2>7. entry = Len(b) - 2 BY <1>2, <1>3 DEF StartsAt
  <2> HIDE DEF b, n
  <2>8. entry = n - 1 /\ Len(b) - 1 = n BY <1>1, <2>5, <2>7
  <2>9. Yields(b, data, n, st, act) BY <1>1, <1>3, <2>5, <2>6, <2>8, LoadGoes DEF t, x
  <2> QED BY <2>8, <2>9 DEF b
<1>4. CASE ~(entry >= 0)
  <2> DEFINE r == ResolveLocation(code, entry)
  <2>0. entry < 0
    <3>1. \A e \in Int : ~(e >= 0) => e < 0 OBVIOUS
    <3>2. entry \in Int
      <4>1. \A a \in Actions : -a \in Int BY ActionRange
      <4> HIDE DEF n
      <4> QED BY <1>1, <4>1 DEF Locs
    <3> QED BY <1>4, <3>1, <3>2
  <2>1. code' = r.c BY <1>4, <2>0 DEF FinishCode
  <2>2. Rests(code.buf, 2)
    <3>1. PICK I : code.buf \in Seq(I) BY <1>1 DEF CtxOK
    <3>2. 0 \in 0..2 /\ 1 \in 0..2 /\ 2 \in 0..2 /\ 0 + 1 = 1 /\ 1 + 1 = 2 OBVIOUS
    <3>3. Rests(code.buf, 1) BY <1>1, <3>1, <3>2, RestsStep
    <3>4. Rests(code.buf, 1 + 1) BY <3>1, <3>2, <3>3, RestsStep
    <3> QED BY <3>2, <3>4
  <2>3. Resolves(code, r, entry) BY <1>1, <2>2, LocationResolved
  <2> HIDE DEF r
  <2> DEFINE b == code'.buf
             m == Len(b)
  <2>4. r.loc \in 0..(m - 1) /\ m \in Nat BY <2>1, <2>3 DEF Resolves, Extends
  <2>5. b[m] = Ret(-entry) BY <1>2, <1>4 DEF StartsAt
  <2>6. act = -entry BY <2>0 DEF Goes
  <2> HIDE DEF b, m
  <2>7. m - 1 \in 0..(m - 1) /\ (m - 1) + 1 = m BY <2>4
  <2>8. Yields(b, data, m - 1, st, act)
    <3>1. Len(b) = m BY DEF m
    <3> QED BY <2>5, <2>6, <2>7, <3>1, YieldsHere
  <2> QED BY <2>8 DEF b, m
<1> QED BY <1>3, <1>4

(* What the program is: the code, turned round, run from its first         *)
(* instruction to a return.                                                *)
Reversed(b) == [k \in 1..Len(b) |-> b[Len(b) + 1 - k]]

Running(prog, data, q, n) ==
  /\ \A k \in 1..n : q[k].pc \in DOMAIN prog /\ ~Stuck(prog[q[k].pc], q[k].st)
  /\ \A k \in 1..(n - 1) :
       /\ prog[q[k].pc].op # "RET"
       /\ q[k + 1] = [pc |-> q[k].pc + 1 + Skip(prog[q[k].pc], q[k].st),
                      st |-> Effect(prog[q[k].pc], q[k].st, data)]

DecidesCall(prog, data, act) ==
  \E n \in Nat \ {0} : \E q : /\ Running(prog, data, q, n) /\ q[1] = [pc |-> 1, st |-> Starting]
                               /\ prog[q[n].pc] = Ret(act)

(* The program runs as the code does.                                      *)
LEMMA ProgramRuns ==
  ASSUME NEW b, Len(b) \in Nat, NEW data, NEW act, Yields(b, data, Len(b) - 1, Starting, act)
  PROVE  DecidesCall(Reversed(b), data, act)
<1> DEFINE m == Len(b)
           prog == Reversed(b)
<1>0. PICK n \in Nat \ {0} : \E p : /\ Execution(b, data, p, n)
                                     /\ p[1] = [loc |-> m - 1, st |-> Starting]
                                     /\ b[p[n].loc + 1] = Ret(act)
  BY DEF Yields
<1>1. PICK p : /\ Execution(b, data, p, n) /\ p[1] = [loc |-> m - 1, st |-> Starting]
               /\ b[p[n].loc + 1] = Ret(act)
  BY <1>0
<1> DEFINE q == [k \in 1..n |-> [pc |-> m - p[k].loc, st |-> p[k].st]]
<1>2. \A k \in 1..n : q[k].pc = m - p[k].loc /\ q[k].st = p[k].st
                      /\ q[k] = [pc |-> m - p[k].loc, st |-> p[k].st]
  OBVIOUS
<1>3. DOMAIN prog = 1..m /\ \A x \in 1..m : prog[x] = b[m + 1 - x] BY DEF Reversed
<1> HIDE DEF m, q, prog
<1>4. m \in Nat BY DEF m
<1>5. ASSUME NEW k \in 1..n
      PROVE  /\ q[k].pc \in 1..m /\ prog[q[k].pc] = b[p[k].loc + 1] /\ p[k].loc \in 0..(m - 1)
             /\ ~Stuck(prog[q[k].pc], q[k].st)
  <2>1. p[k].loc \in 0..(m - 1) /\ ~Stuck(b[p[k].loc + 1], p[k].st) BY <1>1 DEF Execution, m
  <2> DEFINE x == p[k].loc
  <2>2. x \in 0..(m - 1) /\ q[k].pc = m - x BY <1>2, <2>1
  <2> HIDE DEF x
  <2>3. m - x \in 1..m /\ m + 1 - (m - x) = x + 1 BY <1>4, <2>2
  <2>4. prog[q[k].pc] = b[x + 1] BY <1>3, <2>2, <2>3
  <2> QED BY <1>2, <2>1, <2>2, <2>3, <2>4 DEF x
<1>6. ASSUME NEW k \in 1..(n - 1)
      PROVE  /\ prog[q[k].pc].op # "RET"
             /\ q[k + 1] = [pc |-> q[k].pc + 1 + Skip(prog[q[k].pc], q[k].st),
                            st |-> Effect(prog[q[k].pc], q[k].st, data)]
  <2>1. k \in 1..n /\ k + 1 \in 1..n BY <1>1
  <2>2. /\ b[p[k].loc + 1].op # "RET" /\ Skip(b[p[k].loc + 1], p[k].st) \in Nat
        /\ p[k + 1] = Onward(b, data, p[k])
    BY <1>1 DEF Execution
  <2> DEFINE ins == b[p[k].loc + 1]
             x == p[k].loc
             s == Skip(ins, p[k].st)
             t == Effect(ins, p[k].st, data)
  <2>3. p[k + 1] = [loc |-> x - 1 - s, st |-> t] BY <2>2 DEF Onward
  <2>4. prog[q[k].pc] = ins /\ q[k].st = p[k].st /\ q[k].pc = m - x /\ x \in 0..(m - 1) /\ s \in Nat
    BY <1>2, <1>5, <2>1, <2>2
  <2> HIDE DEF ins, s, t, x
  <2>5. p[k + 1].loc = x - 1 - s /\ p[k + 1].st = t BY <2>3
  <2>6. q[k + 1] = [pc |-> m - (x - 1 - s), st |-> t] BY <1>2, <2>1, <2>5
  <2>7. x - 1 - s \in 0..(m - 1) BY <1>5, <2>1, <2>5
  <2>8. m - (x - 1 - s) = m - x + 1 + s BY <1>4, <2>4, <2>7
  <2> QED BY <2>2, <2>4, <2>6, <2>8 DEF ins, s, t, x
<1>7. n \in 1..n /\ 1 \in 1..n BY <1>0
<1>8. Running(prog, data, q, n) BY <1>3, <1>5, <1>6 DEF Running
<1>9. q[1] = [pc |-> 1, st |-> Starting]
  <2>1. p[1].loc = m - 1 /\ p[1].st = Starting BY <1>1
  <2>2. m - (m - 1) = 1 BY <1>4
  <2> QED BY <1>2, <1>7, <2>1, <2>2
<1>10. prog[q[n].pc] = Ret(act) BY <1>1, <1>5, <1>7
<1> QED BY <1>0, <1>8, <1>9, <1>10 DEF DecidesCall, prog

ProgramsInv ==
  /\ \E P : programs \in Seq(P)
  /\ stage = "done" /\ result = "ok" =>
       /\ programs # <<>> /\ programs[Len(programs)] = Reversed(code.buf)

(* Calls of an architecture that is no target. *)
Foreign(data) == \A a \in TargetArchs : data["arch"] # Archs[a]

ForeignDead ==
  stage = "done" /\ result = "ok" /\ ~code.missed /\ EntryNewest =>
    \A data : Foreign(data) => DecidesCall(programs[Len(programs)], data, ACTION_KILL)

(* A call that parses, or gives up, is not done with success.              *)
LEMMA ParsingUndone == ASSUME TextInv, CompileText, stage' = "done" PROVE result' # "ok"
<1>1. CASE Compile BY <1>1 DEF Compile
<1>2. CASE Parse
  <2>1. stage = "parse"
    BY <1>2 DEF Parse, DefineConst, DefinePolicy, MainStatements, DefaultAction, Include,
                EndOfInput, Reading
  <2>2. result = "none" BY <2>1 DEF TextInv
  <2>3. CASE DefineConst BY <2>1, <2>2, <2>3 DEF DefineConst, GiveUp, Next1, Finish
  <2>4. CASE DefinePolicy BY <2>1, <2>2, <2>4 DEF DefinePolicy, GiveUp, Next1, Finish
  <2>5. CASE MainStatements BY <2>1, <2>2, <2>5 DEF MainStatements, GiveUp, Next1, Finish
  <2>6. CASE DefaultAction BY <2>1, <2>2, <2>6 DEF DefaultAction, GiveUp, Next1, Finish
  <2>7. CASE Include BY <2>1, <2>2, <2>7 DEF Include, GiveUp, Finish
  <2>8. CASE EndOfInput BY <2>1, <2>2, <2>8 DEF EndOfInput, Finish
  <2> QED BY <1>2, <2>3, <2>4, <2>5, <2>6, <2>7, <2>8 DEF Parse
<1> QED BY <1>1, <1>2 DEF CompileText

(* The load in front of the finished program, or the return it consists of. *)
LEMMA FinishAdds == ASSUME CodeInv, FinishCode PROVE Adds(code, code')
<1>0. stage \in Collecting BY DEF FinishCode, Collecting
<1>1. CtxOK(code) /\ Rests(code.buf, 0) /\ entry \in Locs(Len(code.buf)) BY <1>0 DEF CodeInv
<1>2. Noted(code, code) BY DEF Noted
<1>3. CASE entry < 0 /\ entry >= 0
  <2>1. \A e \in Int : ~(e < 0 /\ e >= 0) OBVIOUS
  <2>2. entry \in Int
    <3>1. \A a \in Actions : -a \in Int BY ActionRange
    <3>2. Len(code.buf) \in Nat BY <1>1, CodeLength
    <3> QED BY <1>1, <3>1, <3>2 DEF Locs
  <2> QED BY <1>3, <2>1, <2>2
<1>4. CASE ~(entry < 0) /\ entry >= 0
  <2>1. code' = Add(code, Load("arch")) BY <1>4 DEF FinishCode
  <2> QED BY <1>1, <1>2, <2>1, OneAdds
<1>5. CASE ~(entry < 0) /\ ~(entry >= 0)
  <2>1. code' = code BY <1>5 DEF FinishCode
  <2> QED BY <1>1, <1>2, <2>1, OneAdds
<1>6. CASE entry < 0 /\ ~(entry >= 0)
  <2> DEFINE r == ResolveLocation(code, entry)
  <2>1. code' = r.c BY <1>6 DEF FinishCode
  <2>2. Rests(code.buf, 2)
    <3>1. PICK I : code.buf \in Seq(I) BY <1>1 DEF CtxOK
    <3>2. 0 \in 0..2 /\ 1 \in 0..2 /\ 2 \in 0..2 /\ 0 + 1 = 1 /\ 1 + 1 = 2 OBVIOUS
    <3>3. Rests(code.buf, 1) BY <1>1, <3>1, <3>2, RestsStep
    <3>4. Rests(code.buf, 1 + 1) BY <3>1, <3>2, <3>3, RestsStep
    <3> QED BY <3>2, <3>4
  <2>3. Resolves(code, r, entry) BY <1>1, <2>2, LocationResolved
  <2> HIDE DEF r
  <2>4. Adds(code, r.c) BY <2>3 DEF Resolves, Adds
  <2> QED BY <2>1, <2>4
<1> QED BY <1>3, <1>4, <1>5, <1>6

(* The finished program decides as what goes on at the entry does.         *)
LEMMA CallFinished ==
  ASSUME CodeInv, FinishCode, StartsAt(code'.buf, entry'), NEW data, NEW act,
         Goes(code.buf, data, entry, [a |-> data["arch"], x |-> Starting.x, m |-> Starting.m], act)
  PROVE  DecidesCall(Reversed(code'.buf), data, act)
<1> DEFINE b == code'.buf
<1>1. IsState(Starting) BY DEF IsState, Starting
<1>2. Yields(b, data, Len(b) - 1, Starting, act) BY <1>1, ProgramStarts
<1>3. Len(b) \in Nat BY FinishAdds DEF Adds, Extends
<1> HIDE DEF b
<1>4. DecidesCall(Reversed(b), data, act) BY <1>2, <1>3, ProgramRuns
<1> QED BY <1>4 DEF b

(* The finished program kills the calls of other architectures.            *)
LEMMA ForeignFinished ==
  ASSUME PolicyInv, CodeInv, ArchInv, FinishCode, ~code'.missed, StartsAt(code'.buf, entry'),
         NEW data, Foreign(data)
  PROVE  DecidesCall(Reversed(code'.buf), data, ACTION_KILL)
<1> DEFINE t == [a |-> data["arch"], x |-> Starting.x, m |-> Starting.m]
<1>1. stage \in Collecting /\ todo = {} BY DEF FinishCode, Collecting
<1>2. ~code.missed BY FinishAdds DEF Adds
<1>3. Kills(code.buf, entry, TargetArchs \ todo) BY <1>1, <1>2 DEF ArchInv
<1>4. Goes(code.buf, data, entry, t, ACTION_KILL)
  <2>1. t.a = data["arch"] OBVIOUS
  <2> HIDE DEF t
  <2>2. \A a \in TargetArchs \ todo : t.a # Archs[a] BY <1>1, <2>1 DEF Foreign
  <2> QED BY <1>3, <2>2 DEF Kills
<1> QED BY <1>4, CallFinished

(* The last program is the code, turned round, and kills foreign calls.    *)
THEOREM ProgramsKept == Spec => [](ProgramsInv /\ ForeignDead)
<1> DEFINE I == ProgramsInv /\ ForeignDead
<1>1. Init => I
  <2> SUFFICES ASSUME Init PROVE I OBVIOUS
  <2>1. stage = "idle" /\ programs = <<>> BY DEF Init
  <2>2. programs \in Seq({}) BY <2>1
  <2> QED BY <2>1, <2>2 DEF ProgramsInv, ForeignDead
<1>2. TextInv /\ PolicyInv /\ CodeInv /\ ArchInv /\ I /\ [Next]_vars => I'
  <2> SUFFICES ASSUME TextInv, PolicyInv, CodeInv, ArchInv, I, [Next]_vars PROVE I' OBVIOUS
  <2>1. PICK P : programs \in Seq(P) BY DEF ProgramsInv
  <2>2. TargetArchs' = TargetArchs BY TextStays DEF TargetArchs
  <2>3. CASE FinishCode /\ result' = "ok"
    <3> DEFINE b == code'.buf
    <3>1. stage' = "done" BY <2>3 DEF FinishCode, Finish
    <3>2. programs' = Append(programs, Reversed(b))
      BY <2>3 DEF FinishCode, Finish, Reversed
    <3>3. /\ programs' \in Seq(P \cup {Reversed(b)}) /\ programs' # <<>>
          /\ programs'[Len(programs')] = Reversed(b)
      <4> DEFINE x == Reversed(b)
      <4> HIDE DEF x
      <4>1. programs \in Seq(P \cup {x}) BY <2>1, SeqGrows, P \subseteq P \cup {x}
      <4>2. programs' = Append(programs, x) BY <3>2 DEF x
      <4> QED BY <4>1, <4>2 DEF x
    <3>4. ASSUME ~code'.missed, EntryNewest', NEW data, Foreign(data)
          PROVE  DecidesCall(Reversed(b), data, ACTION_KILL)
      <4>1. StartsAt(b, entry') BY <2>3, <3>1, <3>4 DEF EntryNewest, StartsAt
      <4> QED BY <2>3, <3>4, <4>1, ForeignFinished
    <3> HIDE DEF b
    <3>5. ForeignDead'
      <4>1. \A data : Foreign(data)' <=> Foreign(data) BY <2>2 DEF Foreign
      <4>2. (~code.missed /\ EntryNewest)' =>
              \A data : Foreign(data) => DecidesCall(programs'[Len(programs')], data, ACTION_KILL)
        BY <3>3, <3>4
      <4> QED BY <4>1, <4>2 DEF ForeignDead
    <3>6. ProgramsInv'
      <4>1. \E Q : programs' \in Seq(Q) BY <3>3
      <4>2. programs' # <<>> /\ programs'[Len(programs')] = Reversed(code'.buf) BY <3>3 DEF b
      <4> QED BY <4>1, <4>2 DEF ProgramsInv
    <3> QED BY <3>5, <3>6
  <2>4. CASE Returned \/ UNCHANGED vars
    <3>1. UNCHANGED <<stage, result, code, entry, programs, source>>
      BY <2>4 DEF Returned, vars, normalVars, frontVars, genVars
    <3>2. ProgramsInv' BY <3>1 DEF ProgramsInv
    <3>3. ForeignDead'
      <4>1. EntryNewest' = EntryNewest BY <3>1 DEF EntryNewest
      <4>2. \A data : Foreign(data)' <=> Foreign(data) BY <2>2 DEF Foreign
      <4> QED BY <3>1, <4>1, <4>2 DEF ForeignDead
    <3> QED BY <3>2, <3>3
  <2>5. CASE Next /\ ~Returned /\ ~(FinishCode /\ result' = "ok")
    <3>1. ~(stage' = "done" /\ result' = "ok") /\ programs' = programs
      <4>1. CASE CompileText BY <4>1, ParseStages, ParsingUndone DEF genVars
      <4>2. CASE FinishCode BY <2>5, <4>2 DEF FinishCode, Finish
      <4>3. CASE Validate BY <4>3 DEF Validate, Finish, genVars
      <4>4. CASE BeginCode BY <4>4 DEF BeginCode
      <4>5. CASE BeginArch BY <4>5 DEF BeginArch, genVars
      <4>6. CASE CollectRules
        BY <4>6 DEF CollectRules, LeaveBody, UsePolicy, ActionEntry, RulesComplete, genVars
      <4>7. CASE NormalizeRules BY <4>7, NormalizeStages DEF NormalizeRules, genVars
      <4>8. CASE BeginRules BY <4>8 DEF BeginRules
      <4>9. CASE GenerateCode BY <4>9, GenerateStages DEF GenerateCode
      <4>10. CASE FinishArch BY <4>10 DEF FinishArch
      <4> QED BY <2>5, <4>1, <4>2, <4>3, <4>4, <4>5, <4>6, <4>7, <4>8, <4>9, <4>10 DEF Next
    <3>2. ProgramsInv' BY <2>1, <3>1 DEF ProgramsInv
    <3>3. ForeignDead' BY <3>1 DEF ForeignDead
    <3> QED BY <3>2, <3>3
  <2> QED BY <2>3, <2>4, <2>5
<1> QED BY <1>1, <1>2, TextKept, PoliciesKept, CodeKept, ArchsOnTheirOwn, PTL DEF Spec

(* The program of a text that compiles kills every call of an architecture *)
(* that is no target, whatever the policies say; there is one when it      *)
(* starts with its last instruction and its jumps fit (compile_policy_impl *)
(* starts from the action kill and puts each target in front).             *)
THEOREM ForeignKilled == Spec => []ForeignDead
BY ProgramsKept, PTL

-----------------------------------------------------------------------------
(* generate_rules keeps the tree right.                                    *)

(* Neighbours go on at different places. *)
Differ(ls) == \A k \in 1..(Len(ls) - 1) : ls[k].action # ls[k + 1].action

(* The subtrees are for the d last ranges, and answer their calls. *)
TreeOK(b, ls, rs, d) ==
  /\ BeginAt(ls, Base(rs, d)) /\ \A data : Answered(b, data, ls, Wanted(rs, d, data))
  /\ Differ(ls) /\ (ls = <<>> => d = 0)

AllConditional(rs, d) == \A m \in 1..Len(rs) : m > Len(rs) - d => IsConditional(rs[m])

(* A tree that is one place in the code is what was written last, unless   *)
(* all its rules have expressions. *)
TreeInv ==
  stage \in Generating =>
    /\ RangesOK(rules) /\ FromBase(rules, done)
    /\ stage \in {"action", "join"} /\ ~IsConditional(LastRule) => next = -LastRule.action
    /\ Fits(code) =>
         /\ TreeOK(code.buf, levels, rules, done)
         /\ stage = "join" => levels = <<>> \/ levels[Len(levels)].action # next
         /\ stage # "join" /\ Len(levels) = 1 /\ levels[1].action >= 0 =>
              \/ stage = "generate" /\ done = Len(rules) /\ levels[1].action = CurrentLoc(code)
              \/ AllConditional(rules, done)

(* The ranges that normalize_rules makes.                                  *)
LEMMA RangesReady == ASSUME RulesInv, stage = "normalized" PROVE RangesOK(rules)
<1>1. (\E E : rules \in Seq(RuleType(E, Actions))) /\ rules # <<>> BY DEF RulesInv
<1>2. NormalizedRules BY DEF RulesInv, NormalInv
<1>3. PICK E : rules \in Seq(RuleType(E, Actions)) BY <1>1
<1>4. DOMAIN rules = 1..Len(rules) BY <1>3
<1> QED BY <1>1, <1>2, <1>4 DEF NormalizedRules, RangesOK

(* Where the ranges that are done begin is a number.                       *)
LEMMA BaseNumber ==
  ASSUME NEW rs, RangesOK(rs), NEW d \in Nat, d <= Len(rs)
  PROVE  Base(rs, d) \in Nat /\ Len(rs) \in Nat /\ \A data : \A w \in Wanted(rs, d, data) : w[1] \in Nat
<1>1. PICK E : rs \in Seq(RuleType(E, Actions)) BY DEF RangesOK
<1>2. Len(rs) \in Nat BY <1>1
<1>3. MAX_SYSCALL_NR \in Nat BY MaxSyscallNr
<1>6. \A data : \A w \in Wanted(rs, d, data) : w[1] \in Nat BY DEF Wanted
<1>4. CASE d = 0 BY <1>2, <1>3, <1>4, <1>6 DEF Base
<1>5. CASE d # 0
  <2> DEFINE p == Len(rs) - d + 1
  <2>1. p \in 1..Len(rs) BY <1>2, <1>5
  <2>2. rs[p] \in RuleType(E, Actions) BY <1>1, <2>1
  <2>3. rs[p].first \in Nat BY <1>3, <2>2 DEF RuleType, Numbers
  <2> QED BY <1>2, <1>5, <2>3, <1>6 DEF Base
<1> QED BY <1>4, <1>5

(* Where all calls that the range r has an action for go on to it.         *)
LeadsAll(b, r, loc) == \A data, act : Takes(r, data, act) => Leads(b, data, act, loc)

(* The range below those that are done is answered there.                  *)
LEMMA NextAbove ==
  ASSUME NEW b, NEW rs, NEW d \in Nat, d < Len(rs), RangesOK(rs), FromBase(rs, d), NEW loc,
         LeadsAll(b, rs[Len(rs) - d], loc), NEW data
  PROVE  Above(b, data, Wanted(rs, d + 1, data), Base(rs, d), rs[Len(rs) - d].first, loc)
<1> DEFINE r == rs[Len(rs) - d]
           base == Base(rs, d)
           U == Wanted(rs, d + 1, data)
<1>1. \A w \in U : w[1] \in Nat /\ (w[1] >= base \/ (r.first <= w[1] /\ w[1] < base /\ Takes(r, data, w[2])))
  BY NextRange
<1>2. \A act, nr : Takes(r, data, act) => Answers(b, data, loc, nr, act) BY DEF LeadsAll, Leads, Answers
<1> HIDE DEF r, base, U
<1>3. Above(b, data, U, base, r.first, loc) BY <1>1, <1>2 DEF Above
<1> QED BY <1>3 DEF r, base, U

(* A range joins the last subtree.                                         *)
LEMMA TreeWider ==
  ASSUME NEW b, NEW ls, NEW rs, NEW d \in Nat, d < Len(rs), RangesOK(rs), FromBase(rs, d),
         TreeOK(b, ls, rs, d), ls # <<>>, NEW loc, ls[Len(ls)].action = loc,
         LeadsAll(b, rs[Len(rs) - d], loc)
  PROVE  LET t == Widened(ls, rs[Len(rs) - d].first)
         IN /\ TreeOK(b, t, rs, d + 1) /\ Len(t) = Len(ls)
            /\ \A k \in 1..Len(ls) : t[k].action = ls[k].action
<1> DEFINE nr == rs[Len(rs) - d].first
           base == Base(rs, d)
           W(data) == Wanted(rs, d, data)
           U(data) == Wanted(rs, d + 1, data)
           t == Widened(ls, nr)
<1>1. nr \in Nat /\ base \in Nat /\ nr < base /\ Base(rs, d + 1) = nr BY NextRange
<1>1a. \A data : \A w \in U(data) : w[1] >= base => w \in W(data) BY NextRange
<1>2. \A data : Above(b, data, U(data), base, nr, ls[Len(ls)].action) BY NextAbove
<1>3. BeginAt(ls, base) /\ (\A data : Answered(b, data, ls, W(data))) /\ Differ(ls) BY DEF TreeOK
<1> HIDE DEF nr, base, W, U
<1>4a. ASSUME NEW data
       PROVE  BeginAt(t, nr) /\ Answered(b, data, t, U(data)) /\ Len(t) = Len(ls) /\ SameActions(t, ls)
  <2>1. Below(b, data, ls, base, nr, W(data), U(data), ls[Len(ls)].action)
    BY <1>1, <1>1a, <1>2, <1>3 DEF Below
  <2>2. ls # <<>> OBVIOUS
  <2> QED BY <2>1, <2>2, RangeWider
<1>4. /\ BeginAt(t, nr) /\ (\A data : Answered(b, data, t, U(data))) /\ Len(t) = Len(ls)
      /\ \A k \in 1..Len(ls) : t[k].action = ls[k].action
  BY <1>4a DEF SameActions
<1>5. Len(ls) \in Nat /\ Len(ls) # 0
  <2>1. PICK L : ls \in Seq(LevelType(Nat, L)) BY <1>3 DEF BeginAt
  <2> QED BY <2>1
<1> HIDE DEF t
<1>6. Differ(t)
  <2>1. \A k \in 1..(Len(ls) - 1) : k \in 1..Len(ls) /\ k + 1 \in 1..Len(ls) BY <1>5
  <2> QED BY <1>3, <1>4, <2>1 DEF Differ
<1>7. t # <<>>
  <2>1. t = <<>> => Len(t) = 0 OBVIOUS
  <2> QED BY <1>4, <1>5, <2>1
<1>8. TreeOK(b, t, rs, d + 1) BY <1>1, <1>4, <1>6, <1>7 DEF TreeOK, U
<1> QED BY <1>4, <1>8 DEF t, nr

(* A range gets a subtree of its own.                                      *)
WithSubtree(ls, nr, loc) == Append(ls, Level(0, nr, loc))
NoNeighbour(ls, loc) == ls = <<>> \/ ls[Len(ls)].action # loc

(* A subtree more answers for one range more.                              *)
LEMMA TreeMore ==
  ASSUME NEW b, NEW ls, NEW rs, NEW d \in Nat, d < Len(rs), RangesOK(rs), FromBase(rs, d),
         TreeOK(b, ls, rs, d), NEW loc, NoNeighbour(ls, loc), LeadsAll(b, rs[Len(rs) - d], loc)
  PROVE  LET t == WithSubtree(ls, rs[Len(rs) - d].first, loc)
         IN /\ TreeOK(b, t, rs, d + 1) /\ Len(t) = Len(ls) + 1 /\ Len(ls) \in Nat
            /\ t[Len(ls) + 1].action = loc
<1> DEFINE nr == rs[Len(rs) - d].first
           base == Base(rs, d)
           W(data) == Wanted(rs, d, data)
           U(data) == Wanted(rs, d + 1, data)
           t == WithSubtree(ls, nr, loc)
<1>1. nr \in Nat /\ base \in Nat /\ nr < base /\ Base(rs, d + 1) = nr BY NextRange
<1>1a. \A data : \A w \in U(data) : w[1] >= base => w \in W(data) BY NextRange
<1>2. \A data : Above(b, data, U(data), base, nr, loc) BY NextAbove
<1>3. BeginAt(ls, base) /\ (\A data : Answered(b, data, ls, W(data))) /\ Differ(ls) BY DEF TreeOK
<1> HIDE DEF nr, base, W, U
<1>4a. ASSUME NEW data
       PROVE  /\ BeginAt(t, nr) /\ Answered(b, data, t, U(data)) /\ Len(t) = Len(ls) + 1 /\ Len(ls) \in Nat
              /\ t[Len(ls) + 1].action = loc
              /\ \A k \in 1..Len(ls) : t[k].action = ls[k].action
  <2>1. Below(b, data, ls, base, nr, W(data), U(data), loc) BY <1>1, <1>1a, <1>2, <1>3 DEF Below
  <2> QED BY <2>1, SubtreeAdded DEF t, WithSubtree
<1>4. /\ BeginAt(t, nr) /\ (\A data : Answered(b, data, t, U(data)))
      /\ Len(t) = Len(ls) + 1 /\ Len(ls) \in Nat
      /\ t[Len(ls) + 1].action = loc
      /\ \A k \in 1..Len(ls) : t[k].action = ls[k].action
  BY <1>4a
<1>5. ls = <<>> <=> Len(ls) = 0
  <2>1. PICK L : ls \in Seq(LevelType(Nat, L)) BY <1>3 DEF BeginAt
  <2> QED BY <2>1
<1> DEFINE n == Len(ls)
<1>6. n \in Nat /\ (n = 0 \/ ls[n].action # loc) BY <1>4, <1>5 DEF NoNeighbour
<1> HIDE DEF t
<1>7. Differ(t)
  <2> SUFFICES ASSUME NEW k \in 1..n PROVE t[k].action # t[k + 1].action
    <3>1. Len(t) - 1 = n BY <1>4
    <3> QED BY <3>1 DEF Differ
  <2>1. CASE k = n
    <3>1. n # 0 BY <1>6
    <3> QED BY <1>4, <1>6, <2>1, <3>1
  <2>2. CASE k # n
    <3>1. k \in 1..(n - 1) /\ k + 1 \in 1..n BY <1>6, <2>2
    <3> QED BY <1>3, <1>4, <3>1 DEF Differ
  <2> QED BY <2>1, <2>2
<1>8. t # <<>>
  <2>1. t = <<>> => Len(t) = 0 OBVIOUS
  <2> QED BY <1>4, <1>6, <2>1
<1>9. TreeOK(b, t, rs, d + 1) BY <1>1, <1>4, <1>7, <1>8 DEF TreeOK, U
<1> QED BY <1>4, <1>9 DEF t, nr

(* Two subtrees are joined; where they go on is the newest instruction.    *)
LEMMA TreeJoined ==
  ASSUME CodeInv, TreeInv, stage \in Generating, Len(levels) >= 2, NEW h, JoinLast(h),
         \/ h = levels[Len(levels)].level + 1
         \/ h = levels[Len(levels) - 1].level,
         Fits(code')
  PROVE  /\ Fits(code) /\ TreeOK(code'.buf, levels', rules, done)
         /\ Len(levels') = Len(levels) - 1 /\ Len(levels) \in Nat
         /\ levels'[Len(levels')].action = CurrentLoc(code')
         /\ CurrentLoc(code') \notin Locs(Len(code.buf))
<1> DEFINE n == Len(levels)
           m == Len(code.buf)
           b == code.buf
           k == levels[n - 1].nr
           u == levels[n - 1].action
           f == levels[n].action
           r == AddJump(code, "JGE", "K", k, u, f)
           d == r.c.buf
           base == Base(rules, done)
           W(data) == Wanted(rules, done, data)
           t == Joined(levels, h, r.loc)
<1>1. code' = r.c /\ levels' = t BY DEF JoinLast, Joined
<1>2. CtxOK(code) /\ Rests(code.buf, 0) /\ m \in Nat /\ done \in Nat /\ done <= Len(rules)
  <2>1. stage \in Collecting BY DEF Generating, Collecting
  <2>2. CtxOK(code) /\ Rests(code.buf, 0) /\ done \in Nat BY <2>1 DEF CodeInv
  <2>3. Len(rules) \in Nat
    <3>1. PICK E : rules \in Seq(RuleType(E, Actions)) BY DEF TreeInv, RangesOK
    <3> QED BY <3>1
  <2>4. done <= Len(rules) BY <2>2, <2>3 DEF CodeInv, Generating
  <2> QED BY <2>2, <2>4, CodeLength
<1>3. PICK N, L : levels \in Seq(LevelType(N, L)) /\ L \subseteq Locs(m) BY DEF CodeInv, LevelsIn
<1>4. /\ n \in Nat /\ n - 1 \in 1..n /\ n \in 1..n /\ n >= 2
      /\ levels[n - 1] \in LevelType(N, L) /\ levels[n] \in LevelType(N, L)
      /\ \A x \in 1..n : levels[x] \in LevelType(N, L)
  <2>1. n \in Nat /\ n - 1 \in 1..n /\ n \in 1..n /\ n >= 2 BY <1>3
  <2>2. \A x \in 1..n : levels[x] \in LevelType(N, L) BY <1>3
  <2> QED BY <2>1, <2>2
<1>5. u \in Locs(m) /\ f \in Locs(m) /\ h \in Nat BY <1>3, <1>4 DEF LevelType
<1>6. "JGE" \in BranchTypes /\ "K" \in {"K", "X"} BY DEF BranchTypes
<1>7. Branches(code, r, "JGE", "K", k, u, f)
  <2> HIDE DEF k, u, f, m
  <2> QED BY <1>2, <1>5, <1>6, JumpBranches DEF m
<1>8. ~r.c.missed BY <1>1 DEF Fits
<1>8a. code'.stack = code.stack
  <2>1. IsCtx(code) BY <1>2 DEF CtxOK, IsCtx
  <2> HIDE DEF k, u, f
  <2> QED BY <1>1, <2>1, JumpStack
<1> HIDE DEF r
<1>9. Extends(d, b) /\ Fits(code) BY <1>7, <1>8, <1>8a DEF Branches, Fits
<1>10. /\ RangesOK(rules) /\ TreeOK(b, levels, rules, done) BY <1>9 DEF TreeInv
<1>11. BeginAt(levels, base) /\ (\A data : Answered(b, data, levels, W(data))) /\ Differ(levels)
  BY <1>10 DEF TreeOK
<1>12. base \in Nat /\ \A data : \A w \in W(data) : w[1] \in Nat BY <1>2, <1>10, BaseNumber
<1>13. JoinsTo(b, d, levels, r.loc)
  <2> SUFFICES ASSUME NEW data, NEW st, NEW act,
                      Goes(b, data, IF Jumps("JGE", st.a, k) THEN u ELSE f, st, act)
               PROVE  Goes(d, data, r.loc, st, act)
    BY DEF JoinsTo
  <2>1. Right("K", k, st) = k BY DEF Right
  <2>2. Goes(b, data, IF Jumps("JGE", st.a, Right("K", k, st)) THEN u ELSE f, st, act) BY <2>1
  <2> HIDE DEF k, u, f
  <2> QED BY <1>7, <1>8, <2>2 DEF Branches
<1>14. u # f
  <2>1. n - 1 \in 1..(n - 1) /\ (n - 1) + 1 = n BY <1>4
  <2> QED BY <1>11, <2>1 DEF Differ
<1>15. r.loc = Len(d) - 1 /\ Len(d) > m /\ Len(d) \in Nat
  <2> HIDE DEF k, u, f
  <2>1. Len(d) \in Nat BY <1>9 DEF Extends
  <2> QED BY <1>7, <1>14, <2>1 DEF Branches
<1> HIDE DEF base, W, b, d
<1>16a. ASSUME NEW data
        PROVE  /\ BeginAt(t, base) /\ Answered(d, data, t, W(data)) /\ Len(t) = n - 1
               /\ t[n - 1].action = r.loc /\ SameFront(t, levels)
  <2> DEFINE V == W(data)
             loc == r.loc
  <2>1. Answered(b, data, levels, V) /\ (\A w \in V : w[1] \in Nat) BY <1>11, <1>12
  <2>2. Extends(d, b) /\ base \in Nat /\ BeginAt(levels, base) /\ h \in Nat /\ JoinsTo(b, d, levels, loc)
        /\ Len(levels) >= 2
    BY <1>5, <1>9, <1>11, <1>12, <1>13
  <2> HIDE DEF V, loc, b, d, base, W
  <2>3. LET y == Joined(levels, h, loc)
        IN BeginAt(y, base) /\ Answered(d, data, y, V) /\ Len(y) = Len(levels) - 1 /\ Len(levels) \in Nat
           /\ y[Len(levels) - 1].action = loc /\ SameFront(y, levels)
    BY <2>1, <2>2, SubtreesJoined
  <2> QED BY <2>3 DEF V, loc
<1>16. /\ BeginAt(t, base) /\ (\A data : Answered(d, data, t, W(data))) /\ Len(t) = n - 1
       /\ t[n - 1].action = r.loc /\ SameFront(t, levels)
  BY <1>16a
<1> HIDE DEF t, u, f, k
<1>17. r.loc \notin Locs(m)
  <2> DEFINE y == Len(d)
  <2>1. r.loc = y - 1 /\ y > m /\ y \in Nat BY <1>15
  <2> HIDE DEF y, m
  <2>2. r.loc \notin 0..(m - 1) /\ r.loc \in Nat BY <1>2, <2>1
  <2>3. \A a \in Actions : ~(-a \in Nat)
    <3>1. \A a \in Nat \ {0} : ~(-a \in Nat) OBVIOUS
    <3> QED BY <3>1, ActionRange
  <2> QED BY <2>2, <2>3 DEF Locs
<1>18. Differ(t)
  <2> HIDE DEF n, m
  <2> SUFFICES ASSUME NEW x \in 1..(n - 2) PROVE t[x].action # t[x + 1].action
    <3>1. Len(t) - 1 = n - 2 BY <1>4, <1>16
    <3> QED BY <3>1 DEF Differ
  <2>1. t[x].action = levels[x].action BY <1>16 DEF SameFront, n
  <2>2. CASE x = n - 2
    <3>1. x \in 1..n /\ x + 1 = n - 1 BY <1>4, <2>2
    <3>2. levels[x].action \in Locs(m) BY <1>3, <1>4, <3>1 DEF LevelType
    <3> QED BY <1>16, <1>17, <2>1, <3>1, <3>2
  <2>3. CASE x # n - 2
    <3>1. x \in 1..(n - 1) /\ x + 1 \in 1..(n - 2) BY <1>4, <2>3
    <3>2. t[x + 1].action = levels[x + 1].action BY <1>16, <3>1 DEF SameFront, n
    <3>3. levels[x].action # levels[x + 1].action BY <1>11, <3>1 DEF Differ, n
    <3> QED BY <2>1, <3>2, <3>3
  <2> QED BY <2>2, <2>3
<1>19. t # <<>>
  <2>1. t = <<>> => Len(t) = 0 OBVIOUS
  <2> HIDE DEF n
  <2> QED BY <1>4, <1>16, <2>1
<1>20. TreeOK(d, t, rules, done) BY <1>16, <1>18, <1>19 DEF TreeOK, base, W
<1>21. CurrentLoc(code') = r.loc BY <1>1, <1>15 DEF CurrentLoc, d
<1> QED BY <1>1, <1>4, <1>9, <1>16, <1>17, <1>20, <1>21 DEF d, n, m

(* An expression is generated only of a rule that has expressions.         *)
LEMMA ExprOf == ASSUME GenerateExpr PROVE tasks # <<>>
BY DEF GenerateExpr, GenerateConnective, GenerateComparison, CompareWord, CompareHighWords,
       LoadArgument, LoadOperation, WriteInstruction, ValueLoaded, Doing

(* When the range's action has been generated, all its calls are led to.   *)
LEMMA CourseRun ==
  ASSUME CourseInv, stage \in {"action", "join"}, tasks = <<>>, Fits(code)
  PROVE  LeadsAll(code.buf, LastRule, next)
BY EndOfCourse DEF CourseInv, LeadsAll

(* The ranges are numbered.                                                *)
LEMMA RangeCount == ASSUME NEW rs, RangesOK(rs) PROVE Len(rs) \in Nat
<1>1. PICK E : rs \in Seq(RuleType(E, Actions)) BY DEF RangesOK
<1> QED BY <1>1

(* The tree stays right while more code is put in front.                   *)
LEMMA TreeStays ==
  ASSUME NEW c, NEW d, Adds(c, d), Fits(d) => Fits(c), NEW ls, NEW rs, NEW n,
         Fits(c) => TreeOK(c.buf, ls, rs, n)
  PROVE  Fits(d) => Fits(c) /\ TreeOK(d.buf, ls, rs, n)
<1>1. Extends(d.buf, c.buf) BY DEF Adds
<1>2. ASSUME Fits(d) PROVE Fits(c) /\ TreeOK(d.buf, ls, rs, n)
  <2>1. Fits(c) /\ TreeOK(c.buf, ls, rs, n) BY <1>2
  <2>2. \A data : Answered(d.buf, data, ls, Wanted(rs, n, data)) BY <1>1, <2>1, AnsweredStill DEF TreeOK
  <2> QED BY <2>1, <2>2 DEF TreeOK
<1> QED BY <1>2

(* One more range is done.                                                 *)
LEMMA ConditionalMore ==
  ASSUME NEW rs, RangesOK(rs), NEW d \in Nat, d < Len(rs), AllConditional(rs, d),
         IsConditional(rs[Len(rs) - d])
  PROVE  AllConditional(rs, d + 1)
<1>1. Len(rs) \in Nat BY RangeCount
<1>2. \A m \in 1..Len(rs) : m > Len(rs) - (d + 1) => m = Len(rs) - d \/ m > Len(rs) - d
  <2> DEFINE R == Len(rs)
  <2> HIDE DEF R
  <2>1. R \in Nat BY <1>1 DEF R
  <2>2. \A m \in 1..R : m > R - (d + 1) => m = R - d \/ m > R - d BY <2>1
  <2> QED BY <2>2 DEF R
<1> QED BY <1>2 DEF AllConditional

(* The steps of generate_rules.                                            *)
LEMMA TreeAction == ASSUME CodeInv, TreeInv, GenerateCode, GenerateAction PROVE TreeInv'
<1>1. /\ stage = "generate" /\ done < Len(rules) /\ stage' = "action"
      /\ UNCHANGED <<code, levels, done, rules>>
  BY DEF GenerateAction, GenerateCode
<1>2. RangesOK(rules) /\ FromBase(rules, done) BY <1>1 DEF TreeInv, Generating
<1>3. ~IsConditional(LastRule) => next' = -LastRule.action BY DEF GenerateAction
<1>4. LastRule' = LastRule BY <1>1 DEF LastRule
<1>5. Fits(code) =>
        /\ TreeOK(code.buf, levels, rules, done)
        /\ Len(levels) = 1 /\ levels[1].action >= 0 => AllConditional(rules, done)
  <2>1. done # Len(rules)
    <3>1. Len(rules) \in Nat /\ done \in Nat BY <1>2, RangeCount DEF CodeInv
    <3> QED BY <1>1, <3>1
  <2> QED BY <1>1, <2>1 DEF TreeInv, Generating
<1> QED BY <1>1, <1>2, <1>3, <1>4, <1>5 DEF TreeInv, Generating

(* The code of conditions leaves the tree as it is.                        *)
LEMMA TreeExpr ==
  ASSUME RulesInv, LevelsInv, CodeInv, CourseInv, TreeInv, GenerateCode,
         stage = "action" /\ GenerateExpr /\ UNCHANGED <<stage, levels, done>>
  PROVE  TreeInv'
<1>1. stage = "action" /\ UNCHANGED <<stage, levels, done, rules>> BY DEF GenerateCode
<1>2. RangesOK(rules) /\ FromBase(rules, done) BY <1>1 DEF TreeInv, Generating
<1>3. LastRule' = LastRule BY <1>1 DEF LastRule
<1>4. IsConditional(LastRule) BY <1>1, ExprOf DEF CourseInv
<1>5. Adds(code, code') /\ (Fits(code') => Fits(code)) BY GeneratedAdds, GeneratedFits
<1>6. Fits(code) =>
        /\ TreeOK(code.buf, levels, rules, done)
        /\ Len(levels) = 1 /\ levels[1].action >= 0 => AllConditional(rules, done)
  BY <1>1 DEF TreeInv, Generating
<1>7. Fits(code') => Fits(code) /\ TreeOK(code'.buf, levels, rules, done) BY <1>5, <1>6, TreeStays
<1> QED BY <1>1, <1>2, <1>3, <1>4, <1>6, <1>7 DEF TreeInv, Generating

(* A range joins the last subtree, if that has its action.                 *)
LEMMA TreePlaced == ASSUME CodeInv, CourseInv, TreeInv, GenerateCode, PlaceRange PROVE TreeInv'
<1>1. stage = "action" /\ tasks = <<>> /\ UNCHANGED <<code, next, tasks, rules>>
  BY DEF PlaceRange, GenerateCode
<1>2. RangesOK(rules) /\ FromBase(rules, done) BY <1>1 DEF TreeInv, Generating
<1>3. done \in Nat /\ done < Len(rules) BY <1>1 DEF CodeInv
<1>4. ~IsConditional(LastRule) => next = -LastRule.action BY <1>1 DEF TreeInv, Generating
<1>5. Fits(code) =>
        /\ TreeOK(code.buf, levels, rules, done)
        /\ Len(levels) = 1 /\ levels[1].action >= 0 => AllConditional(rules, done)
  BY <1>1 DEF TreeInv, Generating
<1>6. CASE levels # <<>> /\ levels[Len(levels)].action = next
  <2> DEFINE t == Widened(levels, LastRule.first)
  <2>1. levels' = t /\ done' = done + 1 /\ stage' = "generate" BY <1>6 DEF PlaceRange, Widened
  <2>2. FromBase(rules, done + 1) BY <1>2, <1>3, NextRange
  <2>3. LastRule = rules[Len(rules) - done] BY DEF LastRule
  <2>4. Fits(code) =>
          /\ TreeOK(code.buf, t, rules, done + 1) /\ Len(t) = Len(levels)
          /\ \A k \in 1..Len(levels) : t[k].action = levels[k].action
    <3>1. Fits(code) => LeadsAll(code.buf, rules[Len(rules) - done], next) BY <1>1, <2>3, CourseRun
    <3> QED BY <1>2, <1>3, <1>5, <1>6, <2>3, <3>1, TreeWider
  <2> HIDE DEF t
  <2>5. ASSUME Fits(code), Len(t) = 1, t[1].action >= 0 PROVE AllConditional(rules, done + 1)
    <3>1. Len(levels) = 1 /\ levels[1].action = t[1].action BY <2>4, <2>5
    <3>2. AllConditional(rules, done) BY <1>5, <2>5, <3>1
    <3>3. IsConditional(LastRule)
      <4> SUFFICES ASSUME ~IsConditional(LastRule) PROVE FALSE OBVIOUS
      <4>1. LastRule.action \in Actions BY <1>2, <1>3, <2>3, NextRange
      <4>2. LastRule.action \in Nat \ {0} BY <4>1, ActionRange
      <4>3. t[1].action = -LastRule.action BY <1>4, <1>6, <3>1
      <4> QED BY <2>5, <4>2, <4>3
    <3> QED BY <1>2, <1>3, <2>3, <3>2, <3>3, ConditionalMore
  <2> QED BY <1>1, <1>2, <2>1, <2>2, <2>4, <2>5 DEF TreeInv, Generating
<1>7. CASE ~(levels # <<>> /\ levels[Len(levels)].action = next)
  <2>1. stage' = "join" /\ UNCHANGED <<levels, done>> BY <1>7 DEF PlaceRange
  <2>2. LastRule' = LastRule BY <1>1, <2>1 DEF LastRule
  <2> QED BY <1>1, <1>2, <1>4, <1>5, <1>7, <2>1, <2>2 DEF TreeInv, Generating
<1> QED BY <1>6, <1>7

(* Otherwise it gets a subtree of its own.                                 *)
LEMMA TreeAdded == ASSUME CodeInv, CourseInv, TreeInv, GenerateCode, AddSubtree PROVE TreeInv'
<1>1. /\ stage = "join" /\ UNCHANGED <<code, next, tasks, rules>>
      /\ levels' = Append(levels, Level(0, LastRule.first, next))
      /\ done' = done + 1 /\ stage' = "generate"
  BY DEF AddSubtree, GenerateCode
<1>2. RangesOK(rules) /\ FromBase(rules, done) BY <1>1 DEF TreeInv, Generating
<1>3. done \in Nat /\ done < Len(rules) BY <1>1 DEF CodeInv
<1>4. ~IsConditional(LastRule) => next = -LastRule.action BY <1>1 DEF TreeInv, Generating
<1>5. Fits(code) =>
        TreeOK(code.buf, levels, rules, done) /\ (levels = <<>> \/ levels[Len(levels)].action # next)
  BY <1>1 DEF TreeInv, Generating
<1> DEFINE t == WithSubtree(levels, LastRule.first, next)
<1>6. FromBase(rules, done + 1) BY <1>2, <1>3, NextRange
<1>7. LastRule = rules[Len(rules) - done] BY DEF LastRule
<1>8. Fits(code) =>
        /\ TreeOK(code.buf, t, rules, done + 1) /\ Len(t) = Len(levels) + 1 /\ Len(levels) \in Nat
        /\ t[Len(levels) + 1].action = next
  <2> SUFFICES ASSUME Fits(code)
               PROVE  /\ TreeOK(code.buf, t, rules, done + 1) /\ Len(t) = Len(levels) + 1
                      /\ Len(levels) \in Nat /\ t[Len(levels) + 1].action = next
    OBVIOUS
  <2>1. TreeOK(code.buf, levels, rules, done) BY <1>5
  <2>2. NoNeighbour(levels, next) BY <1>5 DEF NoNeighbour
  <2>3. LeadsAll(code.buf, rules[Len(rules) - done], next)
    <3>1. tasks = <<>> BY <1>1 DEF CodeInv
    <3> QED BY <1>1, <1>7, <3>1, CourseRun
  <2>4. t = WithSubtree(levels, rules[Len(rules) - done].first, next) BY <1>7
  <2> HIDE DEF t
  <2>5. LET u == WithSubtree(levels, rules[Len(rules) - done].first, next)
        IN /\ TreeOK(code.buf, u, rules, done + 1) /\ Len(u) = Len(levels) + 1
           /\ Len(levels) \in Nat /\ u[Len(levels) + 1].action = next
    BY <1>2, <1>3, <2>1, <2>2, <2>3, TreeMore
  <2> QED BY <2>4, <2>5
<1>9. levels' = t BY <1>1 DEF WithSubtree
<1> HIDE DEF t
<1>10. ASSUME Fits(code), Len(t) = 1, t[1].action >= 0 PROVE AllConditional(rules, done + 1)
  <2>1. Len(levels) = 0
    <3> DEFINE n == Len(levels)
    <3>1. n \in Nat /\ n + 1 = 1 BY <1>8, <1>10
    <3> HIDE DEF n
    <3>2. n = 0 BY <3>1
    <3> QED BY <3>2 DEF n
  <2>2. t[1].action = next BY <1>8, <1>10, <2>1
  <2>3. levels = <<>>
    <3>1. BeginAt(levels, Base(rules, done)) BY <1>5, <1>10 DEF TreeOK
    <3>2. PICK L : levels \in Seq(LevelType(Nat, L)) BY <3>1 DEF BeginAt
    <3> QED BY <2>1, <3>2
  <2>4. done = 0 BY <1>5, <1>10, <2>3 DEF TreeOK
  <2>5. AllConditional(rules, done)
    <3>1. \A m \in 1..Len(rules) : ~(m > Len(rules) - 0)
      <4> DEFINE R == Len(rules)
      <4>1. R \in Nat BY <1>2, RangeCount
      <4> HIDE DEF R
      <4>2. \A m \in 1..R : ~(m > R - 0) BY <4>1
      <4> QED BY <4>2 DEF R
    <3> QED BY <2>4, <3>1 DEF AllConditional
  <2>6. IsConditional(LastRule)
    <3> SUFFICES ASSUME ~IsConditional(LastRule) PROVE FALSE OBVIOUS
    <3>1. LastRule.action \in Actions BY <1>2, <1>3, <1>7, NextRange
    <3>2. LastRule.action \in Nat \ {0} BY <3>1, ActionRange
    <3> QED BY <1>4, <1>10, <2>2, <3>2
  <2> QED BY <1>2, <1>3, <1>7, <2>5, <2>6, ConditionalMore
<1> QED BY <1>1, <1>2, <1>6, <1>8, <1>9, <1>10 DEF TreeInv, Generating

(* Joining the last two subtrees keeps what they answer.                   *)
LEMMA TreeJoinedNext == ASSUME CodeInv, TreeInv, GenerateCode, JoinEqual \/ JoinRest PROVE TreeInv'
<1>1. /\ stage \in {"generate", "join"} /\ UNCHANGED <<stage, next, tasks, done, rules>>
      /\ stage = "generate" => done = Len(rules)
      /\ Len(levels) >= 2
  BY DEF JoinEqual, JoinRest, Joinable, GenerateCode
<1>2. PICK h : /\ JoinLast(h)
               /\ h = levels[Len(levels)].level + 1 \/ h = levels[Len(levels) - 1].level
  BY DEF JoinEqual, JoinRest
<1>3. RangesOK(rules) /\ FromBase(rules, done) BY <1>1 DEF TreeInv, Generating
<1>4. LastRule' = LastRule BY <1>1 DEF LastRule
<1>5. stage = "join" /\ ~IsConditional(LastRule) => next = -LastRule.action
  BY <1>1 DEF TreeInv, Generating
<1>6. stage \in Generating BY <1>1 DEF Generating
<1>7. Fits(code') =>
        /\ TreeOK(code'.buf, levels', rules, done)
        /\ Len(levels') = Len(levels) - 1 /\ Len(levels) \in Nat
        /\ levels'[Len(levels')].action = CurrentLoc(code')
        /\ CurrentLoc(code') \notin Locs(Len(code.buf))
  BY <1>1, <1>2, <1>6, TreeJoined
<1>8. stage = "join" => next \in Locs(Len(code.buf)) BY <1>1 DEF CodeInv
<1>9. Fits(code') /\ stage = "join" => levels'[Len(levels')].action # next BY <1>7, <1>8
<1>10. Fits(code') /\ Len(levels') = 1 => levels'[1].action = CurrentLoc(code') BY <1>7
<1>11. CurrentLoc(code)' = CurrentLoc(code') BY DEF CurrentLoc
<1> QED BY <1>1, <1>3, <1>4, <1>5, <1>7, <1>9, <1>10, <1>11 DEF TreeInv, Generating

(* generate_rules keeps the tree right: for every number of a range that   *)
(* is done, the subtree that it falls in leads to the action that the      *)
(* range has for the call, as long as jumps and memory slots fit.          *)
THEOREM TreeKept == Spec => []TreeInv
<1>1. Init => TreeInv BY DEF Init, TreeInv, Generating
<1>2. RulesInv /\ LevelsInv /\ CodeInv /\ CourseInv /\ TreeInv /\ [Next]_vars => TreeInv'
  <2> SUFFICES ASSUME RulesInv, LevelsInv, CodeInv, CourseInv, TreeInv, [Next]_vars PROVE TreeInv'
    OBVIOUS
  <2>1. CASE BeginRules
    <3>1. stage = "normalized" /\ rules' = rules /\ done' = 0 /\ levels' = <<>> /\ stage' = "generate"
      BY <2>1 DEF BeginRules
    <3>2. RangesOK(rules) BY <3>1, RangesReady
    <3>3. \A m \in 1..Len(rules) : ~(m > Len(rules) - 0)
      <4> DEFINE R == Len(rules)
      <4>1. R \in Nat BY <3>2, RangeCount
      <4> HIDE DEF R
      <4>2. \A m \in 1..R : ~(m > R - 0) BY <4>1
      <4> QED BY <4>2 DEF R
    <3>4. FromBase(rules, 0) BY <3>3 DEF FromBase
    <3>5. \A b : TreeOK(b, <<>>, rules, 0)
      <4>1. <<>> \in Seq(LevelType(Nat, {})) /\ Len(<<>>) = 0 /\ 1..0 = {} OBVIOUS
      <4>2. BeginAt(<<>>, Base(rules, 0)) BY <4>1 DEF BeginAt, Base
      <4>3. 1..(0 - 1) = {} OBVIOUS
      <4> QED BY <4>1, <4>2, <4>3 DEF TreeOK, Answered, Differ
    <3>6. Len(<<>>) # 1 OBVIOUS
    <3> QED BY <3>1, <3>2, <3>4, <3>5, <3>6 DEF TreeInv, Generating
  <2>2. CASE GenerateCode
    BY <2>2, TreeAction, TreeExpr, TreePlaced, TreeAdded, TreeJoinedNext DEF GenerateCode, GenerateRules
  <2>3. CASE Next /\ ~BeginRules /\ ~GenerateCode BY <2>3, NotGenerating DEF TreeInv
  <2>4. CASE UNCHANGED vars
    <3>1. UNCHANGED <<stage, rules, code, levels, done, next, tasks>>
      BY <2>4 DEF vars, normalVars, genVars
    <3>2. LastRule' = LastRule BY <3>1 DEF LastRule
    <3>3. CurrentLoc(code)' = CurrentLoc(code) BY <3>1 DEF CurrentLoc
    <3> QED BY <3>1, <3>2, <3>3 DEF TreeInv
  <2> QED BY <2>1, <2>2, <2>3, <2>4
<1> QED BY <1>1, <1>2, RulesKept, LevelsKept, CodeKept, ConditionsCoded, PTL DEF Spec

-----------------------------------------------------------------------------
(* The calls of a target.                                                  *)

(* An instruction takes no slot.                                           *)
LEMMA AddStack == ASSUME NEW c, IsCtx(c), NEW x PROVE Add(c, x).stack = c.stack /\ IsCtx(Add(c, x))
BY DEF Add, IsCtx

(* Neither does the end of a target,                                       *)
LEMMA TargetStack == ASSUME PolicyInv, CodeInv, FinishArch PROVE code'.stack = code.stack
<1>1. IsCtx(code)
  <2>1. CtxOK(code) BY DEF CodeInv
  <2> QED BY <2>1 DEF CtxOK, IsCtx
<1>2. Loaded.c.stack = code.stack /\ IsCtx(Loaded.c)
  <2>1. CASE levels[1].action >= 0
    <3>1. Loaded.c = Add(code, Load("nr")) BY <2>1 DEF Loaded, Added, At
    <3> QED BY <1>1, <3>1, AddStack
  <2>2. CASE ~(levels[1].action >= 0)
    <3>1. Loaded.c = code BY <2>2 DEF Loaded, At
    <3> QED BY <1>1, <3>1
  <2> QED BY <2>1, <2>2
<1> DEFINE l == Loaded
           k == Archs[Lowest(todo)]
           r == AddJump(l.c, "JEQ", "K", k, l.loc, entry)
<1>3. code' = l.c \/ code' = r.c BY DEF FinishArch, Loaded, At
<1> HIDE DEF l, k
<1>4. r.c.stack = l.c.stack BY <1>2, JumpStack DEF l
<1> HIDE DEF r
<1> QED BY <1>2, <1>3, <1>4 DEF l

(* nor the end of the program.                                             *)
LEMMA FinishStack == ASSUME CodeInv, FinishCode PROVE code'.stack = code.stack
<1>1. IsCtx(code)
  <2>1. CtxOK(code) BY DEF CodeInv
  <2> QED BY <2>1 DEF CtxOK, IsCtx
<1> DEFINE s == IF entry >= 0 THEN Add(code, Load("arch")) ELSE code
           r == ResolveLocation(s, entry)
<1>2. code' = IF entry < 0 THEN r.c ELSE s BY DEF FinishCode
<1>3. s.stack = code.stack /\ IsCtx(s) BY <1>1, AddStack
<1> HIDE DEF s
<1>4. r.c.stack = s.stack BY <1>3, ResolvedStack
<1> QED BY <1>2, <1>3, <1>4

(* When the tree is complete it leads a call whose number is in a range to *)
(* the action that the range has for it. *)
LEMMA TreeAnswers ==
  ASSUME TreeInv, stage = "generate", done = Len(rules), Len(levels) = 1, Fits(code),
         NEW m \in 1..Len(rules), NEW nr \in rules[m].first..rules[m].last,
         NEW data, NEW act, Takes(rules[m], data, act)
  PROVE  Answers(code.buf, data, levels[1].action, nr, act) /\ act \in Actions
<1> DEFINE R == Len(rules)
           W == Wanted(rules, R, data)
           w == <<nr, act>>
<1>1. RangesOK(rules) /\ TreeOK(code.buf, levels, rules, R) BY DEF TreeInv, Generating
<1>2. PICK E : rules \in Seq(RuleType(E, Actions)) BY <1>1 DEF RangesOK
<1>3. R \in Nat /\ R # 0 /\ m \in 1..R /\ rules[m] \in RuleType(E, Actions) BY <1>2
<1>4. MAX_SYSCALL_NR \in Nat BY MaxSyscallNr
<1> HIDE DEF R
<1>5. /\ act \in Actions
      /\ rules[m].first \in Nat /\ rules[m].last \in Nat /\ rules[m].last <= MAX_SYSCALL_NR
  <2>1. rules[m].first \in Nat /\ rules[m].last \in Nat /\ rules[m].last <= MAX_SYSCALL_NR
    BY <1>3, <1>4 DEF RuleType, Numbers
  <2>2. CASE ~IsConditional(rules[m])
    <3>1. rules[m].action \in Actions BY <1>3, <2>2 DEF RuleType, IsConditional
    <3> QED BY <2>1, <2>2, <3>1 DEF Takes
  <2>3. CASE IsConditional(rules[m])
    <3> DEFINE xs == rules[m].exprs
    <3>1. PICK k \in 1..Len(xs) : xs[k].action = act BY <2>3 DEF Takes
    <3>2. xs \in Seq(MappingType(E, Actions)) BY <1>3 DEF RuleType
    <3> HIDE DEF xs
    <3>3. xs[k] \in MappingType(E, Actions) BY <3>1, <3>2
    <3> QED BY <2>1, <3>1, <3>3 DEF MappingType
  <2> QED BY <2>2, <2>3
<1>6. nr \in Nat /\ rules[m].first <= nr /\ nr <= rules[m].last /\ nr <= MAX_SYSCALL_NR
  BY <1>4, <1>5
<1>7. w \in W
  <2>1. w \in Nat \X Actions /\ w[1] = nr /\ w[2] = act BY <1>5, <1>6
  <2>2. OfRule(rules, m, data, w) BY <1>6, <2>1 DEF OfRule
  <2>3. m > R - R BY <1>3
  <2>4. m > Len(rules) - R BY <2>3 DEF R
  <2> QED BY <2>1, <2>2, <2>4 DEF Wanted
<1>8. Base(rules, R) = 0
  <2>1. R # 0 /\ R - R + 1 = 1 BY <1>3
  <2>2. rules[1].first = 0 BY <1>1 DEF RangesOK
  <2> QED BY <2>1, <2>2 DEF Base, R
<1>9. BeginAt(levels, 0) /\ Answered(code.buf, data, levels, W) BY <1>1, <1>8 DEF TreeOK
<1>10. levels[1].nr = 0
  <2>1. levels # <<>>
    <3>1. levels = <<>> => Len(levels) = 0 OBVIOUS
    <3> QED BY <3>1
  <2> QED BY <1>9, <2>1 DEF BeginAt
<1>11. Within(levels, 1, nr) BY <1>6, <1>10 DEF Within, Upto
<1>12. 1 \in 1..Len(levels) OBVIOUS
<1> HIDE DEF W
<1>13. Answers(code.buf, data, levels[1].action, w[1], w[2]) BY <1>7, <1>9, <1>11, <1>12 DEF Answered
<1> QED BY <1>5, <1>13

(* Architectures are told apart by their names. *)
LEMMA ArchNames == \A a, b \in DOMAIN Archs : a # b => Archs[a] # Archs[b]
<1>1. DOMAIN Archs = 1..7 BY DEF Archs
<1>2. /\ Archs[1] = "ARM" /\ Archs[2] = "AARCH64" /\ Archs[3] = "X86" /\ Archs[4] = "X86_64"
      /\ Archs[5] = "MIPS" /\ Archs[6] = "MIPS64" /\ Archs[7] = "RISCV64"
  BY DEF Archs
<1>3. \A a \in 1..7 : a \in {1, 2, 3, 4, 5, 6, 7} OBVIOUS
<1> QED BY <1>1, <1>2, <1>3

(* Some range without expressions has the default action. *)
DefaultRange == \E k \in 1..Len(rules) : Unconditional(rules, k) /\ rules[k].action = default_action

(* A tree that was written last, or one action for all numbers, which is   *)
(* the default one.                                                        *)
TreeTaken ==
  IF levels[1].action >= 0 THEN \E k \in 1..Len(rules) : Unconditional(rules, k) ELSE DefaultRange

(* Nothing is stored when a program starts.                                *)
LEMMA NothingStored == <<>> \in Slots
<1>1. <<>> \in [{} -> Nat] OBVIOUS
<1>2. {} \in SUBSET Nat OBVIOUS
<1> QED BY <1>1, <1>2 DEF Slots

(* What the calls of the target being finished come to: those of a range   *)
(* get the action that the range has for them.                             *)
LEMMA TargetDecides ==
  ASSUME PolicyInv, CodeInv, TreeInv, ArchInv, FinishArch, Fits(code'), TreeTaken,
         NEW m \in 1..Len(rules), NEW data, data["nr"] \in rules[m].first..rules[m].last,
         NEW act, Takes(rules[m], data, act),
         NEW st, IsState(st), st.a = Archs[Lowest(todo)], st.x \in Nat, st.m \in Slots
  PROVE  Goes(code'.buf, data, entry', st, act)
<1> DEFINE nr == data["nr"]
           n == Len(code.buf)
           tree == levels[1].action
<1>1. stage = "generate" /\ done = Len(rules) /\ Len(levels) = 1 BY DEF FinishArch
<1>2. Fits(code) /\ ~code.missed BY TargetChosen, TargetStack DEF Adds, Fits
<1>3. Answers(code.buf, data, tree, nr, act) /\ act \in Actions BY <1>1, <1>2, TreeAnswers
<1>4. CtxOK(code) /\ n \in Nat
  <2>1. CtxOK(code) BY DEF CodeInv
  <2> QED BY <2>1, CodeLength
<1> DEFINE t == State(nr, st.x, st.m)
<1>4a. t \in States /\ t.a = nr /\ nr \in Nat
  <2>1. rules[m].first \in Nat /\ rules[m].last \in Nat
    <3>1. PICK E : rules \in Seq(RuleType(E, Actions)) BY <1>1 DEF TreeInv, Generating, RangesOK
    <3>2. rules[m] \in RuleType(E, Actions) BY <3>1
    <3> QED BY <3>2, MaxSyscallNr DEF RuleType, Numbers
  <2>2. nr \in Nat BY <2>1
  <2> QED BY <2>2, StateParts
<1>4b. Goes(code.buf, data, tree, t, act)
  <2> HIDE DEF t, tree
  <2> QED BY <1>3, <1>4a DEF Answers
<1>5. Goes(Loaded.c.buf, data, Loaded.loc, st, act)
  <2>1. CASE tree >= 0
    <3> DEFINE x == Load("nr")
               c == Add(code, x)
               b == c.buf
    <3>1. Loaded = [c |-> c, loc |-> n] BY <2>1 DEF Loaded, Added, At
    <3>2. tree = n - 1
      <4>1. ~AllConditional(rules, done)
        <5>1. PICK k \in 1..Len(rules) : Unconditional(rules, k) BY <2>1 DEF TreeTaken
        <5>2. Len(rules) \in Nat
          <6>1. RangesOK(rules) BY <1>1 DEF TreeInv, Generating
          <6> QED BY <6>1, RangeCount
        <5> DEFINE R == Len(rules)
        <5>3. k \in 1..R /\ R \in Nat BY <5>2
        <5> HIDE DEF R
        <5>4. k > R - R BY <5>3
        <5> QED BY <1>1, <5>1, <5>3, <5>4 DEF AllConditional, Unconditional, R
      <4> QED BY <1>1, <1>2, <2>1, <4>1 DEF TreeInv, Generating, CurrentLoc
    <3>3. b = Append(code.buf, x)
      <4>1. Noted(code, code) BY DEF Noted
      <4> QED BY <1>4, <4>1, NoteAdded
    <3>4. Extends(b, code.buf) /\ Len(b) = n + 1 /\ b[n + 1] = x BY <1>4, <3>3, OneMore
    <3> HIDE DEF c, b, x, tree, n
    <3>7. Goes(b, data, tree, t, act) BY <1>4b, <3>4, GoesStill
    <3>8. Yields(b, data, n, st, act) BY <1>4, <2>1, <3>2, <3>4, <3>7, LoadGoes DEF State, x
    <3>9. ~(n < 0) BY <1>4
    <3>10. Loaded.c.buf = b /\ Loaded.loc = n BY <3>1 DEF b
    <3> QED BY <3>8, <3>9, <3>10 DEF Goes
  <2>2. CASE ~(tree >= 0)
    <3>1. PICK k \in 1..Len(rules) : Unconditional(rules, k) /\ rules[k].action = default_action
      BY <2>2 DEF DefaultRange, TreeTaken
    <3>2. \A loc \in Locs(n) : ~(loc >= 0) => loc < 0
      <4>1. \A a \in Actions : -a < 0 BY ActionRange
      <4>2. \A loc \in 0..(n - 1) : loc >= 0 OBVIOUS
      <4> QED BY <4>1, <4>2 DEF Locs
    <3>3. tree \in Locs(n)
      <4>1. PICK N, L : levels \in Seq(LevelType(N, L)) /\ L \subseteq Locs(n)
        BY <1>1 DEF CodeInv, LevelsIn, Generating
      <4>2. levels[1] \in LevelType(N, L)
        <5> DEFINE T == LevelType(N, L)
        <5>1. levels \in Seq(T) /\ 1 \in 1..Len(levels) BY <1>1, <4>1
        <5> HIDE DEF T
        <5> QED BY <5>1 DEF T
      <4> QED BY <4>1, <4>2 DEF LevelType
    <3>4. tree < 0 BY <2>2, <3>2, <3>3
    <3>5. act = -tree
      <4> HIDE DEF t, tree
      <4> QED BY <1>4b, <3>4 DEF Goes
    <3>6. default_action = -tree
      <4> DEFINE v == rules[k].first
                 u == State(v, 0, st.m)
      <4>1. v \in v..rules[k].last /\ v \in Nat
        <5>1. RangesOK(rules) BY <1>1 DEF TreeInv, Generating
        <5>2. PICK E : rules \in Seq(RuleType(E, Actions)) BY <5>1 DEF RangesOK
        <5>3. rules[k] \in RuleType(E, Actions) BY <5>2
        <5>4. v \in Nat /\ rules[k].last \in Nat BY <5>3, MaxSyscallNr DEF RuleType, Numbers
        <5>5. v <= rules[k].last BY <5>1 DEF RangesOK
        <5> QED BY <5>4, <5>5
      <4>2. Takes(rules[k], data, default_action) BY <3>1 DEF Takes, Unconditional
      <4>3. Answers(code.buf, data, tree, v, default_action) BY <1>1, <1>2, <4>1, <4>2, TreeAnswers
      <4>4. u \in States /\ u.a = v BY <4>1, StateParts
      <4> HIDE DEF u, v, tree
      <4>5. Goes(code.buf, data, tree, u, default_action) BY <4>3, <4>4 DEF Answers
      <4> QED BY <3>4, <4>5 DEF Goes
    <3>7. Loaded = [c |-> code, loc |-> -default_action] BY <2>2 DEF Loaded, At
    <3> DEFINE l == Loaded
    <3>8. l.loc = -act BY <3>5, <3>6, <3>7
    <3>9. -act < 0 /\ -(-act) = act BY <1>3, ActionRange
    <3> HIDE DEF l
    <3> QED BY <3>8, <3>9 DEF Goes, l
  <2> QED BY <2>1, <2>2
<1>6. Goes(code.buf, data, entry, st, ACTION_KILL)
  <2> DEFINE low == Lowest(todo)
  <2>1. Kills(code.buf, entry, TargetArchs \ todo) BY <1>1, <1>2 DEF ArchInv, Collecting
  <2>2. low \in todo /\ low \in DOMAIN Archs
    <3>1. todo \subseteq TargetArchs /\ todo # {} BY <1>1 DEF PolicyInv, Collecting
    <3>2. todo \subseteq Nat BY <3>1, ArchNumbers
    <3>3. low \in todo BY <3>1, <3>2, LowestIn
    <3> QED BY <3>1, <3>3, ArchNumbers
  <2> HIDE DEF low
  <2>3. \A a \in DOMAIN Archs : a # low => Archs[a] # Archs[low] BY <2>2, ArchNames
  <2>4. \A a \in TargetArchs \ todo : st.a # Archs[a] BY <2>2, <2>3, ArchNumbers DEF low
  <2> QED BY <2>1, <2>4 DEF Kills
<1>7. ~code'.missed BY DEF Fits
<1> HIDE DEF t
<1> QED BY <1>5, <1>6, <1>7, TargetChosen

(* The ranges leave no number out.                                         *)
LEMMA NumberCovered ==
  ASSUME NEW rs, RangesOK(rs), NEW nr \in Numbers
  PROVE  \E m \in 1..Len(rs) : Covers(rs[m], nr)
<1> SUFFICES ASSUME \A m \in 1..Len(rs) : ~Covers(rs[m], nr) PROVE FALSE OBVIOUS
<1> DEFINE R == Len(rs)
           S == {n \in Nat : n < R => rs[n + 1].first <= nr}
<1>1. PICK E : rs \in Seq(RuleType(E, Actions)) BY DEF RangesOK
<1>2. /\ R \in Nat \ {0} /\ nr \in Nat /\ nr <= MAX_SYSCALL_NR
      /\ \A m \in 1..R : rs[m].first \in Nat /\ rs[m].last \in Nat
  <2>1. rs # <<>> => Len(rs) # 0 BY <1>1, EmptySeq
  <2>2. R \in Nat \ {0} BY <1>1, <2>1 DEF RangesOK
  <2>3. \A m \in 1..R : rs[m] \in RuleType(E, Actions) BY <1>1
  <2>4. nr \in Nat /\ nr <= MAX_SYSCALL_NR BY MaxSyscallNr DEF Numbers
  <2>5. \A m \in 1..R : rs[m].first \in Nat /\ rs[m].last \in Nat
    <3> HIDE DEF R
    <3> QED BY <2>3, MaxSyscallNr DEF RuleType, Numbers
  <2> QED BY <2>2, <2>4, <2>5
<1>3. /\ rs[1].first = 0 /\ rs[R].last = MAX_SYSCALL_NR
      /\ \A m \in 1..R : m < R => rs[m + 1].first = rs[m].last + 1
      /\ \A m \in 1..R : ~Covers(rs[m], nr)
  BY DEF RangesOK
<1> HIDE DEF R
<1>4. 0 \in S BY <1>2, <1>3
<1>5. \A n \in Nat : n \in S => n + 1 \in S
  <2> SUFFICES ASSUME NEW n \in Nat, n \in S, n + 1 < R PROVE rs[n + 2].first <= nr OBVIOUS
  <2>1. n + 1 \in 1..R /\ n < R /\ n + 2 \in 1..R /\ (n + 1) + 1 = n + 2 BY <1>2
  <2>2. rs[n + 1].first <= nr BY <2>1
  <2>3. ~(nr <= rs[n + 1].last) BY <1>3, <2>1, <2>2 DEF Covers
  <2>4. rs[n + 2].first = rs[n + 1].last + 1 BY <1>3, <2>1
  <2> QED BY <1>2, <2>1, <2>3, <2>4
<1> HIDE DEF S
<1>6. Nat \subseteq S BY <1>4, <1>5, SetInduction
<1>7. R - 1 \in Nat /\ R - 1 < R /\ (R - 1) + 1 = R /\ R \in 1..R BY <1>2
<1>8. rs[R].first <= nr BY <1>6, <1>7 DEF S
<1> QED BY <1>2, <1>3, <1>7, <1>8 DEF Covers

(* S agrees with the call in what holds of the ranges for its number: a    *)
(* call whose arguments are known and conditions of the grammar; the last  *)
(* mapping of a range is always taken.                                     *)
Agrees(S, data) ==
  \A m \in 1..Len(rules) : Covers(rules[m], data["nr"]) /\ IsConditional(rules[m]) =>
    /\ Call(data)
    /\ \A k \in DOMAIN rules[m].exprs :
         /\ k < Len(rules[m].exprs) => rules[m].exprs[k].expr \in ConditionsOf(data)
         /\ rules[m].exprs[k].expr \in S
              <=> (k = Len(rules[m].exprs) \/ Holds(rules[m].exprs[k].expr, data.regs))

(* What the ranges decide for a call is what one of them has for it.       *)
LEMMA DecidedTakes ==
  ASSUME RangesOK(rules), NEW data, data["nr"] \in Numbers, NEW S, Agrees(S, data), NEW act,
         Decides(rules, 1..Len(rules), data["nr"], S, act)
  PROVE  \E m \in 1..Len(rules) : Covers(rules[m], data["nr"]) /\ Takes(rules[m], data, act)
<1> DEFINE nr == data["nr"]
<1>1. PICK E : rules \in Seq(RuleType(E, Actions)) BY DEF RangesOK
<1>2. ASSUME NEW m \in 1..Len(rules), IsConditional(rules[m])
      PROVE  rules[m].exprs \in Seq(MappingType(E, Actions)) /\ Len(rules[m].exprs) \in Nat \ {0}
  <2> DEFINE xs == rules[m].exprs
  <2>1. rules[m] \in RuleType(E, Actions) BY <1>1
  <2>2. xs \in Seq(MappingType(E, Actions)) BY <2>1 DEF RuleType
  <2>3. xs # <<>> BY <1>2 DEF RangesOK, HasCatchAll
  <2> HIDE DEF xs
  <2>4. Len(xs) # 0 BY <2>2, <2>3, EmptySeq
  <2> QED BY <2>2, <2>4 DEF xs
<1>3. CASE \E k \in 1..Len(rules) : Covers(rules[k], nr) /\ Gives(rules[k], S, act)
  <2>1. PICK k \in 1..Len(rules) : Covers(rules[k], nr) /\ Gives(rules[k], S, act) BY <1>3
  <2>2. CASE ~IsConditional(rules[k]) BY <2>1, <2>2 DEF Gives, Takes
  <2>3. CASE IsConditional(rules[k])
    <3> DEFINE xs == rules[k].exprs
               h == Len(xs)
    <3>1. xs \in Seq(MappingType(E, Actions)) /\ h \in Nat \ {0} BY <1>2, <2>3
    <3>2. /\ Call(data)
          /\ \A p \in DOMAIN xs :
               /\ p < h => xs[p].expr \in ConditionsOf(data)
               /\ xs[p].expr \in S <=> (p = h \/ Holds(xs[p].expr, data.regs))
      BY <2>1, <2>3 DEF Agrees
    <3>3. FirstOf(xs, S, act) BY <2>1, <2>3 DEF Gives
    <3>4. DOMAIN xs = 1..h BY <3>1
    <3>5. PICK p \in 1..h : /\ xs[p].expr \in S /\ xs[p].action = act
                            /\ \A q \in 1..(p - 1) : xs[q].expr \notin S
      BY <3>3, <3>4 DEF FirstOf
    <3> HIDE DEF xs, h
    <3>6. \A q \in 1..(p - 1) : q \in 1..h BY <3>1
    <3>7. \A q \in 1..(p - 1) : ~Holds(xs[q].expr, data.regs) BY <3>2, <3>4, <3>5, <3>6
    <3>8. p = h \/ Holds(xs[p].expr, data.regs) BY <3>2, <3>4, <3>5
    <3>9. \A q \in 1..(h - 1) : q \in 1..h /\ q < h BY <3>1
    <3>10. \A q \in 1..(h - 1) : xs[q].expr \in ConditionsOf(data) BY <3>2, <3>4, <3>9
    <3>11. Takes(rules[k], data, act) BY <2>3, <3>2, <3>5, <3>7, <3>8, <3>10 DEF Takes, xs, h
    <3> QED BY <2>1, <3>11
  <2> QED BY <2>2, <2>3
<1>4. CASE \A k \in 1..Len(rules) : Covers(rules[k], nr) => Passes(rules[k], S)
  <2>1. PICK m \in 1..Len(rules) : Covers(rules[m], nr) BY NumberCovered
  <2>2. IsConditional(rules[m]) /\ NoneOf(rules[m].exprs, S) BY <1>4, <2>1 DEF Passes
  <2> DEFINE xs == rules[m].exprs
             h == Len(xs)
  <2>3. xs \in Seq(MappingType(E, Actions)) /\ h \in Nat \ {0} BY <1>2, <2>2
  <2>4. DOMAIN xs = 1..h BY <2>3
  <2>5. h \in DOMAIN xs
    <3> HIDE DEF h, xs
    <3> QED BY <2>3, <2>4
  <2>6. xs[h].expr \in S BY <2>1, <2>2, <2>5 DEF Agrees
  <2> QED BY <2>2, <2>5, <2>6 DEF NoneOf
<1> QED BY <1>3, <1>4 DEF Decides

(* What becomes of a call: the action act, when it goes on at the entry of *)
(* what has been compiled so far, and from the finished program. *)
AtEntry(data) == [a |-> data["arch"], x |-> Starting.x, m |-> Starting.m]
Settled(data, act) ==
  IF stage = "done"
  THEN result = "ok" /\ ~code.missed /\ EntryNewest => DecidesCall(programs[Len(programs)], data, act)
  ELSE Fits(code) => Goes(code.buf, data, entry, AtEntry(data), act)

(* The calls of the target being compiled.                                 *)
TargetCall(data) == data["arch"] = Archs[Lowest(todo)] /\ data["nr"] \in Numbers

TargetSettled ==
  FinishArch /\ TreeTaken =>
    \A data, S, act :
      /\ TargetCall(data) /\ Agrees(S, data)
      /\ Decides(rules, 1..Len(rules), data["nr"], S, act)
      => Settled(data, act)'

(* When the code of a target is finished, every call of the target gets    *)
(* the action that the ranges decide for it, whichever expressions its     *)
(* arguments make hold; left aside are jumps and memory slots that do not  *)
(* fit, a policy that gives all 2^32 numbers one action other than the     *)
(* default one, and one that leaves no number to an action alone           *)
(* (generate_rules, generate_action, compile_policy_for_archs).            *)
THEOREM TargetAnswered == Spec => [][TargetSettled]_vars
<1>1. PolicyInv /\ CodeInv /\ TreeInv /\ ArchInv => [TargetSettled]_vars
  <2> SUFFICES ASSUME PolicyInv, CodeInv, TreeInv, ArchInv, FinishArch, TreeTaken,
                      NEW data, NEW S, NEW act, TargetCall(data), Agrees(S, data),
                      Decides(rules, 1..Len(rules), data["nr"], S, act)
               PROVE  Settled(data, act)'
    BY DEF TargetSettled
  <2>1. stage' = "arch" BY DEF FinishArch
  <2> SUFFICES ASSUME Fits(code') PROVE Goes(code'.buf, data, entry', AtEntry(data), act)
    BY <2>1 DEF Settled, Fits
  <2> DEFINE nr == data["nr"]
             st == AtEntry(data)
  <2>2. RangesOK(rules) BY DEF TreeInv, FinishArch, Generating
  <2>3. nr \in Numbers BY DEF TargetCall
  <2>4. PICK m \in 1..Len(rules) : Covers(rules[m], nr) /\ Takes(rules[m], data, act)
    BY <2>2, <2>3, DecidedTakes
  <2>5. nr \in rules[m].first..rules[m].last
    <3>1. PICK E : rules \in Seq(RuleType(E, Actions)) BY <2>2 DEF RangesOK
    <3>2. rules[m] \in RuleType(E, Actions) BY <3>1
    <3>3. rules[m].first \in Nat /\ rules[m].last \in Nat BY <3>2, MaxSyscallNr DEF RuleType, Numbers
    <3>4. nr \in Nat BY <2>3, MaxSyscallNr DEF Numbers
    <3> QED BY <2>4, <3>3, <3>4 DEF Covers
  <2>6. IsState(st) /\ st.a = data["arch"] /\ st.x = 0 /\ st.m = <<>> BY DEF IsState, AtEntry, Starting
  <2>7. st.x \in Nat /\ st.m \in Slots
    <3> HIDE DEF st
    <3> QED BY <2>6, NothingStored
  <2>8. st.a = Archs[Lowest(todo)] BY <2>6 DEF TargetCall
  <2> HIDE DEF st
  <2>9. Goes(code'.buf, data, entry', st, act) BY <2>4, <2>5, <2>6, <2>7, <2>8, TargetDecides
  <2> QED BY <2>9 DEF st
<1> QED BY <1>1, PoliciesKept, CodeKept, TreeKept, ArchsOnTheirOwn, PTL DEF Spec

(* The targets that are done. *)
Finished == TargetArchs \ todo

SettledStays ==
  stage \in Collecting =>
    \A a \in Finished : \A data, act :
      data["arch"] = Archs[a] /\ Settled(data, act) => Settled(data, act)'

(* What a call of a finished target gets it keeps, through the code of the *)
(* targets that follow and into the program that kafel_compile returns.    *)
THEOREM AnswersKept == Spec => [][SettledStays]_vars
<1>1. PolicyInv /\ RulesInv /\ LevelsInv /\ CodeInv /\ ArchInv /\ ProgramsInv' /\ [Next]_vars
      => [SettledStays]_vars
  <2> SUFFICES ASSUME PolicyInv, RulesInv, LevelsInv, CodeInv, ProgramsInv', Next, stage \in Collecting,
                      NEW a \in Finished, NEW data, NEW act,
                      data["arch"] = Archs[a], Settled(data, act)
               PROVE  Settled(data, act)'
    BY DEF SettledStays
  <2> DEFINE st == AtEntry(data)
  <2>0. st.a = Archs[a] BY DEF AtEntry
  <2>1. Fits(code) => Goes(code.buf, data, entry, st, act) BY DEF Settled, Collecting
  <2> HIDE DEF st
  <2>2. ASSUME stage' # "done", Fits(code') => Goes(code'.buf, data, entry', st, act)
        PROVE  Settled(data, act)'
    BY <2>2 DEF Settled, Fits, st
  <2>3. CASE FinishCode
    <3> SUFFICES ASSUME result' = "ok", ~code'.missed, EntryNewest'
                 PROVE  DecidesCall(programs'[Len(programs')], data, act)
      <4>1. stage' = "done" BY <2>3 DEF FinishCode, Finish
      <4> QED BY <4>1 DEF Settled
    <3>1. stage' = "done" BY <2>3 DEF FinishCode, Finish
    <3>2. StartsAt(code'.buf, entry') BY <3>1 DEF EntryNewest, StartsAt
    <3>3. Fits(code)
      <4>1. ~code.missed BY <2>3, FinishAdds DEF Adds
      <4>2. code'.stack = code.stack BY <2>3, FinishStack
      <4>3. ~(code'.stack >= BPF_MEMWORDS)
        <5>1. "size" # "ok" OBVIOUS
        <5> QED BY <2>3, <5>1 DEF FinishCode, Finish
      <4>4. code.stack \in Nat BY DEF CodeInv, CtxOK
      <4>5. code.stack < BPF_MEMWORDS BY <4>2, <4>3, <4>4, CodegenConstants
      <4> QED BY <4>1, <4>5 DEF Fits
    <3>4. Goes(code.buf, data, entry, [a |-> data["arch"], x |-> Starting.x, m |-> Starting.m], act)
      BY <2>1, <3>3 DEF st, AtEntry
    <3>5. DecidesCall(Reversed(code'.buf), data, act) BY <2>3, <3>2, <3>4, CallFinished
    <3>6. programs'[Len(programs')] = Reversed(code'.buf) BY <3>1 DEF ProgramsInv
    <3> QED BY <3>5, <3>6
  <2>4. CASE GenerateCode
    <3>1. stage' # "done" /\ entry' = entry BY <2>4, GenerateStages DEF GenerateCode
    <3>2. Extends(code'.buf, code.buf) BY <2>4, GeneratedAdds DEF Adds
    <3>2a. Fits(code') => Fits(code) BY <2>4, GeneratedFits
    <3>3. Fits(code') => Goes(code'.buf, data, entry', st, act) BY <2>1, <3>1, <3>2, <3>2a, GoesStill
    <3> QED BY <2>2, <3>1, <3>3
  <2>5. CASE FinishArch
    <3>1. stage' # "done" BY <2>5 DEF FinishArch
    <3>2. a \in DOMAIN Archs /\ Lowest(todo) \in DOMAIN Archs /\ a # Lowest(todo)
      <4>1. todo \subseteq TargetArchs /\ todo # {} BY <2>5 DEF FinishArch, PolicyInv, Collecting
      <4>2. todo \subseteq Nat BY <4>1, ArchNumbers
      <4>3. Lowest(todo) \in todo BY <4>1, <4>2, LowestIn
      <4> QED BY <4>1, <4>3, ArchNumbers DEF Finished
    <3>3. st.a # Archs[Lowest(todo)] BY <2>0, <3>2, ArchNames
    <3>4. Fits(code') => ~code'.missed /\ Fits(code) BY <2>5, TargetChosen, TargetStack DEF Adds, Fits
    <3>5. Fits(code') => Goes(code'.buf, data, entry', st, act) BY <2>1, <2>5, <3>3, <3>4, TargetChosen
    <3> QED BY <2>2, <3>1, <3>5
  <2>6. CASE BeginArch \/ CollectRules \/ NormalizeRules \/ BeginRules
    <3>1. stage' # "done" /\ UNCHANGED <<code, entry>>
      <4>1. CASE BeginArch BY <4>1 DEF BeginArch, genVars
      <4>2. CASE CollectRules
        BY <4>2 DEF CollectRules, LeaveBody, UsePolicy, ActionEntry, RulesComplete, genVars, Collecting
      <4>3. CASE NormalizeRules BY <4>3, NormalizeStages DEF NormalizeRules, genVars
      <4>4. CASE BeginRules BY <4>4 DEF BeginRules
      <4> QED BY <2>6, <4>1, <4>2, <4>3, <4>4
    <3> QED BY <2>1, <2>2, <3>1
  <2>7. CASE Validate \/ BeginCode \/ Returned
    BY <2>7 DEF Validate, BeginCode, Returned, Collecting
  <2>8. CASE CompileText
    <3>1. stage \in {"idle", "done", "parse"}
      BY <2>8 DEF CompileText, Compile, Parse, DefineConst, DefinePolicy, MainStatements, DefaultAction,
                  Include, EndOfInput, Reading
    <3> QED BY <3>1 DEF Collecting
  <2> QED BY <2>3, <2>4, <2>5, <2>6, <2>7, <2>8 DEF Next
<1> QED BY <1>1, ProgramsKept, PoliciesKept, RulesKept, LevelsKept, CodeKept, ArchsOnTheirOwn, PTL DEF Spec
=============================================================================
