------------------------------- MODULE Meaning -------------------------------
(***************************************************************************)
(* What a policy and a program of the kernel's filter machine mean, apart  *)
(* from the compiler that makes the one of the other.                      *)
(***************************************************************************)
EXTENDS Machine

CONSTANTS Registers,   \* register contents tried on the program of a policy
          Idle         \* those tried where the policy names no argument

-----------------------------------------------------------------------------
(* The decision of a program: it runs from its first instruction to a      *)
(* return, and has none when it gets stuck or past the end.                *)
RECURSIVE Run(_, _, _, _)
Run(prog, pc, st, data) ==
  IF pc \notin DOMAIN prog \/ Stuck(prog[pc], st) THEN INVALID
  ELSE IF prog[pc].op = "RET" THEN prog[pc].k
  ELSE Run(prog, pc + 1 + Skip(prog[pc], st), Effect(prog[pc], st, data), data)

Decision(prog, data) == Run(prog, 1, [a |-> 0, x |-> 0, m |-> <<>>], data)

-----------------------------------------------------------------------------
(* What a policy means, apart from the compiler (kafel/README.md): a used  *)
(* policy's body stands in place of each USE, the target of the first rule *)
(* that matches is the decision, then the default, KILL when there is      *)
(* none; and a foreign architecture is killed.                             *)
RECURSIVE Pasted(_)
Pasted(entries) ==
  IF entries = <<>> THEN <<>>
  ELSE LET e == Head(entries)
           these == IF e.type = "USE" THEN Pasted(Body(e.used))
                    ELSE [k \in DOMAIN e.filters |-> [filter |-> e.filters[k], action |-> e.action]]
       IN these \o Pasted(Tail(entries))

Matches(f, data) ==
  /\ SpecNr(f, data.arch) = data.nr
  /\ f.expr = NULL \/ Holds(ResolveIdentifiers(f.expr, SpecArgs(f, data.arch)), data.regs)

PolicyDecision(pasted, data) ==
  LET hits == {k \in DOMAIN pasted : Matches(pasted[k].filter, data)}
      first == CHOOSE k \in hits : \A m \in hits : k <= m
  IN IF hits = {} THEN default_action ELSE pasted[first].action

(* The calls worth trying: the numbers of the policy and those beside      *)
(* them, the ends of the range, and the registers of a set; a comparison   *)
(* of a narrow argument with a wide operand is tried only with registers   *)
(* that hold a narrow value in that argument.                              *)
ProperFor(f, arch, regs) ==
  f.expr # NULL => Proper(ResolveIdentifiers(f.expr, SpecArgs(f, arch)), regs)

DecidesFor(arch) ==
  LET pasted  == Pasted(Body("@main"))
      prog    == programs[Len(programs)]
      numbers == {SpecNr(pasted[k].filter, arch) : k \in DOMAIN pasted}
      beside  == ({0, MAX_SYSCALL_NR} \cup {n - 1 : n \in numbers} \cup {n + 1 : n \in numbers})
                 \cap (0..MAX_SYSCALL_NR)
      Agrees(nr, regs) == LET data == [arch |-> arch, nr |-> nr, regs |-> regs]
                          IN Decision(prog, data) = PolicyDecision(pasted, data)
  IN /\ \A nr \in beside \ numbers : Agrees(nr, Idle)
     /\ \A nr \in numbers : \A regs \in Registers :
          (\A k \in DOMAIN pasted : ProperFor(pasted[k].filter, arch, regs)) => Agrees(nr, regs)

Compiled == stage = "done" /\ result = "ok"

(* The program that a policy is compiled to decides every call of every    *)
(* targeted architecture as the policy does ("Target of first rule matched *)
(* is the policy decision"), and kills every call of any other one.  Left  *)
(* aside is a program one of whose jumps did not fit (see JumpsReach).     *)
CallsDecided ==
  Compiled /\ ~code.missed =>
    /\ \A a \in TargetArchs : DecidesFor(Archs[a])
    /\ \A a \in DOMAIN Archs \ TargetArchs :
         Decision(programs[Len(programs)], [arch |-> Archs[a], nr |-> 0, regs |-> Idle]) = ACTION_KILL

(* It does so if its code begins with the instruction written last:        *)
(* range_rules.c, expression.c and codegen.c together, against the meaning *)
(* kafel/README.md gives to a policy.                                      *)
FilterDecides == EntryNewest => CallsDecided
=============================================================================
