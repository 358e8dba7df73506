------------------------------- MODULE Machine -------------------------------
(***************************************************************************)
(* The kernel's filter machine, one instruction at a time, as far as the   *)
(* generated programs use it.  A state is the accumulator a, the index     *)
(* register x and the memory slots m that have been stored to; data is     *)
(* what a program is asked about: [arch, nr, regs].                        *)
(***************************************************************************)
EXTENDS Kafel

INVALID == -1   \* no decision

Source(ins, st) == IF ins.src = "K" THEN ins.k ELSE st.x

(* The kernel takes no program that uses a slot it does not have or loads  *)
(* one that was never stored to.                                           *)
Stuck(ins, st) ==
  \/ ins.op \in {"ST", "LDX"} /\ ins.k >= BPF_MEMWORDS
  \/ ins.op = "LDX" /\ ins.k \notin DOMAIN st.m

Stored(m, k, v) == [n \in DOMAIN m \cup {k} |-> IF n = k THEN v ELSE m[n]]

Effect(ins, st, data) ==
  CASE ins.op = "LD"     -> [st EXCEPT !.a = data[ins.k]]
    [] ins.op = "LD_ARG" -> [st EXCEPT !.a = Word(data.regs[ins.k], ins.word)]
    [] ins.op = "AND"    -> [st EXCEPT !.a = Bits("BIT_AND", @, Source(ins, st))]
    [] ins.op = "OR"     -> [st EXCEPT !.a = Bits("BIT_OR", @, Source(ins, st))]
    [] ins.op = "TAX"    -> [st EXCEPT !.x = st.a]
    [] ins.op = "ST"     -> [st EXCEPT !.m = Stored(@, ins.k, st.a)]
    [] ins.op = "LDX"    -> [st EXCEPT !.x = st.m[ins.k]]
    [] OTHER             -> st

(* How many instructions are passed over. *)
Skip(ins, st) ==
  CASE ins.op = "JA" -> ins.k
    [] ins.op \in {"JEQ", "JGE", "JGT", "JSET"} ->
         IF Jumps(ins.op, st.a, Source(ins, st)) THEN ins.jt ELSE ins.jf
    [] OTHER -> 0
=============================================================================
