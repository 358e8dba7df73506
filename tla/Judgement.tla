----------------------------- MODULE Judgement -----------------------------
(***************************************************************************)
(* What a judgement is to its caller, whatever goes on inside it: one      *)
(* program, which may be admitted to run, and one answer, an error or a    *)
(* verdict on how the program ended.  No hooks, threads, signals or pipes. *)
(***************************************************************************)
EXTENDS Integers

VARIABLES program,  \* "none", "setup", "admitted", "over"; "abandoned" if never admitted
          death,    \* how the program's process ended: [how, code, sig]
          answer    \* "pending", "error" or a verdict

jvars == <<program, death, answer>>

Alive == [how |-> "none", code |-> 0, sig |-> "none"]

(* A verdict says how the program ended: OK, or a limit exceeded, of exit  *)
(* code 0, an exit code exception of every other, neither of a signal.     *)
Permitted(d) ==
  CASE d.how = "exited" /\ d.code = 0 -> {"OK", "MLE", "TLE"}
    [] d.how = "exited" /\ d.code # 0 -> {"ECE"}
    [] OTHER -> {"RE", "MLE", "TLE", "OLE", "SE", "DSC"}

Init == program = "none" /\ death = Alive /\ answer = "pending"

Begin == /\ program = "none" /\ answer = "pending"
         /\ program' = "setup"
         /\ UNCHANGED <<death, answer>>

(* No program is let run for a caller who has had an answer.               *)
Admit == /\ program = "setup" /\ answer = "pending"
         /\ program' = "admitted"
         /\ UNCHANGED <<death, answer>>

End == /\ \/ program = "setup" /\ program' = "abandoned"
          \/ program = "admitted" /\ program' = "over"
       /\ death = Alive /\ death'.how \in {"exited", "signaled"}
       /\ UNCHANGED answer

(* An error leaves no program running ...                                  *)
Refuse == /\ answer = "pending" /\ program # "admitted"
          /\ answer' = "error"
          /\ UNCHANGED <<program, death>>

(* ... one that runs is killed by the step that answers.                   *)
GiveUp == /\ answer = "pending" /\ program = "admitted"
          /\ answer' = "error" /\ program' = "over"
          /\ death'.how = "signaled"

Judge == /\ answer = "pending" /\ program = "over"
         /\ answer' \in Permitted(death)
         /\ UNCHANGED <<program, death>>

Next == Begin \/ Admit \/ End \/ Refuse \/ GiveUp \/ Judge

Spec == Init /\ [][Next]_jvars

=============================================================================
