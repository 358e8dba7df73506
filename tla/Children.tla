------------------------------ MODULE Children ------------------------------
(***************************************************************************)
(* What the forked children of both judgers do alike between fork and      *)
(* execve: they take on the resource limits and the seccomp filter, and a  *)
(* step that fails sends the child to its FAILED signal and its exit.      *)
(***************************************************************************)
EXTENDS Session

ChildAt(p, from, to) == at[p] = from /\ at' = [at EXCEPT ![p] = to]

(* yreturn(e), on the way to the FAILED signal.                            *)
ChildFails(p, from, e) == /\ ChildAt(p, from, "failing")
                          /\ yerrno' = [yerrno EXCEPT ![p] = e]

(* real_time is not among the limits looked at.                            *)
CheckedLimits == {"cpu_time", "virtual_memory", "actual_memory", "stack_memory",
                  "output_size", "fileno"}
SetLimits == CheckedLimits \ {"actual_memory"}

(* A failed apply_resource_limit that the child does not notice.           *)
apply_resource_limit_unchecked(p) ==
  /\ ChildAt(p, "wired", "limited")
  /\ limited' = IF \A l \in CheckedLimits : rctxt[l] >= 0
                THEN limited \cup {p} ELSE limited
  /\ UNCHANGED <<yerrno, group, confined, obit>>

apply_resource_limit(p) ==
  /\ \/ /\ \A l \in CheckedLimits : rctxt[l] >= 0
        /\ ChildAt(p, "wired", "limited")
        /\ limited' = limited \cup {p}
        /\ UNCHANGED yerrno
     \/ /\ \E l \in CheckedLimits : rctxt[l] < 0
        /\ ChildFails(p, "wired", E_RSC_LIM)
        /\ UNCHANGED limited
     \/ /\ \A l \in CheckedLimits : rctxt[l] >= 0
        /\ \E l \in SetLimits : rctxt[l] > 0
        /\ Fails("setrlimit")
        /\ ChildFails(p, "wired", E_SETRLIMIT)
        /\ UNCHANGED limited
  /\ UNCHANGED <<group, confined, obit>>

apply_policy(p, from) ==
  /\ \/ /\ ChildAt(p, from, "confined")
        /\ confined' = confined \cup {p}
        /\ UNCHANGED yerrno
     \/ Fails("seccomp") /\ ChildFails(p, from, E_APP_POL) /\ UNCHANGED confined
  /\ UNCHANGED <<group, limited, obit>>

ChildExits(p) ==
  /\ at[p] = "exiting"
  /\ Die({p}, Exited(yerrno[p]), "program")
  /\ UNCHANGED <<group, limited, confined, yerrno>>

(* execve, under a policy that may not allow it.                           *)
ChildExec(p) ==
  /\ \/ ChildAt(p, "ready", "running") /\ UNCHANGED <<obit, yerrno>>
     \/ /\ Fails("execve")
        /\ ChildAt(p, "ready", "exiting")
        /\ yerrno' = [yerrno EXCEPT ![p] = E_EXEC]
        /\ UNCHANGED obit
     \/ /\ Fails("execve_policy")
        /\ at[p] = "ready"
        /\ Die({p}, Signaled("SIGSYS"), "kernel")
        /\ UNCHANGED yerrno
  /\ UNCHANGED <<group, limited, confined>>

=============================================================================
