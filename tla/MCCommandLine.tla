--------------------------- MODULE MCCommandLine ---------------------------
(***************************************************************************)
(* CommandLine with ints of five bits and megabytes of two bytes.          *)
(***************************************************************************)
EXTENDS CommandLine

(* No limit, a limit for one and all, single ones on top of it in either   *)
(* direction, and one whose bytes do not fit.                              *)
MCGiven(f) == [n \in OptionNames |-> IF n \in DOMAIN f THEN f[n] ELSE NotGiven]

MCOptions ==
  {MCGiven([n \in {} |-> 0]),
   MCGiven([timeout |-> 3, memory |-> 4]),
   MCGiven([timeout |-> 3, realtime |-> 9, memory |-> 4, stack_memory |-> 0]),
   MCGiven([cputime |-> 2, timeout |-> 5, memory |-> 2, virtual_memory |-> 6, real_memory |-> 3]),
   MCGiven([memory |-> 15, output_size |-> 1, fileno |-> 9])}

MCExpectations == {Nothing, "OK", "SE"}

MCDeaths == {[how |-> "exited", code |-> c, sig |-> NoSignal] : c \in {0, 1}}
            \cup {[how |-> "signaled", code |-> 0, sig |-> "SIGKILL"]}

MCMishaps == {"mkdtemp", "write", "mmap", "fork", "killed", "stopped", "rmdir"}

=============================================================================
