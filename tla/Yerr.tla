------------------------------- MODULE Yerr -------------------------------
(***************************************************************************)
(* The error codes of include/yerr.h.  A function of the judger that fails *)
(* stores its code in yerrno and returns it (yreturn); a child process that *)
(* fails exits with it (yexit).                                            *)
(***************************************************************************)
EXTENDS Integers

E_ERRFD       == 3
E_DUP         == 4
E_PIPE        == 5
E_ARGC        == 6
E_FORK        == 7
E_SETPGID     == 8
E_INTACT_EXEC == 10
E_CHILD       == 11
E_WAIT        == 12
E_FILEFD      == 13
E_RSC_LIM     == 15
E_SETRLIMIT   == 16
E_GETRUSAGE   == 17
E_FCNTL       == 19
E_FP          == 20
E_ERROR       == 21
E_POL_IDT     == 22
E_KAFEL       == 23
E_APP_POL     == 24
E_EXEC        == 25
E_BULTIN_POL  == 26

=============================================================================
