------------------------------ MODULE MCShared ------------------------------
(* MCServices and MCVerdicts each hold a number of checks of which one runs,  *)
(* and MCChecks all of them.  What they all keep is declared here once.      *)

VARIABLES
    check,          \* which check runs
    todo,           \* what it has still to do
    status,         \* what it found so far
    pc,             \* where it is
    code            \* its exit code, -1 while it runs
=============================================================================
