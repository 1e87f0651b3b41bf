--------------------------- MODULE MCCommandLine ---------------------------
(* Three commands, any of which may run at once; they are interchangeable. *)
EXTENDS CommandLine, TLC

CONSTANTS p1, p2, p3

Processes == Permutations(Process)
=============================================================================
