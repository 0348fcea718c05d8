---------------------------- MODULE MCPackSocket ----------------------------
\* PackSocket for TLC: three commands of one or two packages, a FIFO of a
\* few bytes.
EXTENDS PackSocket, TLC

\* No command is special, and no liveness is checked.
Symmetry == Permutations(Cmds)
=============================================================================
