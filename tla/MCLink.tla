------------------------------- MODULE MCLink -------------------------------
\* Link for TLC: a handful of descriptors, a PC that vanishes and returns.
EXTENDS Link
=============================================================================
