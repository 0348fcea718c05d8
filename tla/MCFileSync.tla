---------------------------- MODULE MCFileSync ----------------------------
\* FileSync for TLC: two modules, three files, one of them outside of ./cfg.
EXTENDS FileSync

CONSTANTS f1, f2, f3, m1, m2

E(f, v) == [name |-> f, ver |-> v]
MCOffers ==
  {[mod |-> m1, files |-> <<E(f1, 1), E(f2, 1)>>],
   [mod |-> m1, files |-> <<E(f1, 2), E(f3, 1)>>],
   [mod |-> m2, files |-> <<E(f3, 1), E(f2, 1)>>]}
=============================================================================
