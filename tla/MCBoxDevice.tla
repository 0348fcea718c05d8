---------------------------- MODULE MCBoxDevice ----------------------------
(* Small instances of the box for TLC: none or two modules with two        *)
(* patterns each.                                                          *)
EXTENDS BoxDevice

MCPatterns == [m \in Modules |-> 2]

At(cfg, pwr, key, silence, power, sync) ==
  [cfg |-> cfg, pwr |-> pwr, files |-> Modules,
   left |-> [key |-> key, silence |-> silence, power |-> power, sync |-> sync,
             upgrade |-> Upgrades]]

\* No module: a key and a silence.
LiveStarts == {At(NoName, 0, 1, 1, 0, 0)}

\* module.ini names a module, or is missing; the panel is on or off.
NavStarts ==
  {At(NoFile, 0, 2, 1, 0, 1)} \cup
  UNION {{At(m, 0, 3, 1, 0, 1), At(m, 1, 2, 1, 0, 1), At(m, 0, 3, 0, 1, 0),
          At(m, 1, 4, 0, 0, 1)} : m \in Modules \ Broken}
=============================================================================
