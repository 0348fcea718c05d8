--------------------------- MODULE MCPanelPower ----------------------------
(* Small instances of the panel for TLC: the box and one pool worker ask,  *)
(* over a TTL module with its checks and one of a type not known. They     *)
(* switch twice, with a fault and a change of module or while the panel    *)
(* gets hot, or once with everything that may happen outside.              *)
EXTENDS PanelPower

MCConfigs == {[signal |-> "TTL", ntc |-> TRUE, openShort |-> TRUE],
              [signal |-> "none", ntc |-> FALSE, openShort |-> FALSE]}
MCSignals == {"TTL", "LVDS", "MIPI", "EDP"}
MCGuards == {"serial", "ntc"}
MCBudgets == {[call |-> 2, fault |-> 1, heat |-> 0, load |-> 1],
              [call |-> 2, fault |-> 0, heat |-> 1, load |-> 0],
              [call |-> 1, fault |-> 1, heat |-> 1, load |-> 1]}
=============================================================================
