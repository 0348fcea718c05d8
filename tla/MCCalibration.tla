--------------------------- MODULE MCCalibration ---------------------------
(* Calibration for TLC: many curves with one search alone, and a few settings *)
(* in which searches, commands and a power switch meet.                       *)
EXTENDS Calibration

\* A curve with its bottom at b; z holds, for the left and the right, how far
\* from the bottom the flicker is below 20 %, below 50 %, and measurable.
MCCurve(b, z, low, slope) ==
  [v \in Min .. Max |->
     LET d == IF v < b THEN b - v ELSE v - b
         side == IF v < b THEN z[1] ELSE z[2]
     IN  CASE d <= side[1] -> low + slope * d
           [] d > side[1] /\ d <= side[2] -> 2001 + 10 * d
           [] d > side[2] /\ d <= side[3] -> 5001 + 10 * d
           [] OTHER -> Invalid]


MCZones == {<<2, 4, 9>>, <<3, 7, 12>>, <<30, 30, 30>>, <<2, 5, 30>>}
MCInits == Min .. Max
MCNarrow == {<<1, 1, 1>>, <<1, 2, 20>>}

MCCase(curve, init, answers, bound) ==
  [chip |-> "hi8394", curve |-> curve, init |-> init, answers |-> answers,
   probe |-> TRUE, shown |-> TRUE, file |-> TRUE, max |-> 1,
   left |-> [searches |-> bound[1], commands |-> bound[2], powers |-> bound[3]]]

\* One search alone, with every initial VCOM.
MCSearches ==
  {MCCase(MCCurve(b, <<l, r>>, low, 30), i, {}, <<1, 0, 0>>) :
     b \in {3, 4, 8, 12, 15}, l \in MCZones, r \in MCZones, low \in {20, 150}, i \in MCInits}
  \cup {MCCase(MCCurve(b, <<z, z>>, 150, 300), i, {}, <<1, 0, 0>>) :
          b \in {2, 9, 16}, z \in MCNarrow, i \in MCInits}

\* A search that is over soon, and one that takes longer.
MCSoon == MCCurve(10, <<<<2, 4, 9>>, <<2, 4, 9>>>>, 20, 30)
MCLong == MCCurve(10, <<<<2, 4, 9>>, <<2, 4, 9>>>>, 150, 30)

\* Searches, commands and power switches together.
MCBusy ==
  {[c EXCEPT !.chip = k] : k \in {"hi8394", "jd9367"}, c \in
     {MCCase(MCSoon, 9, {}, <<2, 0, 1>>), MCCase(MCLong, 8, {150, 99999}, <<1, 1, 1>>),
      MCCase(MCSoon, 9, {99999}, <<1, 2, 1>>), MCCase(MCSoon, 9, {}, <<0, 3, 2>>)}}
  \cup {[MCCase(MCSoon, 9, {}, <<2, 1, 1>>) EXCEPT !.probe = FALSE, !.file = FALSE],
        [MCCase(MCSoon, 9, {}, <<1, 1, 0>>) EXCEPT !.shown = FALSE]}
  \cup {[MCCase(MCSoon, 9, {}, <<0, 3, 1>>) EXCEPT !.chip = k, !.file = FALSE] :
          k \in {"hi8394", "jd9367"}}

MCScenarios == MCSearches \cup MCBusy
=============================================================================
