---------------------------- MODULE FlickSearch ----------------------------
(* The search for the VCOM with the least flicker: z_auto_flick_2 of          *)
(* mipiflick.c. It aims at a VCOM, has the probe measure it and judges the    *)
(* answer. The record s of these operators stands for the parameters of the   *)
(* recursion: a call that calls itself again is one Aimed and one Judged. A   *)
(* reading f is in hundredths of a percent.                                   *)
EXTENDS Integers

CONSTANTS
  Min, Max,      \* minvalue and maxvalue of the module's VCOM
  MinOk, MaxOk   \* f_ok_flick and f_max_valid_flick, times 100

Invalid == 99999   \* (int) INVALID_FLICK_VALUE: out of range, or no answer
MaxTurns == 5      \* s_max_change_direct_cnt
MaxErrs == 10      \* s_max_error_cnt

\* The range holds the longest step.
ASSUME FlickSearchAssumption ==
  /\ Min \in Nat /\ Max \in Nat /\ Max - Min >= 10
  /\ MinOk \in Int /\ MaxOk \in Int

Idle == [at |-> "idle", vcom |-> 0, flick |-> 0, dir |-> 0, turns |-> 0,
         errs |-> 0, aim |-> 0, out |-> "none"]

\* The first call: the VCOM measured is the initial one, no direction yet.
Begin(v, f) == [Idle EXCEPT !.at = "aim", !.vcom = v, !.flick = f]

Bright(f) == f >= 0 /\ f < Invalid
StepOf(f) == CASE ~Bright(f) -> 10
               [] Bright(f) /\ f > 5000 -> 5
               [] f > 2000 /\ f <= 5000 -> 3
               [] OTHER -> 1

\* From an end of the range itself only a reading that is no value goes on.
LeftOpen(s) == /\ s.vcom > Min + StepOf(s.flick)
               /\ s.vcom < Max \/ (~Bright(s.flick) /\ s.vcom = Max)
RightOpen(s) == /\ s.vcom < Max - StepOf(s.flick)
                /\ s.vcom > Min \/ (~Bright(s.flick) /\ s.vcom = Min)

\* Mutant: the ends are not watched.
AimedPastEnd(s) ==
  LET step == StepOf(s.flick) IN
  [s EXCEPT !.at = "judge", !.errs = IF Bright(s.flick) THEN @ ELSE @ + 1,
            !.aim = IF s.dir = -1 THEN s.vcom - step ELSE s.vcom + step]

\* The next VCOM: a step on, or, at an end, back into the range.
Aimed(s) ==
  LET step == StepOf(s.flick)
      t == [s EXCEPT !.at = "judge",
                     !.errs = IF Bright(s.flick) THEN @ ELSE @ + 1]
  IN  IF s.dir = -1
      THEN IF LeftOpen(s)
           THEN [t EXCEPT !.aim = s.vcom - step]
           ELSE [t EXCEPT !.aim = Min + step, !.dir = 1, !.turns = @ + 1]
      ELSE IF RightOpen(s)
           THEN [t EXCEPT !.aim = s.vcom + step]
           ELSE [t EXCEPT !.aim = Max - step, !.dir = -1, !.turns = @ + 1]

Found(s, v, f) == [s EXCEPT !.at = "done", !.out = "found", !.vcom = v, !.flick = f]
Without(s, o) == [s EXCEPT !.at = "done", !.out = o, !.vcom = 0, !.flick = 0]

\* Mutant: at the bottom the VCOM just measured is taken, not the one before.
JudgedLate(s, f) ==
  LET worse == f > 0 /\ s.flick > 0 /\ s.flick < f
      t == IF worse THEN [s EXCEPT !.dir = IF @ = 0 THEN -1 ELSE -@, !.turns = @ + 1]
           ELSE s
  IN  IF \/ worse /\ StepOf(s.flick) = 1 /\ s.turns >= 1
         \/ f > 0 /\ f < MinOk
         \/ f > 0 /\ f < MaxOk /\ t.turns >= MaxTurns
      THEN Found(s, s.aim, f)
      ELSE IF s.errs >= MaxErrs /\ f >= Invalid THEN Without(s, "lost")
      ELSE IF t.turns >= MaxTurns THEN Without(s, "failed")
      ELSE [t EXCEPT !.at = "aim", !.vcom = s.aim, !.flick = f]

\* The reading f of the VCOM aimed at: found, given up ("lost" is the return
\* of 0 with nothing found, "failed" that of -1), or go on from there.
Judged(s, f) ==
  LET worse == f > 0 /\ s.flick > 0 /\ s.flick < f
      t == IF worse THEN [s EXCEPT !.dir = IF @ = 0 THEN -1 ELSE -@, !.turns = @ + 1]
           ELSE s
  IN  IF worse /\ StepOf(s.flick) = 1 /\ s.turns >= 1
      THEN Found(s, s.vcom, s.flick)
      ELSE IF f > 0 /\ f < MinOk THEN Found(s, s.aim, f)
      ELSE IF f > 0 /\ f < MaxOk /\ t.turns >= MaxTurns
      THEN IF s.flick < f THEN Found(s, s.vcom, s.flick) ELSE Found(s, s.aim, f)
      ELSE IF s.errs >= MaxErrs /\ f >= Invalid THEN Without(s, "lost")
      ELSE IF t.turns >= MaxTurns THEN Without(s, "failed")
      ELSE [t EXCEPT !.at = "aim", !.vcom = s.aim, !.flick = f]

-----------------------------------------------------------------------------
\* How far a search may still go in its direction.
Rest(s) == LET v == IF s.at = "aim" THEN s.vcom ELSE s.aim IN
           IF s.dir = -1 THEN v - Min ELSE Max - v

\* A VCOM aimed at is in the module's range; five turns end a search.
InBounds(s) == s.at = "judge" => s.aim \in Min .. Max /\ s.turns <= MaxTurns

\* A search that goes on from s to t turns, or has less way left.
Advances(s, t) ==
  s.at \in {"aim", "judge"} /\ t.at \in {"aim", "judge"} =>
    \/ t.turns > s.turns
    \/ /\ t.turns = s.turns
       /\ IF s.at = "aim" THEN Rest(t) < Rest(s) ELSE Rest(t) = Rest(s)
=============================================================================
