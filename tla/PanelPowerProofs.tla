-------------------------- MODULE PanelPowerProofs --------------------------
(***************************************************************************)
(* Proofs about client_pg_shutON, for every set of callers and of modules: *)
(* the types, and that a switch nobody overlapped leaves the status, the   *)
(* PC, the polling and the FPGA agreeing with the rails.                   *)
(*                                                                         *)
(* The inductive invariant says of a call that is alone how far it has     *)
(* come (Progress); a call is alone only while all others are outside      *)
(* (Lone), so nothing disturbs what it has done.  Quiet carries the result *)
(* over the time between two switches, through calls that switch nothing.  *)
(***************************************************************************)
EXTENDS PanelPower, TLAPS

OnPath == {"unpause", "show", "signal", "tellOn", "setOn"}
OffPath == {"pause", "close", "tellOff", "setOff"}

Agree ==
  /\ status = board.on /\ told = board.on /\ output = board.on
  /\ paused.power = ~board.on

\* What a call that is alone has done when it stands at its place.
Progress(t) ==
  /\ pc[t] \in OnPath => board.on
  /\ pc[t] \in {"show", "signal", "tellOn", "setOn"} => ~paused.power
  /\ pc[t] \in {"tellOn", "setOn"} => output
  /\ pc[t] = "setOn" => told
  /\ pc[t] = "success" /\ switched[t] => Agree
  /\ pc[t] \in OffPath => ~board.on
  /\ pc[t] \in {"close", "tellOff", "setOff"} => paused.power
  /\ pc[t] \in {"tellOff", "setOff"} => ~output
  /\ pc[t] = "setOff" => ~told

Track == \A t \in Threads :
  /\ pc[t] \in OnPath \cup OffPath => switched[t]
  /\ pc[t] \in {"out", "on", "off"} => ~switched[t]
  /\ pc[t] = "out" => ~alone[t]

Lone == \A t, u \in Threads : alone[t] /\ u # t => pc[u] = "out"

Quiet == settled /\ (\A t \in Threads : ~switched[t]) => Agree

-----------------------------------------------------------------------------
(* Types                                                                   *)

Places == {"out", "on", "unpause", "show", "signal", "tellOn",
           "setOn", "success", "off", "pause", "close", "tellOff", "setOff"}

ControlOK ==
  /\ pc \in [Threads -> Places]
  /\ switched \in [Threads -> BOOLEAN]
  /\ alone \in [Threads -> BOOLEAN]
  /\ settled \in BOOLEAN

DataOK ==
  /\ board \in [on : BOOLEAN, fault : BOOLEAN]
  /\ line \in Seq(BOOLEAN) /\ Len(line) <= MaxLine
  /\ paused \in [power : BOOLEAN, ntc : BOOLEAN]
  /\ status \in BOOLEAN /\ told \in BOOLEAN /\ output \in BOOLEAN
  /\ cfg \in Configs /\ hot \in BOOLEAN
  /\ poll \in {"check", "ask"}

LEMMA TypeParts == TypeOK <=> ControlOK /\ DataOK
BY Zenon DEF TypeOK, ControlOK, DataOK, Places

LEMMA EnterTypes ==
  ASSUME ControlOK, NEW t \in Threads, NEW l \in Places, Enter(t, l), UNCHANGED settled
  PROVE  ControlOK'
<1>1. pc' \in [Threads -> Places] /\ switched' \in [Threads -> BOOLEAN]
  BY Zenon DEF ControlOK, Enter, Goto
<1>2. \A u \in Threads : (IF u = t THEN Inside = {} ELSE FALSE) \in BOOLEAN
  OBVIOUS
<1>3. alone' \in [Threads -> BOOLEAN]
  BY <1>2, Zenon DEF Enter
<1>. QED
  BY <1>1, <1>3, Zenon DEF ControlOK

LEMMA StepTypes ==
  ASSUME ControlOK, NEW t \in Threads, NEW l \in Places, Step(t, l)
  PROVE  ControlOK'
BY Zenon DEF ControlOK, Step, Goto

LEMMA SwitchTypes ==
  ASSUME ControlOK, NEW t \in Threads, NEW l \in Places, Goto(t, l),
         switched' = [switched EXCEPT ![t] = TRUE], UNCHANGED <<alone, settled>>
  PROVE  ControlOK'
BY Zenon DEF ControlOK, Goto

LEMMA LeaveTypes ==
  ASSUME ControlOK, NEW t \in Threads, NEW agreed \in BOOLEAN, LeaveAs(t, agreed)
  PROVE  ControlOK'
<1>1. pc' \in [Threads -> Places]
  BY Zenon DEF ControlOK, LeaveAs, Goto, Places
<1>2. switched' \in [Threads -> BOOLEAN] /\ alone' \in [Threads -> BOOLEAN]
  BY Zenon DEF ControlOK, LeaveAs
<1>3. settled' \in BOOLEAN
  BY Zenon DEF ControlOK, LeaveAs
<1>. QED
  BY <1>1, <1>2, <1>3, Zenon DEF ControlOK

LEMMA TypeStep == TypeOK /\ [Next]_vars => TypeOK'
<1> SUFFICES ASSUME ControlOK, DataOK, [Next]_vars PROVE ControlOK' /\ DataOK'
  BY TypeParts, PTL
<1>1. ASSUME NEW t \in Threads, FileMissing(t) PROVE ControlOK' /\ DataOK'
  <2>1. ControlOK'
    BY <1>1, StepTypes DEF FileMissing, Places, ControlOK
  <2>2. DataOK'
    BY <1>1 DEF FileMissing, DataOK, outside
  <2>. QED
    BY <2>1, <2>2
<1>2. ASSUME NEW t \in Threads, OpenShort(t) PROVE ControlOK' /\ DataOK'
  <2>1. ControlOK'
    BY <1>2, StepTypes, LeaveTypes DEF OpenShort, Leave, Places, ControlOK
  <2>2. DataOK'
    BY <1>2 DEF OpenShort, Leave, DataOK, outside
  <2>. QED
    BY <2>1, <2>2
<1>3. ASSUME NEW t \in Threads, SwitchOn(t) PROVE ControlOK' /\ DataOK'
  <2>1. ControlOK'
    BY <1>3, SwitchTypes DEF SwitchOn, Places, ControlOK
  <2>2. DataOK'
    BY <1>3 DEF SwitchOn, DataOK, outside
  <2>. QED
    BY <2>1, <2>2
<1>4. ASSUME NEW t \in Threads, Unpause(t) PROVE ControlOK' /\ DataOK'
  <2>1. ControlOK'
    BY <1>4, StepTypes DEF Unpause, Places, ControlOK
  <2>2. DataOK'
    BY <1>4 DEF Unpause, DataOK, outside
  <2>. QED
    BY <2>1, <2>2
<1>5. ASSUME NEW t \in Threads, InitSignal(t) PROVE ControlOK' /\ DataOK'
  <2>1. ControlOK'
    BY <1>5, StepTypes, LeaveTypes DEF InitSignal, Leave, Places, ControlOK
  <2>2. DataOK'
    BY <1>5 DEF InitSignal, Leave, DataOK, outside
  <2>. QED
    BY <2>1, <2>2
<1>6. ASSUME NEW t \in Threads, OpenSignal(t) PROVE ControlOK' /\ DataOK'
  <2>1. ControlOK'
    BY <1>6, StepTypes DEF OpenSignal, Places, ControlOK
  <2>2. DataOK'
    BY <1>6 DEF OpenSignal, DataOK, outside
  <2>. QED
    BY <2>1, <2>2
<1>7. ASSUME NEW t \in Threads, TellOn(t) PROVE ControlOK' /\ DataOK'
  <2>1. ControlOK'
    BY <1>7, StepTypes DEF TellOn, Places, ControlOK
  <2>2. DataOK'
    BY <1>7 DEF TellOn, DataOK, outside
  <2>. QED
    BY <2>1, <2>2
<1>8. ASSUME NEW t \in Threads, SetOn(t) PROVE ControlOK' /\ DataOK'
  <2>1. ControlOK'
    BY <1>8, StepTypes DEF SetOn, Places, ControlOK
  <2>2. DataOK'
    BY <1>8 DEF SetOn, DataOK, outside
  <2>. QED
    BY <2>1, <2>2
<1>9. ASSUME NEW t \in Threads, Success(t) PROVE ControlOK' /\ DataOK'
  <2>1. ControlOK'
    BY <1>9, LeaveTypes DEF Success, Leave, Places, ControlOK
  <2>2. DataOK'
    BY <1>9 DEF Success, Leave, DataOK, outside
  <2>. QED
    BY <2>1, <2>2
<1>10. ASSUME NEW t \in Threads, SwitchOff(t) PROVE ControlOK' /\ DataOK'
  <2>1. ControlOK'
    BY <1>10, SwitchTypes DEF SwitchOff, Places, ControlOK
  <2>2. DataOK'
    BY <1>10 DEF SwitchOff, DataOK, outside
  <2>. QED
    BY <2>1, <2>2
<1>11. ASSUME NEW t \in Threads, Pause(t) PROVE ControlOK' /\ DataOK'
  <2>1. ControlOK'
    BY <1>11, StepTypes DEF Pause, Places, ControlOK
  <2>2. DataOK'
    BY <1>11 DEF Pause, DataOK, outside
  <2>. QED
    BY <2>1, <2>2
<1>12. ASSUME NEW t \in Threads, CloseSignal(t) PROVE ControlOK' /\ DataOK'
  <2>1. ControlOK'
    BY <1>12, StepTypes DEF CloseSignal, Places, ControlOK
  <2>2. DataOK'
    BY <1>12 DEF CloseSignal, DataOK, outside
  <2>. QED
    BY <2>1, <2>2
<1>13. ASSUME NEW t \in Threads, TellOff(t) PROVE ControlOK' /\ DataOK'
  <2>1. ControlOK'
    BY <1>13, StepTypes DEF TellOff, Places, ControlOK
  <2>2. DataOK'
    BY <1>13 DEF TellOff, DataOK, outside
  <2>. QED
    BY <2>1, <2>2
<1>14. ASSUME NEW t \in Threads, SetOff(t) PROVE ControlOK' /\ DataOK'
  <2>1. ControlOK'
    BY <1>14, LeaveTypes DEF SetOff, Leave, Places, ControlOK
  <2>2. DataOK'
    BY <1>14 DEF SetOff, Leave, DataOK, outside
  <2>. QED
    BY <2>1, <2>2
<1>15. CASE PollCheck
  BY <1>15 DEF PollCheck, notPoll, ControlOK, DataOK
<1>16. CASE PollAsk
  <2>1. Len(line') = Len(line) + 1 /\ line' \in Seq(BOOLEAN)
    BY <1>16 DEF PollAsk, DataOK
  <2>2. Len(line') <= MaxLine
    BY <1>16, <2>1, PowerAssumption DEF PollAsk, DataOK
  <2>. QED
    BY <1>16, <2>1, <2>2, Zenon DEF PollAsk, notPoll, ControlOK, DataOK
<1>17. CASE CheckPwr
  <2>1. Len(line') <= MaxLine /\ line' \in Seq(BOOLEAN)
    <3>1. line \in Seq(BOOLEAN) /\ line # <<>> /\ line' = Tail(line)
      BY <1>17 DEF CheckPwr, DataOK
    <3>2. line' \in Seq(BOOLEAN) /\ Len(line') = Len(line) - 1 /\ Len(line) \in Nat
      BY <3>1
    <3>3. Len(line) <= MaxLine /\ MaxLine \in Nat
      BY PowerAssumption DEF DataOK
    <3>. QED
      BY <3>2, <3>3
  <2>2. DataOK'
    BY <1>17, <2>1, Zenon DEF CheckPwr, DataOK
  <2>3. CASE Head(line)
    BY <1>17, <2>2, <2>3, PowerAssumption, EnterTypes DEF CheckPwr, Places, Threads
  <2>4. CASE ~Head(line)
    BY <1>17, <2>2, <2>4, Zenon DEF CheckPwr, ControlOK
  <2>. QED
    BY <2>3, <2>4
<1>18. CASE NtcMonitor
  <2>1. ControlOK'
    BY <1>18, PowerAssumption, EnterTypes DEF NtcMonitor, Places, Threads
  <2>. QED
    BY <1>18, <2>1, Zenon DEF NtcMonitor, DataOK
<1>19. CASE \E t \in Callers : Call(t, "on") \/ Call(t, "off")
  <2>1. PICK t \in Callers, l \in {"on", "off"} : Call(t, l)
    BY <1>19
  <2>2. ControlOK'
    BY <2>1, EnterTypes DEF Call, Places, Threads
  <2>. QED
    BY <2>1, <2>2, Zenon DEF Call, DataOK
<1>20. CASE Fault
  <2>1. board' \in [on : BOOLEAN, fault : BOOLEAN]
    BY <1>20, Zenon DEF Fault, DataOK
  <2>. QED
    BY <1>20, <2>1, Zenon DEF Fault, notOutside, ControlOK, DataOK
<1>21. CASE Heat
  BY <1>21, Zenon DEF Heat, notOutside, ControlOK, DataOK
<1>22. CASE LoadModule
  BY <1>22, Zenon DEF LoadModule, notOutside, ControlOK, DataOK
<1>23. CASE UNCHANGED vars
  BY <1>23, Zenon DEF vars, ControlOK, DataOK
<1>. QED
  BY <1>1, <1>2, <1>3, <1>4, <1>5, <1>6, <1>7, <1>8, <1>9, <1>10, <1>11, <1>12, <1>13, <1>14, <1>15, <1>16, <1>17, <1>18, <1>19, <1>20, <1>21, <1>22, <1>23 DEF Next, ShutOn, Outside

-----------------------------------------------------------------------------
(* Who is alone, and how far it has come                                   *)

LEMMA StepKeeps ==
  ASSUME ControlOK, Track, Lone, NEW t \in Threads, NEW l \in Places, Step(t, l),
         pc[t] # "out", l # "out",
         l \in OnPath \cup OffPath => switched[t],
         l \in {"on", "off"} => ~switched[t]
  PROVE  Track' /\ Lone'
<1>1. /\ pc'[t] = l /\ switched' = switched /\ alone' = alone
      /\ \A u \in Threads : u # t => pc'[u] = pc[u]
  BY DEF Step, Goto, ControlOK
<1>2. Track'
  BY <1>1 DEF Track, OnPath, OffPath
<1>3. Lone'
  BY <1>1 DEF Lone
<1>. QED
  BY <1>2, <1>3

LEMMA SwitchKeeps ==
  ASSUME ControlOK, Track, Lone, NEW t \in Threads, NEW l \in OnPath \cup OffPath, Goto(t, l),
         pc[t] # "out", switched' = [switched EXCEPT ![t] = TRUE], alone' = alone
  PROVE  Track' /\ Lone' /\ switched'[t]
<1>1. /\ pc'[t] = l /\ switched'[t]
      /\ \A u \in Threads : u # t => pc'[u] = pc[u] /\ switched'[u] = switched[u]
  BY DEF Goto, ControlOK
<1>2. Track'
  BY <1>1 DEF Track, OnPath, OffPath
<1>3. Lone'
  BY <1>1 DEF Lone
<1>. QED
  BY <1>1, <1>2, <1>3

LEMMA LeaveKeeps ==
  ASSUME ControlOK, Track, Lone, NEW t \in Threads, NEW agreed, LeaveAs(t, agreed)
  PROVE  /\ Track' /\ Lone'
         /\ ~alone'[t] /\ ~switched'[t] /\ pc'[t] = "out"
         /\ \A u \in Threads : u # t => /\ pc'[u] = pc[u] /\ switched'[u] = switched[u]
                                        /\ alone'[u] = alone[u]
<1>1. /\ pc'[t] = "out" /\ ~switched'[t] /\ ~alone'[t]
      /\ \A u \in Threads : u # t => /\ pc'[u] = pc[u] /\ switched'[u] = switched[u]
                                     /\ alone'[u] = alone[u]
  BY DEF LeaveAs, Goto, ControlOK
<1>2. Track'
  BY <1>1 DEF Track, OnPath, OffPath
<1>3. Lone'
  BY <1>1 DEF Lone
<1>. QED
  BY <1>1, <1>2, <1>3

LEMMA EnterKeeps ==
  ASSUME ControlOK, Track, NEW t \in Threads, NEW l \in {"on", "off"}, Enter(t, l)
  PROVE  /\ Track' /\ Lone' /\ pc'[t] = l
         /\ \A u \in Threads : (switched'[u] <=> switched[u]) /\ (u # t => ~alone'[u])
<1>1. /\ pc'[t] = l /\ ~switched'[t] /\ (alone'[t] <=> Inside = {}) /\ pc[t] = "out" /\ ~switched[t]
      /\ \A u \in Threads : u # t => pc'[u] = pc[u] /\ switched'[u] = switched[u] /\ ~alone'[u]
  BY DEF Enter, Goto, ControlOK, Track
<1>2. Track'
  BY <1>1 DEF Track, OnPath, OffPath
<1>3. Lone'
  BY <1>1 DEF Lone, Inside
<1>. QED
  BY <1>1, <1>2, <1>3

Parts ==
  /\ Track /\ Lone /\ Quiet
  /\ \A t \in Threads : alone[t] => Progress(t)

\* Only the thread that takes a step in client_pg_shutON can be alone.
LEMMA OnlyOne ==
  ASSUME Lone, NEW t \in Threads, pc[t] # "out"
  PROVE  \A u \in Threads : alone[u] => u = t
BY DEF Lone

LEMMA PartsStep == ControlOK /\ DataOK /\ Parts /\ [Next]_vars => Parts'
<1> SUFFICES ASSUME ControlOK, DataOK, Parts, [Next]_vars PROVE Parts'
  OBVIOUS
<1>0. Track /\ Lone /\ Quiet /\ \A t \in Threads : alone[t] => Progress(t)
  BY DEF Parts
<1>1. ASSUME NEW t \in Threads, FileMissing(t) PROVE Parts'
  <2>1. \A u \in Threads : alone[u] => u = t
    BY <1>0, <1>1, OnlyOne DEF FileMissing
  <2>2. Step(t, "success")
    BY <1>1 DEF FileMissing
  <2>3. Track' /\ Lone'
    BY <1>0, <1>1, <2>2, StepKeeps DEF FileMissing, Places, OnPath, OffPath, Track
  <2>4. Quiet'
    BY <1>0, <1>1, <2>2 DEF FileMissing, Step, Quiet, Agree
  <2>5. \A u \in Threads : alone'[u] => Progress(u)'
    BY <1>0, <1>1, <2>1, <2>2 DEF FileMissing, Step, Goto, ControlOK, Track, Progress, OnPath, OffPath
  <2>. QED
    BY <2>3, <2>4, <2>5 DEF Parts
<1>2. ASSUME NEW t \in Threads, OpenShort(t) PROVE Parts'
  <2>1. \A u \in Threads : alone[u] => u = t
    BY <1>0, <1>2, OnlyOne DEF OpenShort
  <2>2. /\ Track' /\ Lone' /\ ~alone'[t] /\ ~switched'[t] /\ ~switched[t]
        /\ \A u \in Threads : u # t => (switched'[u] <=> switched[u]) /\ (alone'[u] <=> alone[u])
    BY <1>0, <1>2, LeaveKeeps DEF OpenShort, Leave, Track
  <2>3. Quiet'
    BY <1>0, <1>2, <2>2 DEF OpenShort, Leave, LeaveAs, Quiet, Agree
  <2>. QED
    BY <2>1, <2>2, <2>3 DEF Parts
<1>3. ASSUME NEW t \in Threads, SwitchOn(t) PROVE Parts'
  <2>1. \A u \in Threads : alone[u] => u = t
    BY <1>0, <1>3, OnlyOne DEF SwitchOn
  <2>2. Track' /\ Lone' /\ switched'[t]
    BY <1>0, <1>3, SwitchKeeps DEF SwitchOn, OnPath, OffPath
  <2>3. pc'[t] = "unpause" /\ alone' = alone
    BY <1>3 DEF SwitchOn, Goto, ControlOK
  <2>4. Quiet'
    BY <2>2 DEF Quiet
  <2>5. Progress(t)'
    BY <1>3, <2>3 DEF SwitchOn, Progress, OnPath, OffPath, DataOK
  <2>. QED
    BY <2>1, <2>2, <2>3, <2>4, <2>5 DEF Parts
<1>4. ASSUME NEW t \in Threads, Unpause(t) PROVE Parts'
  <2>1. \A u \in Threads : alone[u] => u = t
    BY <1>0, <1>4, OnlyOne DEF Unpause
  <2>2. Track' /\ Lone'
    BY <1>0, <1>4, StepKeeps DEF Unpause, Places, OnPath, OffPath, Track
  <2>3. switched[t] /\ pc'[t] = "show" /\ switched' = switched /\ alone' = alone
    BY <1>0, <1>4 DEF Unpause, Track, OnPath, OffPath, Step, Goto, ControlOK
  <2>4. Quiet'
    BY <2>3 DEF Quiet
  <2>5. alone[t] => Progress(t)'
    BY <1>0, <1>4, <2>3 DEF Unpause, Progress, Agree, OnPath, OffPath, DataOK
  <2>. QED
    BY <2>1, <2>2, <2>3, <2>4, <2>5 DEF Parts
<1>5. ASSUME NEW t \in Threads, InitSignal(t) PROVE Parts'
  <2>1. \A u \in Threads : alone[u] => u = t
    BY <1>0, <1>5, OnlyOne DEF InitSignal
  <2>2. switched[t]
    BY <1>0, <1>5 DEF InitSignal, Track, OnPath
  <2>3. CASE Step(t, "signal")
    <3>1. Track' /\ Lone'
      BY <1>0, <1>5, <2>2, <2>3, StepKeeps DEF InitSignal, Places, OnPath, OffPath
    <3>2. pc'[t] = "signal" /\ switched' = switched /\ alone' = alone
      BY <2>3 DEF Step, Goto, ControlOK
    <3>3. Quiet'
      BY <2>2, <3>2 DEF Quiet
    <3>4. alone[t] => Progress(t)'
      BY <1>0, <1>5, <3>2 DEF InitSignal, Progress, OnPath, OffPath
    <3>. QED
      BY <2>1, <3>1, <3>2, <3>3, <3>4 DEF Parts
  <2>4. CASE LeaveAs(t, FALSE)
    <3>1. /\ Track' /\ Lone' /\ ~alone'[t]
          /\ \A u \in Threads : u # t => (alone'[u] <=> alone[u])
      BY <1>0, <2>4, LeaveKeeps
    <3>2. Quiet'
      BY <2>2, <2>4 DEF LeaveAs, Quiet
    <3>. QED
      BY <2>1, <3>1, <3>2 DEF Parts
  <2>. QED
    BY <1>5, <2>3, <2>4 DEF InitSignal
<1>6. ASSUME NEW t \in Threads, OpenSignal(t) PROVE Parts'
  <2>1. \A u \in Threads : alone[u] => u = t
    BY <1>0, <1>6, OnlyOne DEF OpenSignal
  <2>2. Track' /\ Lone'
    BY <1>0, <1>6, StepKeeps DEF OpenSignal, Places, OnPath, OffPath, Track
  <2>3. switched[t] /\ pc'[t] = "tellOn" /\ switched' = switched /\ alone' = alone
    BY <1>0, <1>6 DEF OpenSignal, Track, OnPath, OffPath, Step, Goto, ControlOK
  <2>4. Quiet'
    BY <2>3 DEF Quiet
  <2>5. alone[t] => Progress(t)'
    BY <1>0, <1>6, <2>3 DEF OpenSignal, Progress, Agree, OnPath, OffPath, DataOK
  <2>. QED
    BY <2>1, <2>2, <2>3, <2>4, <2>5 DEF Parts
<1>7. ASSUME NEW t \in Threads, TellOn(t) PROVE Parts'
  <2>1. \A u \in Threads : alone[u] => u = t
    BY <1>0, <1>7, OnlyOne DEF TellOn
  <2>2. Track' /\ Lone'
    BY <1>0, <1>7, StepKeeps DEF TellOn, Places, OnPath, OffPath, Track
  <2>3. switched[t] /\ pc'[t] = "setOn" /\ switched' = switched /\ alone' = alone
    BY <1>0, <1>7 DEF TellOn, Track, OnPath, OffPath, Step, Goto, ControlOK
  <2>4. Quiet'
    BY <2>3 DEF Quiet
  <2>5. alone[t] => Progress(t)'
    BY <1>0, <1>7, <2>3 DEF TellOn, Progress, Agree, OnPath, OffPath, DataOK
  <2>. QED
    BY <2>1, <2>2, <2>3, <2>4, <2>5 DEF Parts
<1>8. ASSUME NEW t \in Threads, SetOn(t) PROVE Parts'
  <2>1. \A u \in Threads : alone[u] => u = t
    BY <1>0, <1>8, OnlyOne DEF SetOn
  <2>2. Track' /\ Lone'
    BY <1>0, <1>8, StepKeeps DEF SetOn, Places, OnPath, OffPath, Track
  <2>3. switched[t] /\ pc'[t] = "success" /\ switched' = switched /\ alone' = alone
    BY <1>0, <1>8 DEF SetOn, Track, OnPath, OffPath, Step, Goto, ControlOK
  <2>4. Quiet'
    BY <2>3 DEF Quiet
  <2>5. alone[t] => Progress(t)'
    BY <1>0, <1>8, <2>3 DEF SetOn, Progress, Agree, OnPath, OffPath, DataOK
  <2>. QED
    BY <2>1, <2>2, <2>3, <2>4, <2>5 DEF Parts
<1>9. ASSUME NEW t \in Threads, Success(t) PROVE Parts'
  <2>1. \A u \in Threads : alone[u] => u = t
    BY <1>0, <1>9, OnlyOne DEF Success
  <2>2. LeaveAs(t, alone[t])
    BY <1>9 DEF Success, Leave
  <2>3. /\ Track' /\ Lone' /\ ~alone'[t] /\ ~switched'[t]
        /\ \A u \in Threads : u # t => (switched'[u] <=> switched[u]) /\ (alone'[u] <=> alone[u])
    BY <1>0, <2>2, LeaveKeeps
  <2>4. Quiet'
    <3>1. CASE switched[t]
      BY <1>0, <1>9, <2>2, <3>1 DEF Success, LeaveAs, Quiet, Agree, Progress, OnPath, OffPath, DataOK, ControlOK
    <3>2. CASE ~switched[t]
      BY <1>0, <1>9, <2>2, <2>3, <3>2 DEF Success, LeaveAs, Quiet, Agree, Track, OffPath
    <3>. QED
      BY <3>1, <3>2
  <2>. QED
    BY <2>1, <2>3, <2>4 DEF Parts
<1>10. ASSUME NEW t \in Threads, SwitchOff(t) PROVE Parts'
  <2>1. \A u \in Threads : alone[u] => u = t
    BY <1>0, <1>10, OnlyOne DEF SwitchOff
  <2>2. Track' /\ Lone' /\ switched'[t]
    BY <1>0, <1>10, SwitchKeeps DEF SwitchOff, OnPath, OffPath
  <2>3. pc'[t] = "pause" /\ alone' = alone
    BY <1>10 DEF SwitchOff, Goto, ControlOK
  <2>4. Quiet'
    BY <2>2 DEF Quiet
  <2>5. Progress(t)'
    BY <1>10, <2>3 DEF SwitchOff, Progress, OnPath, OffPath, DataOK
  <2>. QED
    BY <2>1, <2>2, <2>3, <2>4, <2>5 DEF Parts
<1>11. ASSUME NEW t \in Threads, Pause(t) PROVE Parts'
  <2>1. \A u \in Threads : alone[u] => u = t
    BY <1>0, <1>11, OnlyOne DEF Pause
  <2>2. Track' /\ Lone'
    BY <1>0, <1>11, StepKeeps DEF Pause, Places, OnPath, OffPath, Track
  <2>3. switched[t] /\ pc'[t] = "close" /\ switched' = switched /\ alone' = alone
    BY <1>0, <1>11 DEF Pause, Track, OnPath, OffPath, Step, Goto, ControlOK
  <2>4. Quiet'
    BY <2>3 DEF Quiet
  <2>5. alone[t] => Progress(t)'
    BY <1>0, <1>11, <2>3 DEF Pause, Progress, Agree, OnPath, OffPath, DataOK
  <2>. QED
    BY <2>1, <2>2, <2>3, <2>4, <2>5 DEF Parts
<1>12. ASSUME NEW t \in Threads, CloseSignal(t) PROVE Parts'
  <2>1. \A u \in Threads : alone[u] => u = t
    BY <1>0, <1>12, OnlyOne DEF CloseSignal
  <2>2. Track' /\ Lone'
    BY <1>0, <1>12, StepKeeps DEF CloseSignal, Places, OnPath, OffPath, Track
  <2>3. switched[t] /\ pc'[t] = "tellOff" /\ switched' = switched /\ alone' = alone
    BY <1>0, <1>12 DEF CloseSignal, Track, OnPath, OffPath, Step, Goto, ControlOK
  <2>4. Quiet'
    BY <2>3 DEF Quiet
  <2>5. alone[t] => Progress(t)'
    BY <1>0, <1>12, <2>3 DEF CloseSignal, Progress, Agree, OnPath, OffPath, DataOK
  <2>. QED
    BY <2>1, <2>2, <2>3, <2>4, <2>5 DEF Parts
<1>13. ASSUME NEW t \in Threads, TellOff(t) PROVE Parts'
  <2>1. \A u \in Threads : alone[u] => u = t
    BY <1>0, <1>13, OnlyOne DEF TellOff
  <2>2. Track' /\ Lone'
    BY <1>0, <1>13, StepKeeps DEF TellOff, Places, OnPath, OffPath, Track
  <2>3. switched[t] /\ pc'[t] = "setOff" /\ switched' = switched /\ alone' = alone
    BY <1>0, <1>13 DEF TellOff, Track, OnPath, OffPath, Step, Goto, ControlOK
  <2>4. Quiet'
    BY <2>3 DEF Quiet
  <2>5. alone[t] => Progress(t)'
    BY <1>0, <1>13, <2>3 DEF TellOff, Progress, Agree, OnPath, OffPath, DataOK
  <2>. QED
    BY <2>1, <2>2, <2>3, <2>4, <2>5 DEF Parts
<1>14. ASSUME NEW t \in Threads, SetOff(t) PROVE Parts'
  <2>1. \A u \in Threads : alone[u] => u = t
    BY <1>0, <1>14, OnlyOne DEF SetOff
  <2>2. LeaveAs(t, alone[t])
    BY <1>14 DEF SetOff, Leave
  <2>3. /\ Track' /\ Lone' /\ ~alone'[t] /\ ~switched'[t]
        /\ \A u \in Threads : u # t => (switched'[u] <=> switched[u]) /\ (alone'[u] <=> alone[u])
    BY <1>0, <2>2, LeaveKeeps
  <2>4. Quiet'
    <3>1. CASE switched[t]
      BY <1>0, <1>14, <2>2, <3>1 DEF SetOff, LeaveAs, Quiet, Agree, Progress, OnPath, OffPath, DataOK, ControlOK
    <3>2. CASE ~switched[t]
      BY <1>0, <1>14, <2>2, <2>3, <3>2 DEF SetOff, LeaveAs, Quiet, Agree, Track, OffPath
    <3>. QED
      BY <3>1, <3>2
  <2>. QED
    BY <2>1, <2>3, <2>4 DEF Parts
\* Entering: nobody was alone unless everybody was outside.
<1>15. ASSUME NEW t \in Threads, NEW l \in {"on", "off"}, Enter(t, l),
              UNCHANGED <<board, paused, status, told, output, settled>>
       PROVE  Parts'
  <2>1. /\ Track' /\ Lone' /\ pc'[t] = l
        /\ \A u \in Threads : (switched'[u] <=> switched[u]) /\ (u # t => ~alone'[u])
    BY <1>0, <1>15, EnterKeeps
  <2>2. Quiet'
    BY <1>0, <1>15, <2>1 DEF Quiet, Agree
  <2>3. Progress(t)'
    BY <1>15, <2>1 DEF Progress, OnPath, OffPath
  <2>. QED
    BY <2>1, <2>2, <2>3 DEF Parts
<1>16. ASSUME UNCHANGED <<pc, paused, status, told, output, switched, alone, settled>>, board'.on = board.on
       PROVE  Parts'
  BY <1>0, <1>16 DEF Parts, Track, Lone, Quiet, Agree, Progress
<1>17. CASE PollCheck
  BY <1>16, <1>17 DEF PollCheck, notPoll
<1>18. CASE PollAsk
  BY <1>16, <1>18 DEF PollAsk, notPoll
<1>19. CASE CheckPwr
  <2>1. CASE Head(line)
    BY <1>15, <1>19, <2>1, PowerAssumption DEF CheckPwr, Threads
  <2>2. CASE ~Head(line)
    BY <1>16, <1>19, <2>2 DEF CheckPwr
  <2>. QED
    BY <2>1, <2>2
<1>20. CASE NtcMonitor
  BY <1>15, <1>20, PowerAssumption DEF NtcMonitor, Threads
<1>21. CASE \E t \in Callers : Call(t, "on") \/ Call(t, "off")
  BY <1>15, <1>21 DEF Call, Threads
<1>22. CASE Fault
  <2>1. board'.on = board.on
    BY <1>22 DEF Fault, DataOK
  <2>. QED
    BY <1>16, <1>22, <2>1 DEF Fault, notOutside
<1>23. CASE Heat
  BY <1>16, <1>23 DEF Heat, notOutside
<1>24. CASE LoadModule
  BY <1>16, <1>24 DEF LoadModule, notOutside
<1>25. CASE UNCHANGED vars
  BY <1>16, <1>25 DEF vars
<1>. QED
  BY <1>1, <1>2, <1>3, <1>4, <1>5, <1>6, <1>7, <1>8, <1>9, <1>10, <1>11, <1>12, <1>13, <1>14, <1>17, <1>18, <1>19, <1>20, <1>21, <1>22, <1>23, <1>24, <1>25 DEF Next, ShutOn, Outside

-----------------------------------------------------------------------------
LEMMA InitParts == Init => TypeOK /\ Parts
<1> SUFFICES ASSUME Init PROVE TypeOK /\ Parts
  OBVIOUS
<1>1. line \in Seq(BOOLEAN) /\ Len(line) <= MaxLine
  BY PowerAssumption DEF Init
<1>2. TypeOK
  <2>1. ControlOK
    BY DEF Init, ControlOK, Places
  <2>2. DataOK
    BY <1>1, Zenon DEF Init, DataOK
  <2>. QED
    BY <2>1, <2>2, TypeParts
<1>3. Parts
  BY DEF Init, Parts, Track, Lone, Quiet, Agree, Progress, OnPath, OffPath
<1>. QED
  BY <1>2, <1>3

(* Every variable keeps its type, and the answers in flight their bound.   *)
THEOREM TypeCorrect == Spec => []TypeOK
<1>1. Init => TypeOK
  BY InitParts
<1>. QED
  BY <1>1, TypeStep, PTL DEF Spec

LEMMA Invariant == Spec => [](TypeOK /\ Parts)
<1>1. Init => TypeOK /\ Parts
  BY InitParts
<1>2. TypeOK /\ Parts /\ [Next]_vars => (TypeOK /\ Parts)'
  BY TypeStep, PartsStep, TypeParts
<1>. QED
  BY <1>1, <1>2, PTL DEF Spec

(* client_pg_shutON of clipg.c: a switch that no other call overlapped     *)
(* leaves status, PC, polling and FPGA agreeing with the rails, whatever   *)
(* the calls before it left behind.                                        *)
THEOREM LoneSwitchSettles == Spec => []LoneSwitchAgrees
<1>1. TypeOK /\ Parts => LoneSwitchAgrees
  <2> SUFFICES ASSUME Parts, settled, Inside = {} PROVE Agree
    BY DEF LoneSwitchAgrees, Agree
  <2>1. \A t \in Threads : pc[t] = "out"
    BY DEF Inside
  <2>2. \A t \in Threads : ~switched[t]
    BY <2>1 DEF Parts, Track
  <2>. QED
    BY <2>2 DEF Parts, Quiet
<1>. QED
  BY <1>1, Invariant, PTL

=============================================================================
