----------------------------- MODULE BoxProofs ------------------------------
(***************************************************************************)
(* Theorems of the control box, for any number of modules, patterns and    *)
(* firmware frames, any queue and any number of things the outside does.   *)
(*                                                                         *)
(* box_cur_state is read and reset by three threads while a handler of the *)
(* apartment is between two of its accesses.  The invariant says what is   *)
(* true at each place of the handler of a box that is still connected: a   *)
(* reset makes it vacuous, and only HOME_KEY, handled by the same          *)
(* apartment, connects the box again.  A synchronisation that changes the  *)
(* files, module.ini and the module behind the back of a handler ends with *)
(* such a reset.                                                           *)
(***************************************************************************)
EXTENDS BoxDevice, FiniteSetTheorems, TLAPS

UpgradePlaces == {"upgLock", "upgrade", "upgraded", "upgOver"}
Busy == {"power", "powerOn", "powered", "setName", "writeName",
         "loadRead", "loadTest", "loadOpen"} \cup UpgradePlaces

LEMMA Cases == \A m : Count(m) \in Nat /\ Content(m) \in Names
  BY BoxAssumption DEF Count, Content, Names

-----------------------------------------------------------------------------
(* The line.  gBoxReadLock is held exactly while firmware is sent.         *)

LineType ==
  uart \in [lock : {"free", "app"}, guard : BOOLEAN, rx : SUBSET Int,
            fw : Int, sent : 0 .. Chunks, upgrading : BOOLEAN, torn : BOOLEAN]

LineInv ==
  /\ LineType
  /\ app = "upgrade" <=> uart.lock = "app"
  /\ app = "upgrade" <=> uart.upgrading
  /\ ~uart.torn
  /\ resume \in {"recv", "home"}

LEMMA InitLine == Init => LineInv
  BY BoxAssumption DEF Init, LineInv, LineType

LEMMA NextLine == LineInv /\ [Next]_vars => LineInv'
  <1> SUFFICES ASSUME LineInv, [Next]_vars PROVE LineInv' OBVIOUS
  <1> USE BoxAssumption DEF LineInv
  <1>1. CASE Apartment
    <2>1. CASE Take BY <2>1 DEF LineType, Take, others
    <2>2. CASE SendReply BY <2>2 DEF LineType, SendReply, others, Goto, Frame
    <2>3. CASE Ignore BY <2>3 DEF LineType, Ignore, others, Goto
    <2>4. CASE SelectModule BY <2>4 DEF LineType, SelectModule, others, Goto,
       Step
    <2>5. CASE SetModule BY <2>5 DEF LineType, SetModule, others, Reply
    <2>6. CASE SelectPattern BY <2>6 DEF LineType, SelectPattern, others, Goto,
       NextPattern, Found
    <2>7. CASE SetPattern BY <2>7 DEF LineType, SetPattern, others, Goto
    <2>8. CASE ShowPattern BY <2>8 DEF LineType, ShowPattern, others, Reply
    <2>9. CASE PowerKey BY <2>9 DEF LineType, PowerKey, others, SetBusy, Goto,
       Start
    <2>10. CASE PowerOff BY <2>10 DEF LineType, PowerOff, others, Goto
    <2>11. CASE PowerOnBegin BY <2>11 DEF LineType, PowerOnBegin, others, Goto
    <2>12. CASE PowerOn BY <2>12 DEF LineType, PowerOn, others, Goto
    <2>13. CASE Powered BY <2>13 DEF LineType, Powered, others, SetBusy, Reply
    <2>14. CASE OkKey BY <2>14 DEF LineType, OkKey, others, SetBusy, Goto,
       Start
    <2>15. CASE SetName BY <2>15 DEF LineType, SetName, others, Goto
    <2>16. CASE WriteName BY <2>16 DEF LineType, WriteName, others, Goto
    <2>17. CASE LoadRead BY <2>17 DEF LineType, LoadRead, others
    <2>18. CASE LoadTest BY <2>18 DEF LineType, LoadTest, others, SetBusy, Goto,
       NotLoaded
    <2>19. CASE LoadOpen BY <2>19 DEF LineType, LoadOpen, others, SetBusy, Goto, Install
    <2>20. CASE Enter BY <2>20 DEF LineType, Enter, others, Reply
    <2>21. CASE HomeKey BY <2>21 DEF LineType, HomeKey, others, Start
    <2>22. CASE Connect BY <2>22 DEF LineType, Connect, others, Goto
    <2>23. CASE HomeName BY <2>23 DEF LineType, HomeName, others, Goto
    <2>24. CASE HomeList BY <2>24 DEF LineType, HomeList, others, Goto
    <2>25. CASE Synced BY <2>25 DEF LineType, Synced, others, Goto, Reply
    <2>26. CASE ToModules BY <2>26 DEF LineType, ToModules, others, Goto,
       Reply, Found
    <2>27. CASE AskVersion BY <2>27 DEF LineType, AskVersion, others, Reply,
       Start
    <2>28. CASE Upgrade BY <2>28 DEF LineType, Upgrade, others, SetBusy, Goto,
       Start
    <2>29. CASE UpgradeBegin
      <3>1. /\ uart'.lock = "app" /\ uart'.upgrading /\ uart'.torn = uart.torn
        BY <2>29 DEF LineType, UpgradeBegin
      <3>2. LineType'
        <4>1. 0 \in 0 .. Chunks BY BoxAssumption
        <4>2. uart' = [uart EXCEPT !.lock = "app", !.upgrading = TRUE, !.sent = 0]
          BY <2>29 DEF UpgradeBegin
        <4>3. ASSUME NEW n \in 0 .. Chunks,
                     uart' = [uart EXCEPT !.lock = "app", !.upgrading = TRUE, !.sent = n]
              PROVE  LineType'
          BY <4>3, Zenon DEF LineType
        <4> QED BY <4>1, <4>2, <4>3
      <3>3. app' = "upgrade" /\ resume' = resume BY <2>29 DEF UpgradeBegin, Goto
      <3> QED BY <3>1, <3>2, <3>3
    <2>30. CASE UpgradeFrame
      <3>1. /\ uart' = [uart EXCEPT !.sent = uart.sent + 1] /\ uart.sent < Chunks
            /\ UNCHANGED <<app, resume>>
        BY <2>30 DEF UpgradeFrame, appVars
      <3>2. uart.sent + 1 \in 0 .. Chunks BY <3>1, BoxAssumption DEF LineType
      <3>3. ASSUME NEW n \in 0 .. Chunks, uart' = [uart EXCEPT !.sent = n] PROVE LineType'
        BY <3>3, Zenon DEF LineType
      <3>4. /\ uart'.lock = uart.lock /\ uart'.upgrading = uart.upgrading
            /\ uart'.torn = uart.torn
        BY <3>1 DEF LineType
      <3> QED BY <3>1, <3>2, <3>3, <3>4
    <2>31. CASE UpgradeEnd
      <3>1. /\ uart'.lock = "free" /\ ~uart'.upgrading /\ uart'.torn = uart.torn
        BY <2>31 DEF LineType, UpgradeEnd
      <3>2. LineType'
        <4>1. 0 \in 0 .. Chunks /\ uart.fw + 1 \in Int BY BoxAssumption DEF LineType
        <4>2. uart' = [uart EXCEPT !.lock = "free", !.upgrading = FALSE,
                                   !.fw = uart.fw + 1, !.sent = 0]
          BY <2>31 DEF UpgradeEnd
        <4>3. ASSUME NEW n \in 0 .. Chunks, NEW v \in Int,
                     uart' = [uart EXCEPT !.lock = "free", !.upgrading = FALSE,
                                          !.fw = v, !.sent = n]
              PROVE  LineType'
          BY <4>3, Zenon DEF LineType
        <4> QED BY <4>1, <4>2, <4>3
      <3>3. app' = "upgraded" /\ resume' = resume BY <2>31 DEF UpgradeEnd, Goto
      <3> QED BY <3>1, <3>2, <3>3
    <2>32. CASE AskAgain BY <2>32 DEF LineType, AskAgain, others, Goto
    <2>33. CASE UpgradeOver BY <2>33 DEF LineType, UpgradeOver, SetBusy, Goto
    <2> QED BY <1>1, <2>1, <2>2, <2>3, <2>4, <2>5, <2>6, <2>7, <2>8, <2>9,
       <2>10, <2>11, <2>12, <2>13, <2>14, <2>15, <2>16, <2>17, <2>18, <2>19, <2>20, <2>21,
       <2>22, <2>23, <2>24, <2>25, <2>26, <2>27, <2>28, <2>29, <2>30, <2>31, <2>32, <2>33 DEF
       Apartment
  <1>2. CASE HandThread
    <2>1. CASE HandCheck BY <2>1 DEF LineType, HandCheck, notHand, appVars
    <2>2. CASE HandInTime BY <2>2 DEF LineType, HandInTime, notHand, appVars
    <2>3. CASE HandForget BY <2>3 DEF LineType, HandForget, notHand, appVars,
       Reset
    <2>4. CASE HandSend BY <2>4 DEF LineType, HandSend, notHand, appVars
    <2> QED BY <1>2, <2>1, <2>2, <2>3, <2>4 DEF HandThread
  <1>3. CASE RcvThread
    <2>1. CASE Alive BY <2>1 DEF LineType, Alive, notRcv, appVars
    <2>2. CASE VersionAnswer BY <2>2 DEF LineType, VersionAnswer, notRcv,
       appVars
    <2>3. CASE VersionKnown BY <2>3 DEF LineType, VersionKnown, notRcv, appVars
    <2>4. CASE KeyGate BY <2>4 DEF LineType, KeyGate, notRcv, appVars
    <2>5. CASE PostKey BY <2>5 DEF LineType, PostKey, notRcv, appVars
    <2>6. ASSUME NEW v \in Versions, ReadVersion(v) PROVE LineInv' BY <2>6 DEF
       LineType, ReadVersion, notRcv, appVars
    <2> QED BY <1>3, <2>1, <2>2, <2>3, <2>4, <2>5, <2>6 DEF RcvThread
  <1>4. CASE VersionTask
    <2>1. CASE TaskWait BY <2>1 DEF LineType, TaskWait, notTask, appVars
    <2>2. CASE TaskLoop BY <2>2 DEF LineType, TaskLoop, notTask, appVars
    <2>3. CASE TaskPost BY <2>3 DEF LineType, TaskPost, notTask, appVars
    <2> QED BY <1>4, <2>1, <2>2, <2>3 DEF VersionTask
  <1>5. CASE ServerThread
    <2>1. CASE UpgradeSend BY <2>1 DEF LineType, UpgradeSend, notSrv, appVars
    <2>2. CASE SyncWrite BY <2>2 DEF LineType, SyncWrite, notSrv, appVars
    <2>3. CASE SyncRead BY <2>3 DEF LineType, SyncRead, notSrv, appVars
    <2>4. CASE SyncOpen BY <2>4 DEF LineType, SyncOpen, notSrv, appVars, Install,
       NotLoaded
    <2>5. CASE SyncWipe BY <2>5 DEF LineType, SyncWipe, notSrv, appVars
    <2>6. CASE SyncHome BY <2>6 DEF LineType, SyncHome, notSrv, appVars, Reset
    <2>7. CASE SrvFrame BY <2>7 DEF LineType, SrvFrame, Frame, notSrv, appVars
    <2> QED BY <1>5, <2>1, <2>2, <2>3, <2>4, <2>5, <2>6, <2>7 DEF ServerThread
  <1>6. CASE BgFrame BY <1>6 DEF LineType, BgFrame, appVars, Frame
  <1>7. CASE Outside
    <2>1. ASSUME NEW k \in Pressed, ReadKey(k) PROVE LineInv' BY <2>1 DEF
       LineType, ReadKey, notRcv, appVars
    <2>2. CASE UpgradeCall BY <2>2 DEF LineType, UpgradeCall, notSrv, appVars
    <2>3. CASE PowerElsewhere BY <2>3 DEF LineType, PowerElsewhere, appVars
    <2>4. CASE Silence BY <2>4 DEF LineType, Silence, appVars
    <2>5. ASSUME NEW m \in Modules, SyncBegin(m) PROVE LineInv' BY <2>5 DEF
       LineType, SyncBegin, notSrv, appVars
    <2>6. ASSUME NEW m \in Modules, SyncFile(m) PROVE LineInv' BY <2>6 DEF LineType,
       SyncFile, notSrv, appVars
    <2> QED BY <1>7, <2>1, <2>2, <2>3, <2>4, <2>5, <2>6 DEF Outside
  <1>8. CASE UNCHANGED vars BY <1>8 DEF LineType, vars, appVars
  <1> QED BY <1>1, <1>2, <1>3, <1>4, <1>5, <1>6, <1>7, <1>8 DEF Next

-----------------------------------------------------------------------------
(* The gate for keys. *)

FlagType == flag \in [keyReturn : BOOLEAN, timeoutOn : BOOLEAN, expired : BOOLEAN]
GateInv == FlagType /\ (flag.keyReturn => app \in Busy)

LEMMA InitGate == Init => GateInv
  BY DEF Init, GateInv, FlagType

LEMMA NextGate == GateInv /\ LineInv /\ [Next]_vars => GateInv'
  <1> SUFFICES ASSUME GateInv, LineInv, [Next]_vars PROVE GateInv' OBVIOUS
  <1> USE DEF GateInv
  <1>1. CASE Apartment
    <2>1. CASE Take BY <2>1 DEF FlagType, Busy, UpgradePlaces, Take, others
    <2>2. CASE SendReply BY <2>2 DEF FlagType, Busy, UpgradePlaces, SendReply,
       others, Goto, Frame, LineInv
    <2>3. CASE Ignore BY <2>3 DEF FlagType, Busy, UpgradePlaces, Ignore,
       others, Goto
    <2>4. CASE SelectModule BY <2>4 DEF FlagType, Busy, UpgradePlaces,
       SelectModule, others, Goto, Step
    <2>5. CASE SetModule BY <2>5 DEF FlagType, Busy, UpgradePlaces, SetModule,
       others, Reply
    <2>6. CASE SelectPattern BY <2>6 DEF FlagType, Busy, UpgradePlaces,
       SelectPattern, others, Goto, NextPattern, Found
    <2>7. CASE SetPattern BY <2>7 DEF FlagType, Busy, UpgradePlaces,
       SetPattern, others, Goto
    <2>8. CASE ShowPattern BY <2>8 DEF FlagType, Busy, UpgradePlaces,
       ShowPattern, others, Reply
    <2>9. CASE PowerKey BY <2>9 DEF FlagType, Busy, UpgradePlaces, PowerKey,
       others, SetBusy, Goto, Start
    <2>10. CASE PowerOff BY <2>10 DEF FlagType, Busy, UpgradePlaces, PowerOff,
       others, Goto
    <2>11. CASE PowerOnBegin BY <2>11 DEF FlagType, Busy, UpgradePlaces,
       PowerOnBegin, others, Goto
    <2>12. CASE PowerOn BY <2>12 DEF FlagType, Busy, UpgradePlaces, PowerOn,
       others, Goto
    <2>13. CASE Powered BY <2>13 DEF FlagType, Busy, UpgradePlaces, Powered,
       others, SetBusy, Reply
    <2>14. CASE OkKey BY <2>14 DEF FlagType, Busy, UpgradePlaces, OkKey,
       others, SetBusy, Goto, Start
    <2>15. CASE SetName BY <2>15 DEF FlagType, Busy, UpgradePlaces, SetName,
       others, Goto
    <2>16. CASE WriteName BY <2>16 DEF FlagType, Busy, UpgradePlaces,
       WriteName, others, Goto
    <2>17. CASE LoadRead BY <2>17 DEF FlagType, Busy, UpgradePlaces, LoadRead, others
    <2>18. CASE LoadTest BY <2>18 DEF FlagType, Busy, UpgradePlaces, LoadTest, others,
       SetBusy, Goto, NotLoaded
    <2>19. CASE LoadOpen BY <2>19 DEF FlagType, Busy, UpgradePlaces, LoadOpen, others,
       SetBusy, Goto, Install
    <2>20. CASE Enter BY <2>20 DEF FlagType, Busy, UpgradePlaces, Enter,
       others, Reply
    <2>21. CASE HomeKey BY <2>21 DEF FlagType, Busy, UpgradePlaces, HomeKey,
       others, Start
    <2>22. CASE Connect BY <2>22 DEF FlagType, Busy, UpgradePlaces, Connect,
       others, Goto
    <2>23. CASE HomeName BY <2>23 DEF FlagType, Busy, UpgradePlaces, HomeName, others,
       Goto
    <2>24. CASE HomeList BY <2>24 DEF FlagType, Busy, UpgradePlaces, HomeList, others,
       Goto
    <2>25. CASE Synced BY <2>25 DEF FlagType, Busy, UpgradePlaces, Synced,
       others, Goto, Reply
    <2>26. CASE ToModules BY <2>26 DEF FlagType, Busy, UpgradePlaces,
       ToModules, others, Goto, Reply, Found
    <2>27. CASE AskVersion BY <2>27 DEF FlagType, Busy, UpgradePlaces,
       AskVersion, others, Reply, Start
    <2>28. CASE Upgrade BY <2>28 DEF FlagType, Busy, UpgradePlaces, Upgrade,
       others, SetBusy, Goto, Start
    <2>29. CASE UpgradeBegin BY <2>29 DEF FlagType, Busy, UpgradePlaces,
       UpgradeBegin, others, Goto
    <2>30. CASE UpgradeFrame BY <2>30 DEF FlagType, Busy, UpgradePlaces,
       UpgradeFrame, others, appVars
    <2>31. CASE UpgradeEnd BY <2>31 DEF FlagType, Busy, UpgradePlaces,
       UpgradeEnd, others, Goto
    <2>32. CASE AskAgain BY <2>32 DEF FlagType, Busy, UpgradePlaces, AskAgain,
       others, Goto
    <2>33. CASE UpgradeOver BY <2>33 DEF FlagType, Busy, UpgradePlaces,
       UpgradeOver, SetBusy, Goto
    <2> QED BY <1>1, <2>1, <2>2, <2>3, <2>4, <2>5, <2>6, <2>7, <2>8, <2>9,
       <2>10, <2>11, <2>12, <2>13, <2>14, <2>15, <2>16, <2>17, <2>18, <2>19, <2>20, <2>21,
       <2>22, <2>23, <2>24, <2>25, <2>26, <2>27, <2>28, <2>29, <2>30, <2>31, <2>32, <2>33 DEF
       Apartment
  <1>2. CASE HandThread
    <2>1. CASE HandCheck BY <2>1 DEF FlagType, Busy, UpgradePlaces, HandCheck,
       notHand, appVars
    <2>2. CASE HandInTime BY <2>2 DEF FlagType, Busy, UpgradePlaces,
       HandInTime, notHand, appVars
    <2>3. CASE HandForget BY <2>3 DEF FlagType, Busy, UpgradePlaces,
       HandForget, notHand, appVars, Reset
    <2>4. CASE HandSend BY <2>4 DEF FlagType, Busy, UpgradePlaces, HandSend,
       notHand, appVars
    <2> QED BY <1>2, <2>1, <2>2, <2>3, <2>4 DEF HandThread
  <1>3. CASE RcvThread
    <2>1. CASE Alive BY <2>1 DEF FlagType, Busy, UpgradePlaces, Alive, notRcv,
       appVars
    <2>2. CASE VersionAnswer BY <2>2 DEF FlagType, Busy, UpgradePlaces,
       VersionAnswer, notRcv, appVars
    <2>3. CASE VersionKnown BY <2>3 DEF FlagType, Busy, UpgradePlaces,
       VersionKnown, notRcv, appVars
    <2>4. CASE KeyGate BY <2>4 DEF FlagType, Busy, UpgradePlaces, KeyGate,
       notRcv, appVars
    <2>5. CASE PostKey BY <2>5 DEF FlagType, Busy, UpgradePlaces, PostKey,
       notRcv, appVars
    <2>6. ASSUME NEW v \in Versions, ReadVersion(v) PROVE GateInv' BY <2>6 DEF
       FlagType, Busy, UpgradePlaces, ReadVersion, notRcv, appVars
    <2> QED BY <1>3, <2>1, <2>2, <2>3, <2>4, <2>5, <2>6 DEF RcvThread
  <1>4. CASE VersionTask
    <2>1. CASE TaskWait BY <2>1 DEF FlagType, Busy, UpgradePlaces, TaskWait,
       notTask, appVars
    <2>2. CASE TaskLoop BY <2>2 DEF FlagType, Busy, UpgradePlaces, TaskLoop,
       notTask, appVars
    <2>3. CASE TaskPost BY <2>3 DEF FlagType, Busy, UpgradePlaces, TaskPost,
       notTask, appVars
    <2> QED BY <1>4, <2>1, <2>2, <2>3 DEF VersionTask
  <1>5. CASE ServerThread
    <2>1. CASE UpgradeSend BY <2>1 DEF FlagType, Busy, UpgradePlaces,
       UpgradeSend, notSrv, appVars
    <2>2. CASE SyncWrite BY <2>2 DEF FlagType, Busy, UpgradePlaces, SyncWrite,
       notSrv, appVars
    <2>3. CASE SyncRead BY <2>3 DEF FlagType, Busy, UpgradePlaces, SyncRead, notSrv,
       appVars
    <2>4. CASE SyncOpen BY <2>4 DEF FlagType, Busy, UpgradePlaces, SyncOpen, notSrv,
       appVars, Install, NotLoaded
    <2>5. CASE SyncWipe BY <2>5 DEF FlagType, Busy, UpgradePlaces, SyncWipe, notSrv,
       appVars
    <2>6. CASE SyncHome BY <2>6 DEF FlagType, Busy, UpgradePlaces, SyncHome,
       notSrv, appVars, Reset
    <2>7. CASE SrvFrame BY <2>7 DEF FlagType, Busy, UpgradePlaces, SrvFrame,
       Frame, notSrv, appVars
    <2> QED BY <1>5, <2>1, <2>2, <2>3, <2>4, <2>5, <2>6, <2>7 DEF ServerThread
  <1>6. CASE BgFrame BY <1>6 DEF FlagType, Busy, UpgradePlaces, BgFrame,
     appVars, Frame
  <1>7. CASE Outside
    <2>1. ASSUME NEW k \in Pressed, ReadKey(k) PROVE GateInv' BY <2>1 DEF
       FlagType, Busy, UpgradePlaces, ReadKey, notRcv, appVars
    <2>2. CASE UpgradeCall BY <2>2 DEF FlagType, Busy, UpgradePlaces,
       UpgradeCall, notSrv, appVars
    <2>3. CASE PowerElsewhere BY <2>3 DEF FlagType, Busy, UpgradePlaces,
       PowerElsewhere, appVars
    <2>4. CASE Silence BY <2>4 DEF FlagType, Busy, UpgradePlaces, Silence,
       appVars
    <2>5. ASSUME NEW m \in Modules, SyncBegin(m) PROVE GateInv' BY <2>5 DEF
       FlagType, Busy, UpgradePlaces, SyncBegin, notSrv, appVars
    <2>6. ASSUME NEW m \in Modules, SyncFile(m) PROVE GateInv' BY <2>6 DEF FlagType,
       Busy, UpgradePlaces, SyncFile, notSrv, appVars
    <2> QED BY <1>7, <2>1, <2>2, <2>3, <2>4, <2>5, <2>6 DEF Outside
  <1>8. CASE UNCHANGED vars BY <1>8 DEF FlagType, Busy, UpgradePlaces, vars, appVars
  <1> QED BY <1>1, <1>2, <1>3, <1>4, <1>5, <1>6, <1>7, <1>8 DEF Next

-----------------------------------------------------------------------------
(* The state of the box and of the tester. *)

Boxes == [connected : BOOLEAN, layer : {"none", "module", "picture"}, name : Names,
          idx : Int, total : Nat, ptn : Int, pwr : {0, 1}]
Disks == [Modules -> {"gone", "empty", "full"}]
Testers == [pwr : {0, 1}, ptn : Int, name : Names, cfg : Names \cup {NoFile},
            loaded : Names, disk : Disks, list : Lists, missed : BOOLEAN]

BoxTypes ==
  /\ box \in Boxes /\ pg \in Testers
  /\ app = "setModule" => target \in DOMAIN pg.list
  /\ app \in {"setPattern", "show"} => target \in Int
  /\ app \in {"homeList", "homeFind"} => target \in Names

\* What the handlers write together.
LEMMA Updates ==
  ASSUME NEW n \in Int, NEW q \in Int, NEW p \in {0, 1}, NEW m \in Names, NEW c \in Nat
  PROVE  /\ \A b \in Boxes : /\ [b EXCEPT !.layer = "picture", !.ptn = n] \in Boxes
                            /\ [b EXCEPT !.pwr = p, !.ptn = n] \in Boxes
                            /\ [b EXCEPT !.name = m] \in Boxes
                            /\ [b EXCEPT !.name = m, !.idx = n, !.total = c] \in Boxes
                            /\ \A l \in {"module", "picture"} :
                                 [b EXCEPT !.name = m, !.idx = n, !.total = c,
                                           !.layer = l, !.ptn = q] \in Boxes
         /\ \A t \in Testers : [t EXCEPT !.pwr = p, !.ptn = n] \in Testers
  BY Zenon DEF Boxes, Testers

LEMMA Files ==
  /\ \A t \in Testers, k \in Lists : [t EXCEPT !.list = k] \in Testers
  /\ \A t \in Testers, d \in Disks, k \in Lists :
       [t EXCEPT !.list = k, !.disk = d] \in Testers
  /\ \A t \in Testers, d \in Disks, b \in BOOLEAN, m \in Names :
       [t EXCEPT !.loaded = m, !.missed = b, !.disk = d] \in Testers
  BY Zenon DEF Testers

LEMMA Numbers ==
  /\ 0 \in Int /\ 0 \in {0, 1} /\ 1 \in Int /\ 1 \in {0, 1}
  /\ NoName \in Names /\ \A m \in Modules : m \in Names
  BY DEF Names

\* module_self_set: what is in a list, and what a look up does to it.
LEMMA ListFacts ==
  ASSUME NEW l \in Lists, NEW i \in DOMAIN l
  PROVE  /\ i \in Int /\ l[i].name \in Modules /\ l[i].total \in Nat
         /\ \A c \in Nat :
              LET k == [l EXCEPT ![i] = [l[i] EXCEPT !.total = c]]
              IN  /\ k \in Lists /\ DOMAIN k = DOMAIN l /\ k[i].total = c
                  /\ \A j \in DOMAIN l : k[j].name = l[j].name
  <1>1. PICK n \in 0 .. Cardinality(Modules) :
          l \in [0 .. n - 1 -> [name : Modules, total : Nat]]
    BY DEF Lists
  <1>2. i \in 0 .. n - 1 /\ DOMAIN l = 0 .. n - 1 BY <1>1
  <1>3. l[i] \in [name : Modules, total : Nat] /\ i \in Int
    BY <1>1, <1>2, BoxAssumption, FS_CardinalityType
  <1>4. ASSUME NEW c \in Nat
        PROVE  LET k == [l EXCEPT ![i] = [l[i] EXCEPT !.total = c]]
               IN  /\ k \in Lists /\ DOMAIN k = DOMAIN l /\ k[i].total = c
                   /\ \A j \in DOMAIN l : k[j].name = l[j].name
    <2> DEFINE e == [l[i] EXCEPT !.total = c]
               k == [l EXCEPT ![i] = e]
    <2>1. e \in [name : Modules, total : Nat] /\ e.name = l[i].name /\ e.total = c BY <1>3
    <2> HIDE DEF e
    <2>2. k \in [0 .. n - 1 -> [name : Modules, total : Nat]] BY <1>1, <1>2, <2>1
    <2>3. DOMAIN k = DOMAIN l /\ k[i] = e /\ \A j \in DOMAIN l : j # i => k[j] = l[j]
      BY <1>1, <1>2
    <2>4. k \in Lists BY <2>2 DEF Lists
    <2>5. \A j \in DOMAIN l : k[j].name = l[j].name BY <2>1, <2>3
    <2> QED BY <2>1, <2>3, <2>4, <2>5 DEF e
  <1> QED BY <1>3, <1>4

LEMMA EmptyList == <<>> \in Lists
  <1>1. 0 \in 0 .. Cardinality(Modules) BY BoxAssumption, FS_CardinalityType
  <1>2. <<>> \in [0 .. 0 - 1 -> [name : Modules, total : Nat]] OBVIOUS
  <1> QED BY <1>1, <1>2 DEF Lists

\* The list HOME_KEY makes.
LEMMA FreshList ==
  ASSUME NEW f \in Listings
  PROVE  LET k == [i \in DOMAIN f |-> [name |-> f[i], total |-> 0]]
         IN  k \in Lists /\ \A i \in DOMAIN k : k[i].name \in Present
  <1> DEFINE n == Cardinality(Present)
  <1>1. Present \subseteq Modules BY DEF Present
  <1>2. n \in 0 .. Cardinality(Modules)
    BY <1>1, BoxAssumption, FS_Subset, FS_CardinalityType
  <1>3. f \in [0 .. n - 1 -> Present] BY DEF Listings
  <1> HIDE DEF n
  <1>4. [i \in DOMAIN f |-> [name |-> f[i], total |-> 0]]
          \in [0 .. n - 1 -> [name : Modules, total : Nat]]
    BY <1>1, <1>3
  <1> QED BY <1>2, <1>3, <1>4 DEF Lists

\* dbModuleOpen changes no content, and takes no file away.
LEMMA OpenedFacts ==
  ASSUME pg \in Testers, NEW m \in Modules
  PROVE  /\ Opened(m) \in Disks
         /\ \A k \in Modules : /\ Opened(m)[k] = "full" <=> pg.disk[k] = "full"
                               /\ pg.disk[k] # "gone" => Opened(m)[k] # "gone"
  <1>1. pg.disk \in Disks BY DEF Testers
  <1> QED BY <1>1 DEF Opened, Disks

LEMMA LookUpFacts ==
  ASSUME pg \in Testers, NEW i \in DOMAIN pg.list
  PROVE  /\ LookUp(i) \in Testers /\ pg.list[i].name \in Modules /\ i \in Int
         /\ LookUp(i).disk = Opened(pg.list[i].name)
         /\ DOMAIN LookUp(i).list = DOMAIN pg.list
         /\ \A j \in DOMAIN pg.list : LookUp(i).list[j].name = pg.list[j].name
         /\ TstPath => LookUp(i).list[i].total = Count(pg.list[i].name)
         /\ LookUp(i).pwr = pg.pwr /\ LookUp(i).ptn = pg.ptn /\ LookUp(i).name = pg.name
         /\ LookUp(i).cfg = pg.cfg /\ LookUp(i).loaded = pg.loaded
         /\ LookUp(i).missed = pg.missed
  <1> DEFINE m == pg.list[i].name
             c == IF TstPath THEN Count(m) ELSE pg.list[i].total
             k == [pg.list EXCEPT ![i] = [pg.list[i] EXCEPT !.total = c]]
             d == Opened(m)
  <1>1. pg.list \in Lists BY DEF Testers
  <1>2. m \in Modules /\ i \in Int /\ pg.list[i].total \in Nat BY <1>1, ListFacts
  <1>3. c \in Nat /\ (TstPath => c = Count(m)) BY <1>2, Cases
  <1>4. LookUp(i) = [pg EXCEPT !.list = k, !.disk = d] BY DEF LookUp
  <1>5. d \in Disks BY <1>2, OpenedFacts
  <1> HIDE DEF c
  <1>6. /\ k \in Lists /\ DOMAIN k = DOMAIN pg.list /\ k[i].total = c
        /\ \A j \in DOMAIN pg.list : k[j].name = pg.list[j].name
    BY <1>1, <1>3, ListFacts
  <1> HIDE DEF k, d
  <1>7. LookUp(i) \in Testers
    <2>1. [pg EXCEPT !.list = k, !.disk = d] \in Testers BY <1>5, <1>6, Files
    <2> QED BY <1>4, <2>1
  <1>8. /\ LookUp(i).list = k /\ LookUp(i).disk = d
        /\ LookUp(i).pwr = pg.pwr /\ LookUp(i).ptn = pg.ptn /\ LookUp(i).name = pg.name
        /\ LookUp(i).cfg = pg.cfg /\ LookUp(i).loaded = pg.loaded
        /\ LookUp(i).missed = pg.missed
    BY <1>4 DEF Testers
  <1> QED BY <1>2, <1>3, <1>6, <1>7, <1>8 DEF d

LEMMA InstallFacts ==
  ASSUME pg \in Testers, NEW m
  PROVE  /\ Install(m) \in Testers
         /\ Install(m).list = pg.list /\ Install(m).name = pg.name /\ Install(m).cfg = pg.cfg
         /\ Install(m).loaded = Content(m) /\ Install(m).missed = (m # pg.cfg)
         /\ \A k \in Modules :
              /\ Install(m).disk[k] = "full" <=> pg.disk[k] = "full"
              /\ pg.disk[k] # "gone" => Install(m).disk[k] # "gone"
  <1> DEFINE d == IF m \in Modules THEN Opened(m) ELSE pg.disk
             b == m # pg.cfg
             c == Content(m)
  <1>1. Install(m) = [pg EXCEPT !.loaded = c, !.missed = b, !.disk = d] BY DEF Install
  <1>2. /\ d \in Disks
        /\ \A k \in Modules : /\ d[k] = "full" <=> pg.disk[k] = "full"
                              /\ pg.disk[k] # "gone" => d[k] # "gone"
    BY OpenedFacts DEF Testers
  <1>3. b \in BOOLEAN /\ c \in Names BY Cases
  <1> HIDE DEF d, b, c
  <1>4. Install(m) \in Testers
    <2>1. [pg EXCEPT !.loaded = c, !.missed = b, !.disk = d] \in Testers
      BY <1>2, <1>3, Files
    <2> QED BY <1>1, <2>1
  <1>5. /\ Install(m).disk = d /\ Install(m).loaded = c /\ Install(m).missed = b
        /\ Install(m).list = pg.list /\ Install(m).name = pg.name /\ Install(m).cfg = pg.cfg
    BY <1>1 DEF Testers
  <1> QED BY <1>2, <1>4, <1>5 DEF b, c

LEMMA InitBox == Init => BoxTypes
  <1> SUFFICES ASSUME Init PROVE BoxTypes OBVIOUS
  <1>1. PICK s \in Starts :
          pg = [pwr |-> s.pwr, ptn |-> 0, name |-> NoName, cfg |-> s.cfg,
                loaded |-> IF s.cfg \in s.files \ Broken THEN s.cfg ELSE NoName,
                disk |-> [m \in Modules |-> IF m \in s.files THEN Copy(m) ELSE "gone"],
                list |-> <<>>, missed |-> s.cfg \notin s.files]
    BY DEF Init
  <1>2. /\ s.cfg \in Names \cup {NoFile} /\ s.pwr \in {0, 1} /\ s.files \subseteq Modules
    BY BoxAssumption DEF Names
  <1>3. [m \in Modules |-> IF m \in s.files THEN Copy(m) ELSE "gone"] \in Disks
    BY DEF Disks, Copy
  <1>4. (IF s.cfg \in s.files \ Broken THEN s.cfg ELSE NoName) \in Names
    BY <1>2 DEF Names
  <1>5. pg \in Testers BY <1>1, <1>2, <1>3, <1>4, EmptyList, Numbers DEF Testers
  <1>6. box \in Boxes /\ app = "recv" BY Numbers DEF Init, Reset, Boxes
  <1> QED BY <1>5, <1>6 DEF BoxTypes

LEMMA NextBox == BoxTypes /\ LineInv /\ [Next]_vars => BoxTypes'
  <1> SUFFICES ASSUME BoxTypes, LineInv, [Next]_vars PROVE BoxTypes' OBVIOUS
  <1> USE Cases, Numbers DEF BoxTypes
  <1>1. CASE Apartment
    <2>1. CASE Take BY <2>1 DEF Boxes, Testers, Take, others
    <2>2. CASE SendReply BY <2>2 DEF Boxes, Testers, SendReply, others, Goto,
       Frame, LineInv
    <2>3. CASE Ignore BY <2>3 DEF Boxes, Testers, Ignore, others, Goto
    <2>4. CASE SelectModule
      <3>1. UNCHANGED box BY <2>4 DEF SelectModule
      <3>2. CASE app' = "setModule"
        <4>1. /\ box.idx + Step \in DOMAIN pg.list /\ pg' = LookUp(box.idx + Step)
              /\ target' = box.idx + Step
          BY <2>4, <3>2 DEF SelectModule, Goto
        <4> QED BY <3>1, <3>2, <4>1, LookUpFacts
      <3>3. CASE app' # "setModule"
        <4>1. UNCHANGED pg /\ app' = "recv" BY <2>4, <3>3 DEF SelectModule, Goto
        <4> QED BY <3>1, <4>1
      <3> QED BY <3>2, <3>3
    <2>5. CASE SetModule
      <3>1. /\ box' = [box EXCEPT !.name = pg.list[target].name, !.idx = target,
                                  !.total = pg.list[target].total]
            /\ UNCHANGED pg /\ app = "setModule" /\ app' = "reply"
        BY <2>5 DEF SetModule, Reply
      <3>2. pg.list \in Lists /\ target \in DOMAIN pg.list BY <3>1 DEF Testers
      <3>3. /\ pg.list[target].name \in Names /\ target \in Int
            /\ pg.list[target].total \in Nat
        BY <3>2, ListFacts, Numbers
      <3>4. box' \in Boxes BY <3>1, <3>3, Updates, Numbers
      <3> QED BY <3>1, <3>4
    <2>6. CASE SelectPattern BY <2>6 DEF Boxes, Testers, SelectPattern, others,
       Goto, NextPattern, Found
    <2>7. CASE SetPattern BY <2>7 DEF Boxes, Testers, SetPattern, others, Goto
    <2>8. CASE ShowPattern BY <2>8 DEF Boxes, Testers, ShowPattern, others,
       Reply
    <2>9. CASE PowerKey BY <2>9 DEF Boxes, Testers, PowerKey, others, SetBusy,
       Goto, Start
    <2>10. CASE PowerOff BY <2>10 DEF Boxes, Testers, PowerOff, others, Goto
    <2>11. CASE PowerOnBegin BY <2>11 DEF Boxes, Testers, PowerOnBegin, others,
       Goto
    <2>12. CASE PowerOn
      <3>1. pg' \in Testers
        <4>1. pg' = pg \/ pg' = [pg EXCEPT !.pwr = 1, !.ptn = 0] BY <2>12, Zenon DEF PowerOn
        <4>2. [pg EXCEPT !.pwr = 1, !.ptn = 0] \in Testers BY Updates, Numbers, Zenon
        <4> QED BY <4>1, <4>2, Zenon
      <3>2. UNCHANGED box /\ app' = "powered"
        BY <2>12 DEF PowerOn, others, Goto
      <3> QED BY <3>1, <3>2
    <2>13. CASE Powered
      <3>1. box' \in Boxes
        <4>1. pg.pwr \in {0, 1} BY DEF Testers
        <4>2. box' = [box EXCEPT !.pwr = pg.pwr, !.ptn = 0] BY <2>13 DEF Powered
        <4> QED BY <4>1, <4>2, Updates, Numbers
      <3>2. UNCHANGED pg /\ app' = "reply"
        BY <2>13 DEF Powered, others, Reply
      <3> QED BY <3>1, <3>2
    <2>14. CASE OkKey BY <2>14 DEF Boxes, Testers, OkKey, others, SetBusy,
       Goto, Start
    <2>15. CASE SetName BY <2>15 DEF Boxes, Testers, SetName, others, Goto
    <2>16. CASE WriteName BY <2>16 DEF Boxes, Testers, WriteName, others, Goto
    <2>17. CASE LoadRead BY <2>17 DEF Boxes, Testers, LoadRead, others
    <2>18. CASE LoadTest BY <2>18 DEF Boxes, Testers, LoadTest, others, SetBusy, Goto,
       NotLoaded
    <2>19. CASE LoadOpen
      <3>1. pg' = Install(target) /\ UNCHANGED box /\ app' = "enter"
        BY <2>19 DEF LoadOpen, Goto
      <3> QED BY <3>1, InstallFacts
    <2>20. CASE Enter
      <3>1. box' \in Boxes
        <4>2. box' = [box EXCEPT !.layer = "picture", !.ptn = 0] BY <2>20 DEF Enter
        <4> QED BY <4>2, Updates, Numbers
      <3>2. UNCHANGED pg /\ app' = "reply"
        BY <2>20 DEF Enter, others, Reply
      <3> QED BY <3>1, <3>2
    <2>21. CASE HomeKey BY <2>21 DEF Boxes, Testers, HomeKey, others, Start
    <2>22. CASE Connect BY <2>22 DEF Boxes, Testers, Connect, others, Goto
    <2>23. CASE HomeName BY <2>23 DEF Boxes, Testers, HomeName, others, Goto
    <2>24. CASE HomeList
      <3>1. PICK f \in Listings :
              pg' = [pg EXCEPT !.list = [i \in DOMAIN f |-> [name |-> f[i], total |-> 0]]]
        BY <2>24 DEF HomeList
      <3>2. pg' \in Testers
        <4> DEFINE k == [i \in DOMAIN f |-> [name |-> f[i], total |-> 0]]
        <4>1. k \in Lists BY FreshList
        <4> HIDE DEF k
        <4>2. pg' = [pg EXCEPT !.list = k] BY <3>1 DEF k
        <4> QED BY <4>1, <4>2, Files, Zenon
      <3>3. /\ box' = [box EXCEPT !.name = target] /\ target \in Names
            /\ app' = "homeFind" /\ target' = target
        BY <2>24 DEF HomeList, Goto
      <3>4. box' \in Boxes BY <3>3, Updates, Numbers
      <3> QED BY <3>2, <3>3, <3>4
    <2>25. CASE Synced
      <3>1. CASE target \in Listed
        <4>1. PICK i \in DOMAIN pg.list :
                /\ pg' = LookUp(i)
                /\ box' = [box EXCEPT !.name = target, !.idx = i, !.total = pg'.list[i].total,
                             !.layer = IF pg.pwr = 0 THEN "module" ELSE "picture",
                             !.ptn = IF pg.pwr = 0 THEN @ ELSE pg.ptn]
                /\ app' = "reply" /\ app = "homeFind"
          BY <2>25, <3>1 DEF Synced, Reply
        <4>2. pg' \in Testers /\ DOMAIN pg'.list = DOMAIN pg.list /\ i \in Int
          BY <4>1, LookUpFacts
        <4>3. box' \in Boxes
          <5> DEFINE l == IF pg.pwr = 0 THEN "module" ELSE "picture"
                     q == IF pg.pwr = 0 THEN box.ptn ELSE pg.ptn
                     c == pg'.list[i].total
          <5>1. l \in {"module", "picture"} /\ q \in Int BY DEF Boxes, Testers
          <5>2. c \in Nat
            <6>1. pg'.list \in Lists /\ i \in DOMAIN pg'.list BY <4>2 DEF Testers
            <6> QED BY <6>1, ListFacts
          <5>3. box' = [box EXCEPT !.name = target, !.idx = i, !.total = c,
                                   !.layer = l, !.ptn = q]
            BY <4>1
          <5>4. target \in Names /\ i \in Int BY <4>1, <4>2
          <5> HIDE DEF l, q, c
          <5> QED BY <5>1, <5>2, <5>3, <5>4, Updates, Numbers
        <4> QED BY <4>1, <4>2, <4>3
      <3>2. CASE target \notin Listed
        <4>1. UNCHANGED <<box, pg>> /\ app' = "recv"
          BY <2>25, <3>2 DEF Synced, Goto, Listed
        <4> QED BY <4>1
      <3> QED BY <3>1, <3>2
    <2>26. CASE ToModules BY <2>26 DEF Boxes, Testers, ToModules, others, Goto,
       Reply, Found
    <2>27. CASE AskVersion BY <2>27 DEF Boxes, Testers, AskVersion, others,
       Reply, Start
    <2>28. CASE Upgrade BY <2>28 DEF Boxes, Testers, Upgrade, others, SetBusy,
       Goto, Start
    <2>29. CASE UpgradeBegin BY <2>29 DEF Boxes, Testers, UpgradeBegin, others,
       Goto
    <2>30. CASE UpgradeFrame BY <2>30 DEF Boxes, Testers, UpgradeFrame, others,
       appVars
    <2>31. CASE UpgradeEnd BY <2>31 DEF Boxes, Testers, UpgradeEnd, others,
       Goto
    <2>32. CASE AskAgain BY <2>32 DEF Boxes, Testers, AskAgain, others, Goto
    <2>33. CASE UpgradeOver BY <2>33 DEF Boxes, Testers, UpgradeOver, SetBusy,
       Goto
    <2> QED BY <1>1, <2>1, <2>2, <2>3, <2>4, <2>5, <2>6, <2>7, <2>8, <2>9,
       <2>10, <2>11, <2>12, <2>13, <2>14, <2>15, <2>16, <2>17, <2>18, <2>19, <2>20, <2>21,
       <2>22, <2>23, <2>24, <2>25, <2>26, <2>27, <2>28, <2>29, <2>30, <2>31, <2>32, <2>33 DEF
       Apartment
  <1>2. CASE HandThread
    <2>1. CASE HandCheck BY <2>1 DEF Boxes, Testers, HandCheck, notHand,
       appVars
    <2>2. CASE HandInTime BY <2>2 DEF Boxes, Testers, HandInTime, notHand,
       appVars
    <2>3. CASE HandForget BY <2>3 DEF Boxes, Testers, HandForget, notHand,
       appVars, Reset
    <2>4. CASE HandSend BY <2>4 DEF Boxes, Testers, HandSend, notHand, appVars
    <2> QED BY <1>2, <2>1, <2>2, <2>3, <2>4 DEF HandThread
  <1>3. CASE RcvThread
    <2>1. CASE Alive BY <2>1 DEF Boxes, Testers, Alive, notRcv, appVars
    <2>2. CASE VersionAnswer BY <2>2 DEF Boxes, Testers, VersionAnswer, notRcv,
       appVars
    <2>3. CASE VersionKnown BY <2>3 DEF Boxes, Testers, VersionKnown, notRcv,
       appVars
    <2>4. CASE KeyGate BY <2>4 DEF Boxes, Testers, KeyGate, notRcv, appVars
    <2>5. CASE PostKey BY <2>5 DEF Boxes, Testers, PostKey, notRcv, appVars
    <2>6. ASSUME NEW v \in Versions, ReadVersion(v) PROVE BoxTypes' BY <2>6 DEF
       Boxes, Testers, ReadVersion, notRcv, appVars
    <2> QED BY <1>3, <2>1, <2>2, <2>3, <2>4, <2>5, <2>6 DEF RcvThread
  <1>4. CASE VersionTask
    <2>1. CASE TaskWait BY <2>1 DEF Boxes, Testers, TaskWait, notTask, appVars
    <2>2. CASE TaskLoop BY <2>2 DEF Boxes, Testers, TaskLoop, notTask, appVars
    <2>3. CASE TaskPost BY <2>3 DEF Boxes, Testers, TaskPost, notTask, appVars
    <2> QED BY <1>4, <2>1, <2>2, <2>3 DEF VersionTask
  <1>5. CASE ServerThread
    <2>1. CASE UpgradeSend BY <2>1 DEF Boxes, Testers, UpgradeSend, notSrv,
       appVars
    <2>2. CASE SyncWrite BY <2>2 DEF Boxes, Testers, SyncWrite, notSrv, appVars
    <2>3. CASE SyncRead BY <2>3 DEF Boxes, Testers, SyncRead, notSrv, appVars
    <2>4. CASE SyncOpen
      <3>1. pg' \in {Install(read), NotLoaded} /\ UNCHANGED <<box, app, target>>
        BY <2>4 DEF SyncOpen, notSrv, appVars
      <3>2. NotLoaded \in Testers /\ NotLoaded.list = pg.list BY DEF NotLoaded, Testers
      <3> QED BY <3>1, <3>2, InstallFacts
    <2>5. CASE SyncWipe
      <3>1. /\ pg' = [pg EXCEPT !.disk = [m \in Modules |-> "gone"]]
            /\ UNCHANGED <<box, app, target>>
        BY <2>5 DEF SyncWipe, notSrv, appVars
      <3>2. [m \in Modules |-> "gone"] \in Disks BY DEF Disks
      <3>3. pg' \in Testers /\ pg'.list = pg.list BY <3>1, <3>2 DEF Testers
      <3> QED BY <3>1, <3>3
    <2>6. CASE SyncHome BY <2>6 DEF Boxes, Testers, SyncHome, notSrv, appVars,
       Reset
    <2>7. CASE SrvFrame BY <2>7 DEF Boxes, Testers, SrvFrame, Frame, notSrv,
       appVars
    <2> QED BY <1>5, <2>1, <2>2, <2>3, <2>4, <2>5, <2>6, <2>7 DEF ServerThread
  <1>6. CASE BgFrame BY <1>6 DEF Boxes, Testers, BgFrame, appVars, Frame
  <1>7. CASE Outside
    <2>1. ASSUME NEW k \in Pressed, ReadKey(k) PROVE BoxTypes' BY <2>1 DEF Boxes,
       Testers, ReadKey, notRcv, appVars
    <2>2. CASE UpgradeCall BY <2>2 DEF Boxes, Testers, UpgradeCall, notSrv,
       appVars
    <2>3. CASE PowerElsewhere
      <3>1. pg' \in Testers
        <4>1. PICK p, n \in {0, 1} : pg' = [pg EXCEPT !.pwr = p, !.ptn = n]
          BY <2>3 DEF PowerElsewhere
        <4> QED BY <4>1, Updates, Numbers
      <3>2. UNCHANGED box /\ UNCHANGED appVars /\ pg'.list = pg.list
        BY <2>3 DEF PowerElsewhere, Testers
      <3> QED BY <3>1, <3>2 DEF appVars
    <2>4. CASE Silence BY <2>4 DEF Boxes, Testers, Silence, appVars
    <2>5. ASSUME NEW m \in Modules, SyncBegin(m) PROVE BoxTypes'
      <3>1. /\ \/ pg' = [pg EXCEPT !.name = m, !.pwr = 0]
               \/ pg' = [pg EXCEPT !.name = m]
            /\ UNCHANGED <<box, app, target>>
        BY <2>5 DEF SyncBegin, notSrv, appVars
      <3>2. pg' \in Testers /\ pg'.list = pg.list BY <3>1 DEF Testers
      <3> QED BY <3>1, <3>2
    <2>6. ASSUME NEW m \in Modules, SyncFile(m) PROVE BoxTypes'
      <3>1. /\ pg' = [pg EXCEPT !.disk = [pg.disk EXCEPT ![m] = Copy(m)]]
            /\ UNCHANGED <<box, app, target>>
        BY <2>6 DEF SyncFile, notSrv, appVars
      <3>2. [pg.disk EXCEPT ![m] = Copy(m)] \in Disks BY DEF Testers, Disks, Copy
      <3>3. pg' \in Testers /\ pg'.list = pg.list BY <3>1, <3>2 DEF Testers
      <3> QED BY <3>1, <3>3
    <2> QED BY <1>7, <2>1, <2>2, <2>3, <2>4, <2>5, <2>6 DEF Outside
  <1>8. CASE UNCHANGED vars BY <1>8 DEF Boxes, Testers, vars, appVars
  <1> QED BY <1>1, <1>2, <1>3, <1>4, <1>5, <1>6, <1>7, <1>8 DEF Next

-----------------------------------------------------------------------------
(* One firmware call at a time: it is in the queue, or the apartment is at *)
(* work on it, only while the TCP thread waits for it.                     *)

Commands == Keys \cup {"version", "upgrade"}
Queued(c) == {i \in 1 .. Len(c) : c[i] = "upgrade"}

ChanTypes ==
  /\ chan \in Seq(Commands) /\ Len(chan) <= Capacity
  /\ got \in Keys \cup {"none"}
  /\ rcv \in {"aliveKey", "key", "post"} => got \in Keys

OneCall ==
  /\ Queued(chan) # {} => srv = "wait" /\ msg # "upgrade"
  /\ \A i, j \in Queued(chan) : i = j
  /\ msg = "upgrade" => srv = "wait"
  /\ app \in UpgradePlaces => msg = "upgrade"

UpgradeInv == ChanTypes /\ OneCall

LEMMA InitUpgrade == Init => UpgradeInv
  BY BoxAssumption DEF Init, UpgradeInv, ChanTypes, OneCall, Queued, UpgradePlaces

\* A key or a question behind the queue adds no call, and the first message
\* taken from it leaves the others.
LEMMA QueuedAppend ==
  ASSUME NEW c \in Seq(Commands), NEW x \in Commands
  PROVE  /\ Append(c, x) \in Seq(Commands) /\ Len(Append(c, x)) = Len(c) + 1
         /\ Queued(Append(c, x)) =
              IF x = "upgrade" THEN Queued(c) \cup {Len(c) + 1} ELSE Queued(c)
  BY DEF Queued

LEMMA QueuedTail ==
  ASSUME NEW c \in Seq(Commands), c # <<>>
  PROVE  /\ Tail(c) \in Seq(Commands) /\ Len(Tail(c)) = Len(c) - 1 /\ Head(c) \in Commands
         /\ \A i \in Queued(Tail(c)) : i + 1 \in Queued(c) /\ i \in Nat
         /\ Head(c) = "upgrade" => 1 \in Queued(c)
         /\ 0 \notin Queued(Tail(c))
  BY DEF Queued

LEMMA NextUpgrade == UpgradeInv /\ LineInv /\ [Next]_vars => UpgradeInv'
  <1> SUFFICES ASSUME UpgradeInv, LineInv, [Next]_vars PROVE UpgradeInv' OBVIOUS
  <1> USE BoxAssumption DEF UpgradeInv, ChanTypes, OneCall, UpgradePlaces
  <1>1. CASE Apartment
    <2>1. CASE Take
      <3>1. /\ chan # <<>> /\ msg' = Head(chan) /\ chan' = Tail(chan)
            /\ app' = "start" /\ UNCHANGED <<srv, rcv, got>>
        BY <2>1 DEF Take, others
      <3>2. ChanTypes' BY <3>1, QueuedTail
      <3>3. Queued(chan') # {} => srv = "wait" BY <3>1, QueuedTail
      <3>4. Queued(chan') # {} => msg' # "upgrade"
        <4> SUFFICES ASSUME NEW i \in Queued(Tail(chan)), Head(chan) = "upgrade" PROVE FALSE
          BY <3>1
        <4>1. i + 1 \in Queued(chan) /\ 1 \in Queued(chan) /\ i \in Nat /\ i # 0
          BY <3>1, QueuedTail
        <4>2. i + 1 = 1 BY <4>1
        <4> QED BY <4>1, <4>2
      <3>5. ASSUME NEW i \in Queued(Tail(chan)), NEW j \in Queued(Tail(chan)) PROVE i = j
        <4>1. i + 1 \in Queued(chan) /\ j + 1 \in Queued(chan) /\ i \in Nat /\ j \in Nat
          BY <3>1, QueuedTail
        <4>2. i + 1 = j + 1 BY <4>1
        <4> QED BY <4>1, <4>2
      <3>6. msg' = "upgrade" => srv = "wait" BY <3>1, QueuedTail
      <3> QED BY <3>1, <3>2, <3>3, <3>4, <3>5, <3>6
    <2>2. CASE SendReply BY <2>2 DEF SendReply, others, Goto, Frame, LineInv
    <2>3. CASE Ignore BY <2>3 DEF Ignore, others, Goto
    <2>4. CASE SelectModule BY <2>4 DEF SelectModule, others, Goto, Step
    <2>5. CASE SetModule BY <2>5 DEF SetModule, others, Reply
    <2>6. CASE SelectPattern BY <2>6 DEF SelectPattern, others, Goto,
       NextPattern, Found
    <2>7. CASE SetPattern BY <2>7 DEF SetPattern, others, Goto
    <2>8. CASE ShowPattern BY <2>8 DEF ShowPattern, others, Reply
    <2>9. CASE PowerKey BY <2>9 DEF PowerKey, others, SetBusy, Goto, Start
    <2>10. CASE PowerOff BY <2>10 DEF PowerOff, others, Goto
    <2>11. CASE PowerOnBegin BY <2>11 DEF PowerOnBegin, others, Goto
    <2>12. CASE PowerOn BY <2>12 DEF PowerOn, others, Goto
    <2>13. CASE Powered BY <2>13 DEF Powered, others, SetBusy, Reply
    <2>14. CASE OkKey BY <2>14 DEF OkKey, others, SetBusy, Goto, Start
    <2>15. CASE SetName BY <2>15 DEF SetName, others, Goto
    <2>16. CASE WriteName BY <2>16 DEF WriteName, others, Goto
    <2>17. CASE LoadRead BY <2>17 DEF LoadRead, others
    <2>18. CASE LoadTest BY <2>18 DEF LoadTest, others, SetBusy, Goto, NotLoaded
    <2>19. CASE LoadOpen BY <2>19 DEF LoadOpen, others, SetBusy, Goto, Install
    <2>20. CASE Enter BY <2>20 DEF Enter, others, Reply
    <2>21. CASE HomeKey BY <2>21 DEF HomeKey, others, Start
    <2>22. CASE Connect BY <2>22 DEF Connect, others, Goto
    <2>23. CASE HomeName BY <2>23 DEF HomeName, others, Goto
    <2>24. CASE HomeList BY <2>24 DEF HomeList, others, Goto
    <2>25. CASE Synced BY <2>25 DEF Synced, others, Goto, Reply
    <2>26. CASE ToModules BY <2>26 DEF ToModules, others, Goto, Reply, Found
    <2>27. CASE AskVersion BY <2>27 DEF AskVersion, others, Reply, Start
    <2>28. CASE Upgrade BY <2>28 DEF Upgrade, others, SetBusy, Goto, Start
    <2>29. CASE UpgradeBegin BY <2>29 DEF UpgradeBegin, others, Goto
    <2>30. CASE UpgradeFrame BY <2>30 DEF UpgradeFrame, others, appVars
    <2>31. CASE UpgradeEnd BY <2>31 DEF UpgradeEnd, others, Goto
    <2>32. CASE AskAgain BY <2>32 DEF AskAgain, others, Goto
    <2>33. CASE UpgradeOver BY <2>33 DEF UpgradeOver, SetBusy, Goto
    <2> QED BY <1>1, <2>1, <2>2, <2>3, <2>4, <2>5, <2>6, <2>7, <2>8, <2>9,
       <2>10, <2>11, <2>12, <2>13, <2>14, <2>15, <2>16, <2>17, <2>18, <2>19, <2>20, <2>21,
       <2>22, <2>23, <2>24, <2>25, <2>26, <2>27, <2>28, <2>29, <2>30, <2>31, <2>32, <2>33 DEF
       Apartment
  <1>2. CASE HandThread
    <2>1. CASE HandCheck BY <2>1 DEF HandCheck, notHand, appVars
    <2>2. CASE HandInTime BY <2>2 DEF HandInTime, notHand, appVars
    <2>3. CASE HandForget BY <2>3 DEF HandForget, notHand, appVars, Reset
    <2>4. CASE HandSend BY <2>4 DEF HandSend, notHand, appVars
    <2> QED BY <1>2, <2>1, <2>2, <2>3, <2>4 DEF HandThread
  <1>3. CASE RcvThread
    <2>1. CASE Alive BY <2>1 DEF Alive, notRcv, appVars
    <2>2. CASE VersionAnswer BY <2>2 DEF VersionAnswer, notRcv, appVars
    <2>3. CASE VersionKnown BY <2>3 DEF VersionKnown, notRcv, appVars
    <2>4. CASE KeyGate BY <2>4 DEF KeyGate, notRcv, appVars
    <2>5. CASE PostKey
      <3>1. /\ chan' = Append(chan, got) /\ got \in Keys /\ Len(chan) < Capacity
            /\ rcv' = "read" /\ got' = "none" /\ UNCHANGED <<srv, msg, app>>
        BY <2>5 DEF PostKey, notRcv, appVars
      <3>2. got \in Commands /\ got # "upgrade" BY <3>1 DEF Commands, Keys
      <3>3. /\ chan' \in Seq(Commands) /\ Len(chan') = Len(chan) + 1
            /\ Queued(chan') = Queued(chan)
        BY <3>1, <3>2, QueuedAppend
      <3>4. Len(chan') <= Capacity BY <3>1, <3>3
      <3> QED BY <3>1, <3>3, <3>4
    <2>6. ASSUME NEW v \in Versions, ReadVersion(v) PROVE UpgradeInv' BY <2>6
       DEF ReadVersion, notRcv, appVars
    <2> QED BY <1>3, <2>1, <2>2, <2>3, <2>4, <2>5, <2>6 DEF RcvThread
  <1>4. CASE VersionTask
    <2>1. CASE TaskWait BY <2>1 DEF TaskWait, notTask, appVars
    <2>2. CASE TaskLoop BY <2>2 DEF TaskLoop, notTask, appVars
    <2>3. CASE TaskPost
      <3>1. /\ chan' = Append(chan, "version") /\ Len(chan) < Capacity
            /\ UNCHANGED <<srv, msg, app, rcv, got>>
        BY <2>3 DEF TaskPost, notTask, appVars
      <3>2. "version" \in Commands BY DEF Commands
      <3>3. /\ chan' \in Seq(Commands) /\ Len(chan') = Len(chan) + 1
            /\ Queued(chan') = Queued(chan)
        BY <3>1, <3>2, QueuedAppend
      <3>4. Len(chan') <= Capacity BY <3>1, <3>3
      <3> QED BY <3>1, <3>3, <3>4
    <2> QED BY <1>4, <2>1, <2>2, <2>3 DEF VersionTask
  <1>5. CASE ServerThread
    <2>1. CASE UpgradeSend
      <3>1. /\ chan' = Append(chan, "upgrade") /\ Len(chan) < Capacity
            /\ srv = "call" /\ srv' = "wait" /\ UNCHANGED <<msg, app, rcv, got>>
        BY <2>1 DEF UpgradeSend, notSrv, appVars
      <3>2. "upgrade" \in Commands BY DEF Commands
      <3>3. Queued(chan) = {} /\ msg # "upgrade" BY <3>1
      <3>4. /\ chan' \in Seq(Commands) /\ Len(chan') = Len(chan) + 1
            /\ Queued(chan') = {Len(chan) + 1}
        BY <3>1, <3>2, <3>3, QueuedAppend
      <3>5. Len(chan') <= Capacity BY <3>1, <3>4
      <3> QED BY <3>1, <3>3, <3>4, <3>5
    <2>2. CASE SyncWrite BY <2>2 DEF SyncWrite, notSrv, appVars
    <2>3. CASE SyncRead BY <2>3 DEF SyncRead, notSrv, appVars
    <2>4. CASE SyncOpen BY <2>4 DEF SyncOpen, notSrv, appVars, Install, NotLoaded
    <2>5. CASE SyncWipe BY <2>5 DEF SyncWipe, notSrv, appVars
    <2>6. CASE SyncHome BY <2>6 DEF SyncHome, notSrv, appVars, Reset
    <2>7. CASE SrvFrame BY <2>7 DEF SrvFrame, Frame, notSrv, appVars
    <2> QED BY <1>5, <2>1, <2>2, <2>3, <2>4, <2>5, <2>6, <2>7 DEF ServerThread
  <1>6. CASE BgFrame BY <1>6 DEF BgFrame, appVars, Frame
  <1>7. CASE Outside
    <2>1. ASSUME NEW k \in Pressed, ReadKey(k) PROVE UpgradeInv' BY <2>1 DEF
       ReadKey, Keys, notRcv, appVars
    <2>2. CASE UpgradeCall BY <2>2 DEF UpgradeCall, notSrv, appVars
    <2>3. CASE PowerElsewhere BY <2>3 DEF PowerElsewhere, appVars
    <2>4. CASE Silence BY <2>4 DEF Silence, appVars
    <2>5. ASSUME NEW m \in Modules, SyncBegin(m) PROVE UpgradeInv' BY <2>5 DEF
       SyncBegin, notSrv, appVars
    <2>6. ASSUME NEW m \in Modules, SyncFile(m) PROVE UpgradeInv' BY <2>6 DEF
       SyncFile, notSrv, appVars
    <2> QED BY <1>7, <2>1, <2>2, <2>3, <2>4, <2>5, <2>6 DEF Outside
  <1>8. CASE UNCHANGED vars BY <1>8 DEF vars, appVars
  <1> QED BY <1>1, <1>2, <1>3, <1>4, <1>5, <1>6, <1>7, <1>8 DEF Next

-----------------------------------------------------------------------------
(* Firmware images, calls and what is left of the upgrades. *)

\* A call of the TCP thread whose image is not on the box yet.
Pending == IF srv \in {"call", "wait"} /\ app \notin {"upgraded", "upgOver"} THEN 1 ELSE 0

VerTypes ==
  /\ ver \in [asked : BOOLEAN, known : Versions \cup {-1},
              read : Versions \cup {-1}, sem : Nat]
  /\ uart.rx \subseteq Versions
Budgets == [key : Nat, silence : Nat, power : Nat, sync : Nat, upgrade : Nat]
LeftTypes == left \in Budgets
Counted ==
  /\ uart.fw \in Nat /\ uart.fw + left.upgrade + Pending = Upgrades

CountInv == VerTypes /\ LeftTypes /\ Counted

\* An image more, a call less.
LEMMA OneOver == \A f, u, b \in Int : f + u + 1 = b => (f + 1) + u + 0 = b
  OBVIOUS

\* What one act of the outside leaves of a budget.
LEMMA Spends ==
  ASSUME NEW l \in Budgets
  PROVE  /\ l.key > 0 => [l EXCEPT !.key = @ - 1] \in Budgets
         /\ l.silence > 0 => [l EXCEPT !.silence = @ - 1] \in Budgets
         /\ l.power > 0 => [l EXCEPT !.power = @ - 1] \in Budgets
         /\ l.sync > 0 => [l EXCEPT !.sync = @ - 1] \in Budgets
         /\ l.upgrade > 0 => [l EXCEPT !.upgrade = @ - 1] \in Budgets
  <1>1. ASSUME NEW n \in Nat
        PROVE  /\ [l EXCEPT !.key = n] \in Budgets
               /\ [l EXCEPT !.silence = n] \in Budgets
               /\ [l EXCEPT !.power = n] \in Budgets
               /\ [l EXCEPT !.sync = n] \in Budgets
               /\ [l EXCEPT !.upgrade = n] \in Budgets
    BY Zenon DEF Budgets
  <1>2. /\ l.key > 0 => l.key - 1 \in Nat
        /\ l.silence > 0 => l.silence - 1 \in Nat
        /\ l.power > 0 => l.power - 1 \in Nat
        /\ l.sync > 0 => l.sync - 1 \in Nat
        /\ l.upgrade > 0 => l.upgrade - 1 \in Nat
    BY DEF Budgets
  <1> QED BY <1>1, <1>2

LEMMA InitCount == Init => CountInv
  BY BoxAssumption DEF Init, Budgets, CountInv, VerTypes, LeftTypes, Counted, Pending, Versions

LEMMA NextCount == CountInv /\ UpgradeInv /\ LineInv /\ [Next]_vars => CountInv'
  <1> SUFFICES ASSUME CountInv, UpgradeInv, LineInv, [Next]_vars PROVE CountInv' OBVIOUS
  <1> USE BoxAssumption DEF CountInv, VerTypes, LeftTypes, Counted, Pending, LineInv, LineType
  <1>1. CASE Apartment
    <2>1. CASE Take BY <2>1 DEF Take, others
    <2>2. CASE SendReply
      <3>1. UNCHANGED <<ver, left, srv>> /\ app = "reply" /\ app' \in {"recv", "home"}
        BY <2>2 DEF SendReply, others, Goto
      <3>2. uart.fw \in Versions /\ uart.fw \in Int
        <4>1. Pending \in {0, 1} /\ left.upgrade \in Nat BY DEF Budgets
        <4>2. uart.fw \in Nat /\ uart.fw <= Upgrades BY <4>1
        <4> QED BY <4>2 DEF Versions
      <3>3. uart'.fw = uart.fw /\ uart'.rx \subseteq uart.rx \cup {uart.fw}
        BY <2>2 DEF SendReply, Frame
      <3>4. Pending' = Pending BY <3>1
      <3> QED BY <3>1, <3>2, <3>3, <3>4
    <2>3. CASE Ignore BY <2>3 DEF Ignore, others, Goto
    <2>4. CASE SelectModule BY <2>4 DEF SelectModule, others, Goto, Step
    <2>5. CASE SetModule BY <2>5 DEF SetModule, others, Reply
    <2>6. CASE SelectPattern BY <2>6 DEF SelectPattern, others, Goto,
       NextPattern, Found
    <2>7. CASE SetPattern BY <2>7 DEF SetPattern, others, Goto
    <2>8. CASE ShowPattern BY <2>8 DEF ShowPattern, others, Reply
    <2>9. CASE PowerKey BY <2>9 DEF PowerKey, others, SetBusy, Goto, Start
    <2>10. CASE PowerOff BY <2>10 DEF PowerOff, others, Goto
    <2>11. CASE PowerOnBegin BY <2>11 DEF PowerOnBegin, others, Goto
    <2>12. CASE PowerOn BY <2>12 DEF PowerOn, others, Goto
    <2>13. CASE Powered BY <2>13 DEF Powered, others, SetBusy, Reply
    <2>14. CASE OkKey BY <2>14 DEF OkKey, others, SetBusy, Goto, Start
    <2>15. CASE SetName BY <2>15 DEF SetName, others, Goto
    <2>16. CASE WriteName BY <2>16 DEF WriteName, others, Goto
    <2>17. CASE LoadRead BY <2>17 DEF LoadRead, others
    <2>18. CASE LoadTest BY <2>18 DEF LoadTest, others, SetBusy, Goto, NotLoaded
    <2>19. CASE LoadOpen BY <2>19 DEF LoadOpen, others, SetBusy, Goto, Install
    <2>20. CASE Enter BY <2>20 DEF Enter, others, Reply
    <2>21. CASE HomeKey BY <2>21 DEF HomeKey, others, Start
    <2>22. CASE Connect BY <2>22 DEF Connect, others, Goto
    <2>23. CASE HomeName BY <2>23 DEF HomeName, others, Goto
    <2>24. CASE HomeList BY <2>24 DEF HomeList, others, Goto
    <2>25. CASE Synced BY <2>25 DEF Synced, others, Goto, Reply
    <2>26. CASE ToModules BY <2>26 DEF ToModules, others, Goto, Reply, Found
    <2>27. CASE AskVersion BY <2>27 DEF AskVersion, others, Reply, Start
    <2>28. CASE Upgrade BY <2>28 DEF Upgrade, others, SetBusy, Goto, Start
    <2>29. CASE UpgradeBegin BY <2>29 DEF UpgradeBegin, others, Goto
    <2>30. CASE UpgradeFrame BY <2>30 DEF UpgradeFrame, others, appVars
    <2>31. CASE UpgradeEnd
      <3>1. /\ UNCHANGED <<ver, left, srv>> /\ app = "upgrade" /\ app' = "upgraded"
            /\ uart' = [uart EXCEPT !.lock = "free", !.upgrading = FALSE, !.fw = uart.fw + 1,
                                    !.sent = 0]
        BY <2>31 DEF UpgradeEnd, others, Goto
      <3>2. srv = "wait" BY <3>1 DEF UpgradeInv, OneCall, UpgradePlaces
      <3>3. Pending = 1 /\ Pending' = 0 BY <3>1, <3>2
      <3>4. uart'.fw = uart.fw + 1 /\ uart'.rx = uart.rx BY <3>1
      <3>5. left.upgrade \in Nat BY DEF Budgets
      <3>6. uart.fw + left.upgrade + 1 = Upgrades BY <3>3
      <3>7. uart.fw \in Int /\ left.upgrade \in Int /\ Upgrades \in Int BY <3>5
      <3>8. (uart.fw + 1) + left.upgrade + 0 = Upgrades BY <3>6, <3>7, OneOver
      <3>9. uart'.fw + left'.upgrade + Pending' = Upgrades
        BY <3>1, <3>3, <3>4, <3>8, Zenon
      <3>10. uart'.fw \in Nat BY <3>4
      <3> QED BY <3>1, <3>4, <3>9, <3>10
    <2>32. CASE AskAgain
      <3>1. UNCHANGED <<uart, left, srv>> /\ app = "upgraded" /\ app' = "upgOver"
        BY <2>32 DEF AskAgain, others, Goto
      <3>2. ver' = [ver EXCEPT !.known = -1, !.asked = TRUE, !.sem = ver.sem + 1]
        BY <2>32 DEF AskAgain
      <3>3. ver.sem + 1 \in Nat OBVIOUS
      <3>4. ASSUME NEW n \in Nat, ver' = [ver EXCEPT !.known = -1, !.asked = TRUE, !.sem = n]
            PROVE  VerTypes'
        BY <3>1, <3>4, Zenon DEF VerTypes
      <3>5. VerTypes' BY <3>2, <3>3, <3>4
      <3> QED BY <3>1, <3>5
    <2>33. CASE UpgradeOver BY <2>33 DEF UpgradeOver, SetBusy, Goto
    <2> QED BY <1>1, <2>1, <2>2, <2>3, <2>4, <2>5, <2>6, <2>7, <2>8, <2>9,
       <2>10, <2>11, <2>12, <2>13, <2>14, <2>15, <2>16, <2>17, <2>18, <2>19, <2>20, <2>21,
       <2>22, <2>23, <2>24, <2>25, <2>26, <2>27, <2>28, <2>29, <2>30, <2>31, <2>32, <2>33 DEF
       Apartment
  <1>2. CASE HandThread
    <2>1. CASE HandCheck BY <2>1 DEF HandCheck, notHand, appVars
    <2>2. CASE HandInTime BY <2>2 DEF HandInTime, notHand, appVars
    <2>3. CASE HandForget BY <2>3 DEF HandForget, notHand, appVars, Reset
    <2>4. CASE HandSend BY <2>4 DEF HandSend, notHand, appVars
    <2> QED BY <1>2, <2>1, <2>2, <2>3, <2>4 DEF HandThread
  <1>3. CASE RcvThread
    <2>1. CASE Alive BY <2>1 DEF Alive, notRcv, appVars
    <2>2. CASE VersionAnswer BY <2>2 DEF VersionAnswer, notRcv, appVars
    <2>3. CASE VersionKnown BY <2>3 DEF VersionKnown, notRcv, appVars
    <2>4. CASE KeyGate BY <2>4 DEF KeyGate, notRcv, appVars
    <2>5. CASE PostKey BY <2>5 DEF PostKey, notRcv, appVars
    <2>6. ASSUME NEW v \in Versions, ReadVersion(v) PROVE CountInv' BY <2>6 DEF
       ReadVersion, notRcv, appVars
    <2> QED BY <1>3, <2>1, <2>2, <2>3, <2>4, <2>5, <2>6 DEF RcvThread
  <1>4. CASE VersionTask
    <2>1. CASE TaskWait
      <3>1. UNCHANGED <<uart, left, srv, app>> BY <2>1 DEF TaskWait, notTask, appVars
      <3>2. ver.sem > 0 /\ ver' = [ver EXCEPT !.sem = ver.sem - 1] BY <2>1 DEF TaskWait
      <3>3. ver.sem - 1 \in Nat BY <3>2
      <3>4. ASSUME NEW n \in Nat, ver' = [ver EXCEPT !.sem = n] PROVE VerTypes'
        BY <3>1, <3>4, Zenon DEF VerTypes
      <3>5. VerTypes' BY <3>2, <3>3, <3>4
      <3> QED BY <3>1, <3>5
    <2>2. CASE TaskLoop BY <2>2 DEF TaskLoop, notTask, appVars
    <2>3. CASE TaskPost BY <2>3 DEF TaskPost, notTask, appVars
    <2> QED BY <1>4, <2>1, <2>2, <2>3 DEF VersionTask
  <1>5. CASE ServerThread
    <2>1. CASE UpgradeSend BY <2>1 DEF UpgradeSend, notSrv, appVars
    <2>2. CASE SyncWrite BY <2>2 DEF SyncWrite, notSrv, appVars
    <2>3. CASE SyncRead BY <2>3 DEF SyncRead, notSrv, appVars
    <2>4. CASE SyncOpen BY <2>4 DEF SyncOpen, notSrv, appVars, Install, NotLoaded
    <2>5. CASE SyncWipe BY <2>5 DEF SyncWipe, notSrv, appVars
    <2>6. CASE SyncHome BY <2>6 DEF SyncHome, notSrv, appVars, Reset
    <2>7. CASE SrvFrame BY <2>7 DEF SrvFrame, Frame, notSrv, appVars
    <2> QED BY <1>5, <2>1, <2>2, <2>3, <2>4, <2>5, <2>6, <2>7 DEF ServerThread
  <1>6. CASE BgFrame BY <1>6 DEF BgFrame, appVars, Frame
  <1>7. CASE Outside
    <2>1. ASSUME NEW k \in Pressed, ReadKey(k) PROVE CountInv'
      <3>1. left.key > 0 /\ left' = [left EXCEPT !.key = left.key - 1]
        BY <2>1 DEF ReadKey
      <3>2. LeftTypes' BY <3>1, Spends
      <3>3. left'.upgrade = left.upgrade BY <3>1 DEF Budgets
      <3>4. UNCHANGED <<ver, uart, srv, app>> BY <2>1 DEF ReadKey, notRcv, notSrv, appVars
      <3> QED BY <3>2, <3>3, <3>4
    <2>2. CASE UpgradeCall
      <3>1. /\ left.upgrade > 0 /\ left' = [left EXCEPT !.upgrade = left.upgrade - 1]
            /\ srv = "idle" /\ srv' = "call" /\ UNCHANGED <<ver, uart, app>>
        BY <2>2 DEF UpgradeCall, notSrv, appVars
      <3>2. LeftTypes' BY <3>1, Spends
      <3>3. left'.upgrade = left.upgrade - 1 /\ left.upgrade \in Nat BY <3>1 DEF Budgets
      <3>4. app \notin {"upgraded", "upgOver"}
        BY <3>1 DEF UpgradeInv, OneCall, UpgradePlaces
      <3>5. Pending = 0 /\ Pending' = 1 BY <3>1, <3>4
      <3>6. uart'.fw + left'.upgrade + Pending' = Upgrades BY <3>1, <3>3, <3>5
      <3> QED BY <3>1, <3>2, <3>6
    <2>3. CASE PowerElsewhere
      <3>1. left.power > 0 /\ left' = [left EXCEPT !.power = left.power - 1]
        BY <2>3 DEF PowerElsewhere
      <3>2. LeftTypes' BY <3>1, Spends
      <3>3. left'.upgrade = left.upgrade BY <3>1 DEF Budgets
      <3>4. UNCHANGED <<ver, uart, srv, app>> BY <2>3 DEF PowerElsewhere, notRcv, notSrv, appVars
      <3> QED BY <3>2, <3>3, <3>4
    <2>4. CASE Silence
      <3>1. left.silence > 0 /\ left' = [left EXCEPT !.silence = left.silence - 1]
        BY <2>4 DEF Silence
      <3>2. LeftTypes' BY <3>1, Spends
      <3>3. left'.upgrade = left.upgrade BY <3>1 DEF Budgets
      <3>4. UNCHANGED <<ver, uart, srv, app>> BY <2>4 DEF Silence, notRcv, notSrv, appVars
      <3> QED BY <3>2, <3>3, <3>4
    <2>5. ASSUME NEW m \in Modules, SyncBegin(m) PROVE CountInv'
      <3>1. left.sync > 0 /\ left' = [left EXCEPT !.sync = left.sync - 1]
        BY <2>5 DEF SyncBegin
      <3>2. LeftTypes' BY <3>1, Spends
      <3>3. left'.upgrade = left.upgrade BY <3>1 DEF Budgets
      <3>4. UNCHANGED <<ver, uart, app>> /\ srv = "idle" /\ srv' \in {"idle", "wipe"}
        BY <2>5 DEF SyncBegin, notSrv, appVars
      <3>5. Pending' = Pending BY <3>4
      <3> QED BY <3>2, <3>3, <3>4, <3>5
    <2>6. ASSUME NEW m \in Modules, SyncFile(m) PROVE CountInv' BY <2>6 DEF SyncFile,
       notSrv, appVars
    <2> QED BY <1>7, <2>1, <2>2, <2>3, <2>4, <2>5, <2>6 DEF Outside
  <1>8. CASE UNCHANGED vars BY <1>8 DEF vars, appVars
  <1> QED BY <1>1, <1>2, <1>3, <1>4, <1>5, <1>6, <1>7, <1>8 DEF Next

-----------------------------------------------------------------------------
(* A connected box. *)

\* The look ups of HOME_KEY are over and the box's module is in the list.
Settled ==
  box.connected /\ app \notin {"homeName", "homeList", "homeFind"} /\ box.name \in Listed

\* The layer, the index, the number of patterns and what is browsed.
Named ==
  Settled =>
    /\ box.layer # "none"
    /\ box.idx \in DOMAIN pg.list /\ pg.list[box.idx].name = box.name
Sized == Settled /\ ~syncing => box.total = Count(box.name)
Browsed ==
  Settled /\ ~syncing /\ box.layer = "picture" =>
    pg.cfg = box.name /\ (pg.missed \/ pg.loaded = Content(box.name))

\* The handlers that choose a module run while the modules are browsed: only
\* their own last step shows the patterns.
Loading == {"loadRead", "loadTest", "loadOpen"}
Choosing ==
  box.connected /\ app \in {"setModule", "setName", "writeName", "enter"} \cup Loading =>
    box.layer = "module"

\* The neighbour looked up has the number of patterns on the disk, because a
\* file that was there when HOME_KEY listed it still is.
Fresh ==
  box.connected /\ ~syncing =>
    /\ app \notin {"homeName", "homeList"} => Listed \subseteq Present
    /\ app = "setModule" => pg.list[target].total = Count(pg.list[target].name)

\* What OK_KEY has written so far is the selected module, and what HOME_KEY
\* has read is still in module.ini.
Written ==
  box.connected =>
    /\ app = "homeFind" => box.name = target
    /\ ~syncing =>
         /\ app = "writeName" => pg.name = box.name
         /\ app \in Loading \cup {"enter"} => pg.cfg = box.name
         /\ app \in {"homeList", "homeFind"} => target = pg.cfg
NoIni == pg.cfg = NoFile => DOMAIN pg.list = {} /\ app # "homeList"

\* Outside load_cur_module the module in module.ini is loaded, or was missed.
CfgLoaded ==
  (~syncing \/ srv = "syncHome") /\ app \notin Loading =>
    pg.missed \/ pg.loaded = Content(pg.cfg)
SyncRuns == srv \in {"wipe", "syncRead", "syncOpen", "syncHome"} => syncing

ConnInv ==
  /\ Named /\ Sized /\ Browsed /\ Choosing /\ Fresh /\ Written /\ NoIni
  /\ CfgLoaded /\ SyncRuns

\* A step of the apartment or of a load that takes no file away and leaves the
\* names in the list.
Steady ==
  /\ Listed' = Listed /\ Present \subseteq Present'
  /\ \A m : Content(m)' = Content(m) /\ Count(m)' = Count(m)
LookUpKeeps ==
  /\ Steady
  /\ DOMAIN pg'.list = DOMAIN pg.list
  /\ \A i \in DOMAIN pg.list : pg'.list[i].name = pg.list[i].name
  /\ UNCHANGED <<pg.name, pg.cfg, pg.loaded, pg.missed>>

LEMMA StaysSame == UNCHANGED <<pg.disk, pg.list>> => Steady
  BY DEF Steady, Listed, Present, Content, Count

LEMMA SteadyFiles ==
  ASSUME UNCHANGED DOMAIN pg.list,
         \A i \in DOMAIN pg.list : pg'.list[i].name = pg.list[i].name,
         \A k \in Modules : /\ pg'.disk[k] = "full" <=> pg.disk[k] = "full"
                            /\ pg.disk[k] # "gone" => pg'.disk[k] # "gone"
  PROVE  Steady
  <1>1. Listed' = Listed BY DEF Listed
  <1>2. Present \subseteq Present' BY DEF Present
  <1>3. \A m : Content(m)' = Content(m) BY DEF Content
  <1>4. \A m : Count(m)' = Count(m) BY <1>3 DEF Count
  <1> QED BY <1>1, <1>2, <1>3, <1>4 DEF Steady

LEMMA LookedUp ==
  ASSUME pg \in Testers, NEW i \in DOMAIN pg.list, pg' = LookUp(i)
  PROVE  LookUpKeeps
  <1>1. pg.list[i].name \in Modules /\ pg'.disk = Opened(pg.list[i].name) BY LookUpFacts
  <1>2. \A k \in Modules : /\ pg'.disk[k] = "full" <=> pg.disk[k] = "full"
                           /\ pg.disk[k] # "gone" => pg'.disk[k] # "gone"
    BY <1>1, OpenedFacts
  <1>3. /\ DOMAIN pg'.list = DOMAIN pg.list
        /\ \A j \in DOMAIN pg.list : pg'.list[j].name = pg.list[j].name
        /\ UNCHANGED <<pg.name, pg.cfg, pg.loaded, pg.missed>>
    BY LookUpFacts
  <1>4. Steady BY <1>2, <1>3, SteadyFiles
  <1> QED BY <1>3, <1>4 DEF LookUpKeeps

LEMMA Installed ==
  ASSUME pg \in Testers, NEW m, pg' = Install(m)
  PROVE  Steady
  <1>1. pg'.list = pg.list BY InstallFacts
  <1>2. \A k \in Modules : /\ pg'.disk[k] = "full" <=> pg.disk[k] = "full"
                           /\ pg.disk[k] # "gone" => pg'.disk[k] # "gone"
    BY InstallFacts
  <1> QED BY <1>1, <1>2, SteadyFiles

LEMMA InitConn == Init => ConnInv
  <1> SUFFICES ASSUME Init PROVE ConnInv OBVIOUS
  <1>1. ~box.connected /\ app = "recv" /\ srv = "idle" BY DEF Init, Reset
  <1>2. PICK s \in Starts :
          pg = [pwr |-> s.pwr, ptn |-> 0, name |-> NoName, cfg |-> s.cfg,
                loaded |-> IF s.cfg \in s.files \ Broken THEN s.cfg ELSE NoName,
                disk |-> [m \in Modules |-> IF m \in s.files THEN Copy(m) ELSE "gone"],
                list |-> <<>>, missed |-> s.cfg \notin s.files]
    BY DEF Init
  <1>3. DOMAIN pg.list = {} BY <1>2
  <1>4. pg.missed \/ pg.loaded = Content(pg.cfg)
    <2>1. CASE s.cfg \in s.files
      <3>1. s.files \subseteq Modules BY BoxAssumption
      <3>2. pg.cfg = s.cfg /\ pg.disk[s.cfg] = Copy(s.cfg) BY <1>2, <2>1, <3>1
      <3>3. pg.loaded = IF s.cfg \in Broken THEN NoName ELSE s.cfg BY <1>2, <2>1
      <3> QED BY <2>1, <3>1, <3>2, <3>3 DEF Content, Copy
    <2>2. CASE s.cfg \notin s.files BY <1>2, <2>2
    <2> QED BY <2>1, <2>2
  <1> QED BY <1>1, <1>3, <1>4 DEF ConnInv, Settled, Named, Sized, Browsed, Choosing,
     Fresh,
             Written, NoIni, CfgLoaded, SyncRuns, Loading

LEMMA NextConn == BoxTypes /\ LineInv /\ UpgradeInv /\ ConnInv /\ [Next]_vars => ConnInv'
  <1> SUFFICES ASSUME BoxTypes, LineInv, UpgradeInv, ConnInv, [Next]_vars PROVE ConnInv' OBVIOUS
  <1> USE DEF ConnInv, Settled, Named, Sized, Browsed, Choosing, Fresh, Written, NoIni,
          CfgLoaded, SyncRuns, Loading, BoxTypes, Boxes, Testers
  <1>1. CASE Apartment
    <2>1. CASE Take BY <2>1, StaysSame DEF Steady, Take, others
    <2>2. CASE SendReply BY <2>2, StaysSame DEF Steady, SendReply, others, Goto, Frame,
       LineInv
    <2>3. CASE Ignore BY <2>3, StaysSame DEF Steady, Ignore, others, Goto
    <2>4. CASE SelectModule
      <3>1. UNCHANGED <<box, srv, syncing>> /\ app = "start" /\ box.layer = "module"
        BY <2>4 DEF SelectModule, others
      <3>2. CASE app' = "setModule"
        <4>1. /\ box.idx + Step \in DOMAIN pg.list /\ pg' = LookUp(box.idx + Step)
              /\ target' = box.idx + Step
          BY <2>4, <3>2 DEF SelectModule, Goto
        <4> DEFINE i == box.idx + Step
        <4>2. /\ i \in DOMAIN pg.list /\ pg' = LookUp(i) /\ target' = i BY <4>1
        <4> HIDE DEF i
        <4>3. LookUpKeeps BY <4>2, LookedUp
        <4>4. box.connected /\ ~syncing => TstPath
          BY <3>1, <4>2 DEF TstPath, Listed
        <4>5. box.connected /\ ~syncing => pg'.list[i].total = Count(pg.list[i].name)
          BY <4>2, <4>4, LookUpFacts
        <4>6. PICK m : m = pg.list[i].name OBVIOUS
        <4>7. pg'.list[target'].name = m /\ Count(m)' = Count(m)
          BY <4>2, <4>3, <4>6 DEF LookUpKeeps, Steady
        <4>8. box.connected /\ ~syncing => pg'.list[target'].total = Count(m)'
          BY <4>2, <4>5, <4>6, <4>7
        <4> HIDE DEF Fresh
        <4>9. Fresh'
          BY <3>1, <3>2, <4>3, <4>7, <4>8 DEF Fresh, LookUpKeeps, Steady
        <4> QED BY <3>1, <3>2, <4>3, <4>9 DEF LookUpKeeps, Steady
      <3>3. CASE app' # "setModule"
        <4>1. UNCHANGED pg /\ app' = "recv" BY <2>4, <3>3 DEF SelectModule, Goto
        <4> QED BY <3>1, <4>1, StaysSame DEF Steady
      <3> QED BY <3>2, <3>3
    <2>5. CASE SetModule
      <3>1. /\ box' = [box EXCEPT !.name = pg.list[target].name, !.idx = target,
                                  !.total = pg.list[target].total]
            /\ UNCHANGED <<pg, srv, syncing>> /\ app = "setModule" /\ app' = "reply"
        BY <2>5 DEF SetModule, Reply, others
      <3>2. target \in DOMAIN pg.list BY <3>1
      <3>3. /\ box'.name = pg.list[target].name /\ box'.idx = target
            /\ box'.total = pg.list[target].total /\ box'.connected = box.connected
            /\ box'.layer = box.layer
        BY <3>1
      <3> QED BY <3>1, <3>2, <3>3, StaysSame DEF Steady
    <2>6. CASE SelectPattern BY <2>6, StaysSame DEF Steady, SelectPattern, others, Goto,
       NextPattern, Found
    <2>7. CASE SetPattern BY <2>7, StaysSame DEF Steady, SetPattern, others, Goto
    <2>8. CASE ShowPattern BY <2>8, StaysSame DEF Steady, ShowPattern, others, Reply
    <2>9. CASE PowerKey BY <2>9, StaysSame DEF Steady, PowerKey, others, SetBusy, Goto,
       Start
    <2>10. CASE PowerOff BY <2>10, StaysSame DEF Steady, PowerOff, others, Goto
    <2>11. CASE PowerOnBegin BY <2>11, StaysSame DEF Steady, PowerOnBegin, others, Goto
    <2>12. CASE PowerOn
      <3>1. /\ UNCHANGED <<box, srv, syncing>> /\ app = "powerOn" /\ app' = "powered"
            /\ pg' = pg \/ pg' = [pg EXCEPT !.pwr = 1, !.ptn = 0]
        BY <2>12 DEF PowerOn, Goto, others
      <3>2. UNCHANGED <<pg.name, pg.cfg, pg.loaded, pg.missed, pg.disk, pg.list>>
        BY <3>1
      <3> QED BY <3>1, <3>2, StaysSame DEF Steady
    <2>13. CASE Powered BY <2>13, StaysSame DEF Steady, Powered, others, SetBusy, Reply
    <2>14. CASE OkKey BY <2>14, StaysSame DEF Steady, OkKey, others, SetBusy, Goto,
       Start
    <2>15. CASE SetName BY <2>15, StaysSame DEF Steady, SetName, others, Goto
    <2>16. CASE WriteName BY <2>16, StaysSame, BoxAssumption DEF Steady, WriteName,
       others, Goto, Names
    <2>17. CASE LoadRead BY <2>17, StaysSame DEF Steady, LoadRead, others
    <2>18. CASE LoadTest
      <3>1. /\ UNCHANGED <<box, srv, syncing>> /\ app = "loadTest"
            /\ \/ app' = "loadOpen" /\ UNCHANGED pg
               \/ app' = "enter" /\ pg' = [pg EXCEPT !.missed = TRUE]
        BY <2>18 DEF LoadTest, NotLoaded, Goto, others
      <3> QED BY <3>1, StaysSame DEF Steady
    <2>19. CASE LoadOpen
      <3>1. /\ pg' = Install(target) /\ UNCHANGED <<box, srv, syncing>>
            /\ app = "loadOpen" /\ app' = "enter"
        BY <2>19 DEF LoadOpen, Goto, others
      <3>2. Steady BY <3>1, Installed
      <3>3. /\ pg'.list = pg.list /\ pg'.name = pg.name /\ pg'.cfg = pg.cfg
            /\ pg'.loaded = Content(target) /\ (pg'.missed \/ target = pg.cfg)
        BY <3>1, InstallFacts
      <3> QED BY <3>1, <3>2, <3>3 DEF Steady
    <2>20. CASE Enter BY <2>20, StaysSame DEF Steady, Enter, others, Reply
    <2>21. CASE HomeKey BY <2>21, StaysSame DEF Steady, HomeKey, others, Start
    <2>22. CASE Connect BY <2>22, StaysSame DEF Steady, Connect, others, Goto
    <2>23. CASE HomeName
      <3>1. /\ UNCHANGED <<box, pg, srv, syncing>> /\ app = "homeName"
            /\ \/ pg.cfg = NoFile /\ app' = "recv"
               \/ pg.cfg # NoFile /\ app' = "homeList" /\ target' = pg.cfg
        BY <2>23 DEF HomeName, Goto, others
      <3> QED BY <3>1, StaysSame DEF Steady, Listed
    <2>24. CASE HomeList
      <3>1. PICK f \in Listings :
              pg' = [pg EXCEPT !.list = [i \in DOMAIN f |-> [name |-> f[i], total |-> 0]]]
        BY <2>24 DEF HomeList
      <3>2. /\ box' = [box EXCEPT !.name = target] /\ UNCHANGED <<srv, syncing>>
            /\ app = "homeList" /\ app' = "homeFind" /\ target' = target
        BY <2>24 DEF HomeList, Goto, others
      <3> DEFINE k == [i \in DOMAIN f |-> [name |-> f[i], total |-> 0]]
      <3>3. \A i \in DOMAIN k : k[i].name \in Present BY FreshList
      <3> HIDE DEF k
      <3>4. /\ pg'.list = k /\ pg'.cfg = pg.cfg /\ pg'.disk = pg.disk
            /\ pg'.loaded = pg.loaded /\ pg'.missed = pg.missed
        BY <3>1 DEF k
      <3>5. Present' = Present /\ \A m : Content(m)' = Content(m) BY <3>4 DEF Present, Content
      <3>6. \A m \in Listed' : m \in Present' BY <3>3, <3>4, <3>5 DEF Listed
      <3>7. box'.name = target /\ box'.connected = box.connected BY <3>2
      <3> QED BY <3>2, <3>4, <3>5, <3>6, <3>7
    <2>25. CASE Synced
      <3>1. CASE target \in Listed
        <4>1. PICK i \in DOMAIN pg.list :
                /\ pg.list[i].name = target /\ pg' = LookUp(i)
                /\ box' = [box EXCEPT !.name = target, !.idx = i, !.total = pg'.list[i].total,
                             !.layer = IF pg.pwr = 0 THEN "module" ELSE "picture",
                             !.ptn = IF pg.pwr = 0 THEN @ ELSE pg.ptn]
          BY <2>25, <3>1 DEF Synced
        <4>2. app = "homeFind" /\ app' = "reply" /\ UNCHANGED <<srv, syncing>>
          BY <2>25, <3>1 DEF Synced, Reply, others
        <4>3. /\ box'.name = target /\ box'.idx = i /\ box'.total = pg'.list[i].total
              /\ box'.layer # "none" /\ box'.connected = box.connected
          BY <4>1
        <4>4. LookUpKeeps BY <4>1, LookedUp
        <4>5. box.connected /\ ~syncing => TstPath
          BY <4>1, <4>2 DEF TstPath, Listed
        <4>6. box.connected /\ ~syncing => pg'.list[i].total = Count(target)
          BY <4>1, <4>5, LookUpFacts
        <4> QED BY <4>1, <4>2, <4>3, <4>4, <4>6 DEF LookUpKeeps, Steady
      <3>2. CASE target \notin Listed
        <4>1. UNCHANGED <<box, pg, srv, syncing>> /\ app = "homeFind" /\ app' = "recv"
          BY <2>25, <3>2 DEF Synced, Goto, Listed, others
        <4> QED BY <3>2, <4>1, StaysSame DEF Steady
      <3> QED BY <3>1, <3>2
    <2>26. CASE ToModules BY <2>26, StaysSame DEF Steady, ToModules, others, Goto,
       Reply,
       Found
    <2>27. CASE AskVersion BY <2>27, StaysSame DEF Steady, AskVersion, others, Reply,
       Start
    <2>28. CASE Upgrade BY <2>28, StaysSame DEF Steady, Upgrade, others, SetBusy, Goto,
       Start
    <2>29. CASE UpgradeBegin BY <2>29, StaysSame DEF Steady, UpgradeBegin, others, Goto
    <2>30. CASE UpgradeFrame BY <2>30, StaysSame DEF Steady, UpgradeFrame, others,
       appVars
    <2>31. CASE UpgradeEnd BY <2>31, StaysSame DEF Steady, UpgradeEnd, others, Goto
    <2>32. CASE AskAgain BY <2>32, StaysSame DEF Steady, AskAgain, others, Goto
    <2>33. CASE UpgradeOver
      <3>1. app = "upgOver" /\ app' = "recv" /\ UNCHANGED <<box, pg, syncing>> /\ srv' = "idle"
        BY <2>33 DEF UpgradeOver, Goto
      <3>2. srv = "wait" BY <3>1 DEF UpgradeInv, OneCall, UpgradePlaces
      <3> QED BY <3>1, <3>2, StaysSame DEF Steady
    <2> QED BY <1>1, <2>1, <2>2, <2>3, <2>4, <2>5, <2>6, <2>7, <2>8, <2>9, <2>10, <2>11,
       <2>12, <2>13, <2>14, <2>15, <2>16, <2>17, <2>18, <2>19, <2>20, <2>21, <2>22, <2>23,
       <2>24, <2>25, <2>26, <2>27, <2>28, <2>29, <2>30, <2>31, <2>32, <2>33 DEF Apartment
  <1>2. CASE HandThread
    <2>1. CASE HandCheck BY <2>1, StaysSame DEF Steady, HandCheck, notHand, appVars
    <2>2. CASE HandInTime BY <2>2, StaysSame DEF Steady, HandInTime, notHand, appVars
    <2>3. CASE HandForget BY <2>3, StaysSame DEF Steady, HandForget, notHand, appVars,
       Reset
    <2>4. CASE HandSend BY <2>4, StaysSame DEF Steady, HandSend, notHand, appVars
    <2> QED BY <1>2, <2>1, <2>2, <2>3, <2>4 DEF HandThread
  <1>3. CASE RcvThread
    <2>1. CASE Alive BY <2>1, StaysSame DEF Steady, Alive, notRcv, appVars
    <2>2. CASE VersionAnswer BY <2>2, StaysSame DEF Steady, VersionAnswer, notRcv,
       appVars
    <2>3. CASE VersionKnown BY <2>3, StaysSame DEF Steady, VersionKnown, notRcv, appVars
    <2>4. CASE KeyGate BY <2>4, StaysSame DEF Steady, KeyGate, notRcv, appVars
    <2>5. CASE PostKey BY <2>5, StaysSame DEF Steady, PostKey, notRcv, appVars
    <2>6. ASSUME NEW v \in Versions, ReadVersion(v) PROVE ConnInv' BY <2>6, StaysSame
       DEF
       Steady, ReadVersion, notRcv, appVars
    <2> QED BY <1>3, <2>1, <2>2, <2>3, <2>4, <2>5, <2>6 DEF RcvThread
  <1>4. CASE VersionTask
    <2>1. CASE TaskWait BY <2>1, StaysSame DEF Steady, TaskWait, notTask, appVars
    <2>2. CASE TaskLoop BY <2>2, StaysSame DEF Steady, TaskLoop, notTask, appVars
    <2>3. CASE TaskPost BY <2>3, StaysSame DEF Steady, TaskPost, notTask, appVars
    <2> QED BY <1>4, <2>1, <2>2, <2>3 DEF VersionTask
  <1>5. CASE ServerThread
    <2>1. CASE UpgradeSend BY <2>1, StaysSame DEF Steady, UpgradeSend, notSrv, appVars
    <2>2. CASE SyncWrite BY <2>2, StaysSame, BoxAssumption DEF Steady, SyncWrite,
       notSrv,
       appVars, Names
    <2>3. CASE SyncRead BY <2>3, StaysSame DEF Steady, SyncRead, notSrv, appVars
    <2>4. CASE SyncOpen
      <3>1. /\ pg' \in {Install(read), NotLoaded} /\ UNCHANGED <<box, appVars, syncing>>
            /\ srv = "syncOpen" /\ srv' = "syncHome"
        BY <2>4 DEF SyncOpen, notSrv
      <3>2. CASE pg' = Install(read)
        <4>1. Steady BY <3>2, Installed
        <4>2. /\ pg'.list = pg.list /\ pg'.name = pg.name /\ pg'.cfg = pg.cfg
              /\ pg'.loaded = Content(read) /\ (pg'.missed \/ read = pg.cfg)
          BY <3>2, InstallFacts
        <4> QED BY <3>1, <4>1, <4>2 DEF Steady, appVars
      <3>3. CASE pg' = NotLoaded BY <3>1, <3>3, StaysSame DEF Steady, NotLoaded, appVars
      <3> QED BY <3>1, <3>2, <3>3
    <2>5. CASE SyncWipe
      <3>1. /\ pg' = [pg EXCEPT !.disk = [m \in Modules |-> "gone"]] /\ syncing
            /\ srv = "wipe" /\ srv' = "idle" /\ UNCHANGED <<box, appVars, syncing>>
        BY <2>5 DEF SyncWipe, notSrv
      <3>2. Listed' = Listed BY <3>1 DEF Listed
      <3> QED BY <3>1, <3>2 DEF appVars
    <2>6. CASE SyncHome BY <2>6, StaysSame DEF Steady, SyncHome, notSrv, appVars, Reset
    <2>7. CASE SrvFrame BY <2>7, StaysSame DEF Steady, SrvFrame, Frame, notSrv, appVars
    <2> QED BY <1>5, <2>1, <2>2, <2>3, <2>4, <2>5, <2>6, <2>7 DEF ServerThread
  <1>6. CASE BgFrame BY <1>6, StaysSame DEF Steady, BgFrame, appVars, Frame
  <1>7. CASE Outside
    <2>1. ASSUME NEW k \in Pressed, ReadKey(k) PROVE ConnInv' BY <2>1, StaysSame DEF
       Steady, ReadKey, notRcv, appVars
    <2>2. CASE UpgradeCall BY <2>2, StaysSame DEF Steady, UpgradeCall, notSrv, appVars
    <2>3. CASE PowerElsewhere BY <2>3, StaysSame DEF Steady, PowerElsewhere, appVars
    <2>4. CASE Silence BY <2>4, StaysSame DEF Steady, Silence, appVars
    <2>5. ASSUME NEW m \in Modules, SyncBegin(m) PROVE ConnInv' BY <2>5, StaysSame DEF
       Steady, SyncBegin, notSrv, appVars
    <2>6. ASSUME NEW m \in Modules, SyncFile(m) PROVE ConnInv'
      <3>1. /\ pg' = [pg EXCEPT !.disk = [pg.disk EXCEPT ![m] = Copy(m)]] /\ syncing
            /\ UNCHANGED <<box, appVars, srv, syncing>> /\ srv = "idle"
        BY <2>6 DEF SyncFile, notSrv
      <3>2. Listed' = Listed BY <3>1 DEF Listed
      <3> QED BY <3>1, <3>2 DEF appVars
    <2> QED BY <1>7, <2>1, <2>2, <2>3, <2>4, <2>5, <2>6 DEF Outside
  <1>8. CASE UNCHANGED vars BY <1>8, StaysSame DEF Steady, vars, appVars
  <1> QED BY <1>1, <1>2, <1>3, <1>4, <1>5, <1>6, <1>7, <1>8 DEF Next

-----------------------------------------------------------------------------
(* The theorems. *)

BoxInv == LineInv /\ GateInv /\ BoxTypes /\ UpgradeInv /\ CountInv /\ ConnInv

LEMMA BoxInvariant == Spec => []BoxInv
  <1>1. Init => BoxInv
    BY InitLine, InitGate, InitBox, InitUpgrade, InitCount, InitConn DEF BoxInv
  <1>2. BoxInv /\ [Next]_vars => BoxInv'
    BY NextLine, NextGate, NextBox, NextUpgrade, NextCount, NextConn DEF BoxInv
  <1> QED BY <1>1, <1>2, PTL DEF Spec

(* Every variable keeps its type; the version read from the box is one     *)
(* that was on it, because each call of the TCP thread writes one image.   *)
THEOREM TypeCorrect == Spec => []TypeOK
  <1>1. BoxInv => TypeOK
    <2> SUFFICES ASSUME BoxInv PROVE TypeOK OBVIOUS
    <2> USE DEF BoxInv
    <2>1. Pending \in {0, 1} /\ left.upgrade \in Nat
      BY DEF Pending, CountInv, LeftTypes, Budgets
    <2>2. uart.fw \in Nat /\ uart.fw <= Upgrades
      BY <2>1, BoxAssumption DEF CountInv, Counted
    <2>3. uart.fw \in Versions /\ uart.rx \in SUBSET Versions
      BY <2>2, BoxAssumption DEF Versions, CountInv, VerTypes
    <2>4. uart \in [lock : {"free", "app"}, guard : BOOLEAN, rx : SUBSET Versions,
                    fw : Versions, sent : 0 .. Chunks, upgrading : BOOLEAN, torn : BOOLEAN]
      BY <2>3, Zenon DEF LineInv, LineType
    <2>5. BoxTypes /\ VerTypes /\ FlagType /\ ChanTypes
      BY DEF GateInv, UpgradeInv, CountInv
    <2> QED BY <2>4, <2>5 DEF TypeOK, BoxTypes, Boxes, Testers, Disks, VerTypes,
       FlagType,
               ChanTypes, Commands
  <1> QED BY <1>1, BoxInvariant, PTL

(* box_upgrade and boxCmdTransfer: a firmware image of any length reaches  *)
(* the box without a frame of the receiver's answers, of boxHandThread, of *)
(* the TCP thread or of the power threads in it.                           *)
THEOREM FirmwareIsIntact == Spec => []FirmwareIntact
  <1>1. BoxInv => FirmwareIntact BY DEF BoxInv, LineInv, FirmwareIntact
  <1> QED BY <1>1, BoxInvariant, PTL

(* gBoxKeyReturn: when the apartment is through with a message, keys are   *)
(* let in, whether the handler switched power, loaded a module, wrote      *)
(* firmware or failed.                                                     *)
THEOREM KeysAreLetIn == Spec => []GateOpensAgain
  <1>1. BoxInv => GateOpensAgain
    BY DEF BoxInv, GateInv, Busy, UpgradePlaces, GateOpensAgain
  <1> QED BY <1>1, BoxInvariant, PTL

(* box_cur_state: however boxHandThread and the end of a synchronisation   *)
(* reset the box between the accesses of a handler, a connected box whose  *)
(* module is in the list of modules is in a layer, its index is that of    *)
(* the module in the list, its number of patterns the one on the disk; and *)
(* the module whose patterns are browsed is named in module.ini and        *)
(* loaded, unless the last load missed it.                                 *)
THEOREM ConnectedBoxIsConsistent == Spec => []ConnectedIsConsistent
  <1>1. BoxInv => ConnectedIsConsistent
    BY DEF BoxInv, ConnInv, Settled, Named, Sized, Browsed, ConnectedIsConsistent
  <1> QED BY <1>1, BoxInvariant, PTL

=============================================================================
