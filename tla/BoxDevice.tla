----------------------------- MODULE BoxDevice -----------------------------
(***************************************************************************)
(* hw/box/box.c: the remote control box.  Keys arrive on a serial line     *)
(* (boxRcvThread) and are posted to the box apartment, whose handler       *)
(* (box_message_proc, boxProcCmd) moves through modules and patterns,      *)
(* switches the panel on and off and sends frames back.  boxHandThread     *)
(* takes the box for unplugged after ten silent seconds and forgets its    *)
(* state; boxSoftwareVersion_Task asks for the version of the box until it *)
(* answers; the TCP thread sends new firmware through the apartment, and   *)
(* when files were synchronised loads a module and resets the box.         *)
(*                                                                         *)
(* box_cur_state is shared by these threads without a lock: a handler is   *)
(* one action per access that another thread can come before.  gBoxReadLock*)
(* (one frame at a time) and gBoxGuardLock are modelled.  Sleeps are not,  *)
(* so every order they only make unlikely is possible.                     *)
(***************************************************************************)
EXTENDS Integers, Sequences, FiniteSets

CONSTANTS
  Modules,    \* names of the modules: files of ./cfg/tst
  Patterns,   \* how many patterns each module has
  Broken,     \* the modules in whose file no pattern can be read
  NoName,     \* the empty module name, and nothing loaded
  NoFile,     \* module.ini is not there
  Starts,     \* what may be when the run begins: module.ini (cfg), power, files of
              \* modules, and how often the outside will act (left): keys read, silences,
              \* power switched elsewhere, synchronisations, upgrades
  Upgrades,   \* how many upgrades that is
  Pressed,    \* the keys of the box that are pressed
  Chunks,     \* firmware frames after the first one
  Capacity,   \* length of the apartment's queue
  AskedAtStart \* FALSE: the box has told its version before the run begins

ASSUME BoxAssumption ==
  /\ IsFiniteSet(Modules)
  /\ Patterns \in [Modules -> Nat]
  /\ Broken \subseteq Modules
  /\ NoName \notin Modules /\ NoFile \notin Modules \cup {NoName}
  /\ Starts \subseteq
       [cfg : Modules \cup {NoName, NoFile}, pwr : {0, 1}, files : SUBSET Modules,
        left : [key : Nat, silence : Nat, power : Nat, sync : Nat, upgrade : {Upgrades}]]
  /\ Pressed \subseteq {"up", "down", "power", "ok", "home", "opt"}
  /\ Upgrades \in Nat /\ Chunks \in Nat /\ Capacity \in Nat \ {0} /\ AskedAtStart \in BOOLEAN

VARIABLES
  box,      \* box_cur_state
  pg,       \* the tester: power, pattern shown, curModuleName (name), module.ini (cfg),
            \* module_set (loaded), ./cfg/tst (disk), module_self_set (list); missed,
            \* a history: the last load found no file, or put in a module that
            \* module.ini no longer named
  flag,     \* gBoxKeyReturn, box_time_out_enable, and boxtime_alive over ten seconds old
  ver,      \* boxSoftwareVersion_request, boxSoftwareVersion, boxSoftwareVersion_sem
  uart,     \* gBoxReadLock, gBoxGuardLock and the serial line
  chan,     \* the queue of the apartment
  app, msg, target, resume,  \* the apartment: place, message, local variable, place after a frame
  hand,     \* place of boxHandThread
  rcv, got, \* boxRcvThread: place and what it read
  task,     \* place of boxSoftwareVersion_Task
  srv, read, \* the TCP thread: place, name it read from module.ini
  bg,       \* place of any other thread that switches power or sends frames
  syncing,  \* files are being synchronised
  left      \* how often the outside will still act

vars == <<box, pg, flag, ver, uart, chan, app, msg, target, resume,
          hand, rcv, got, task, srv, read, bg, syncing, left>>
appVars == <<app, msg, target, resume>>
others == <<hand, rcv, got, task, srv, read, bg, syncing, left>>

Keys == {"up", "down", "power", "ok", "home", "opt"}
Names == Modules \cup {NoName}

Reset == [connected |-> FALSE, layer |-> "none", name |-> NoName, idx |-> 0,
          total |-> 0, ptn |-> 0, pwr |-> 0]

\* ./cfg/tst is there as long as a file is in it.  A file without a pattern
\* table is empty: a broken one, or one that sqlite3_open has just created.
Present == {m \in Modules : pg.disk[m] # "gone"}
TstPath == Present # {}
Copy(m) == IF m \in Broken THEN "empty" ELSE "full"
Content(m) == IF m \in Modules /\ pg.disk[m] = "full" THEN m ELSE NoName
Count(m) == IF Content(m) = NoName THEN 0 ELSE Patterns[m]

\* dbModuleOpen creates the file of a module that is gone.
Opened(m) == [pg.disk EXCEPT ![m] = IF TstPath /\ @ = "gone" THEN "empty" ELSE @]

\* dbModuleGetPatternById, in the module that is loaded
Found(p) == pg.loaded \in Modules /\ p \in 0 .. Patterns[pg.loaded] - 1

\* dbInitModuleSelf: the files in the order readdir gives them.
Listings ==
  {f \in [0 .. Cardinality(Present) - 1 -> Present] :
     \A m \in Present : \E i \in DOMAIN f : f[i] = m}
Listed == {pg.list[i].name : i \in DOMAIN pg.list}

\* dbModuleSelfGetByIndex and ByName: when the file cannot be opened the entry
\* keeps the number of patterns it had.
LookUp(i) ==
  LET m == pg.list[i].name
  IN  [pg EXCEPT !.list[i].total = IF TstPath THEN Count(m) ELSE @, !.disk = Opened(m)]

\* load_cur_module: dbModuleInit empties module_set and fills it from the file.
Install(m) ==
  [pg EXCEPT !.loaded = Content(m), !.missed = m # pg.cfg,
             !.disk = IF m \in Modules THEN Opened(m) ELSE @]
NotLoaded == [pg EXCEPT !.missed = TRUE]
FileExists(m) == m \in Present \/ (m = NoName /\ TstPath)

Versions == 0 .. Upgrades

Lists ==
  UNION {[0 .. n - 1 -> [name : Modules, total : Nat]] : n \in 0 .. Cardinality(Modules)}

TypeOK ==
  /\ box \in [connected : BOOLEAN, layer : {"none", "module", "picture"}, name : Names,
              idx : Int, total : Nat, ptn : Int, pwr : {0, 1}]
  /\ pg \in [pwr : {0, 1}, ptn : Int, name : Names, cfg : Names \cup {NoFile},
              loaded : Names, disk : [Modules -> {"gone", "empty", "full"}],
              list : Lists, missed : BOOLEAN]
  /\ flag \in [keyReturn : BOOLEAN, timeoutOn : BOOLEAN, expired : BOOLEAN]
  /\ ver \in [asked : BOOLEAN, known : Versions \cup {-1},
               read : Versions \cup {-1}, sem : Nat]
  /\ uart \in [lock : {"free", "app"}, guard : BOOLEAN,
               rx : SUBSET Versions, fw : Versions, sent : 0 .. Chunks,
               upgrading : BOOLEAN, torn : BOOLEAN]
  /\ chan \in Seq(Keys \cup {"version", "upgrade"}) /\ Len(chan) <= Capacity

Init ==
  /\ box = Reset
  /\ \E s \in Starts :
       /\ pg = [pwr |-> s.pwr, ptn |-> 0, name |-> NoName, cfg |-> s.cfg,
                loaded |-> IF s.cfg \in s.files \ Broken THEN s.cfg ELSE NoName,
                disk |-> [m \in Modules |-> IF m \in s.files THEN Copy(m) ELSE "gone"],
                list |-> <<>>, missed |-> s.cfg \notin s.files]
       /\ left = s.left
  /\ flag = [keyReturn |-> FALSE, timeoutOn |-> TRUE, expired |-> FALSE]
  /\ ver = IF AskedAtStart THEN [asked |-> TRUE, known |-> -1, read |-> -1, sem |-> 1]
                           ELSE [asked |-> FALSE, known |-> 0, read |-> -1, sem |-> 0]
  /\ uart = [lock |-> "free", guard |-> FALSE, rx |-> {}, fw |-> 0, sent |-> 0,
             upgrading |-> FALSE, torn |-> FALSE]
  /\ chan = <<>>
  /\ app = "recv" /\ msg = "none" /\ target = 0 /\ resume = "recv"
  /\ hand = "check" /\ rcv = "read" /\ got = "none" /\ task = "wait"
  /\ srv = "idle" /\ read = NoName /\ bg = "idle" /\ syncing = FALSE

-----------------------------------------------------------------------------
(* Frames to the box                                                       *)

\* Mutant: gBoxReadLock is not released.
FrameKeepsLock(answer) ==
  /\ uart.lock = "free"
  /\ uart' = [uart EXCEPT !.torn = @ \/ uart.upgrading, !.rx = @ \cup answer, !.lock = "app"]

\* boxCmdTransfer, the part under gBoxReadLock; answer is what the box sends back.
Frame(answer) ==
  /\ uart.lock = "free"
  /\ uart' = [uart EXCEPT !.torn = @ \/ uart.upgrading, !.rx = @ \cup answer]

SetBusy(b) == flag' = [flag EXCEPT !.keyReturn = b]

-----------------------------------------------------------------------------
(* The apartment                                                           *)

Take ==
  /\ app = "recv" /\ chan # <<>>
  /\ msg' = Head(chan) /\ chan' = Tail(chan)
  /\ app' = "start"
  /\ UNCHANGED <<box, pg, flag, ver, uart, target, resume, others>>

Start(k) == app = "start" /\ msg = k
Goto(l) ==
  /\ app' = l
  /\ IF l = "recv" THEN msg' = "none" /\ target' = 0 /\ resume' = "recv"
                   ELSE UNCHANGED <<msg, target, resume>>
Reply == app' = "reply" /\ resume' = "recv" /\ UNCHANGED <<msg, target>>

SendReply ==
  /\ app = "reply"
  /\ Frame(IF msg = "version" THEN {uart.fw} ELSE {})
  /\ Goto(resume)
  /\ UNCHANGED <<box, pg, flag, ver, chan, others>>

\* A key that does nothing here, and the keys without a handler.
Ignore ==
  /\ \/ msg = "opt"
     \/ msg \in {"up", "down", "ok", "power"} /\ ~box.connected
     \/ msg \in {"up", "down"} /\ box.layer = "none"
     \/ msg = "ok" /\ box.layer # "module"
     \/ msg = "power" /\ box.layer = "module"
     \/ msg = "version" /\ ~ver.asked
  /\ app = "start"
  /\ Goto("recv")
  /\ UNCHANGED <<box, pg, flag, ver, uart, chan, others>>

\* UP_KEY and DOWN_KEY among modules: look the neighbour up ...
Step == IF msg = "up" THEN -1 ELSE 1

SelectModule ==
  /\ app = "start" /\ msg \in {"up", "down"} /\ box.connected /\ box.layer = "module"
  /\ \/ /\ box.idx + Step \in DOMAIN pg.list
        /\ pg' = LookUp(box.idx + Step)
        /\ app' = "setModule" /\ target' = box.idx + Step /\ UNCHANGED <<msg, resume>>
     \/ /\ box.idx + Step \notin DOMAIN pg.list
        /\ Goto("recv")
        /\ UNCHANGED pg
  /\ UNCHANGED <<box, flag, ver, uart, chan, others>>

\* ... and make it the current one.
SetModule ==
  /\ app = "setModule"
  /\ LET e == pg.list[target]
     IN  box' = [box EXCEPT !.name = e.name, !.idx = target, !.total = e.total]
  /\ Reply
  /\ UNCHANGED <<pg, flag, ver, uart, chan, others>>

\* UP_KEY and DOWN_KEY among patterns; DOWN_KEY stays where it is at the end
\* and when the panel is off.
NextPattern ==
  IF msg = "up" THEN box.ptn - 1
  ELSE IF box.pwr = 1 /\ box.ptn < box.total - 1 THEN box.ptn + 1
  ELSE box.ptn

SelectPattern ==
  /\ app = "start" /\ msg \in {"up", "down"} /\ box.connected /\ box.layer = "picture"
  /\ \/ /\ Found(NextPattern)
        /\ app' = "setPattern" /\ target' = NextPattern /\ UNCHANGED <<msg, resume>>
     \/ /\ ~Found(NextPattern)
        /\ Goto("recv")
  /\ UNCHANGED <<box, pg, flag, ver, uart, chan, others>>

SetPattern ==
  /\ app = "setPattern"
  /\ box' = [box EXCEPT !.ptn = target]
  /\ flag' = [flag EXCEPT !.timeoutOn = @ /\ msg = "up"]
  /\ Goto("show")
  /\ UNCHANGED <<pg, ver, uart, chan, others>>

\* client_pg_showPtn
ShowPattern ==
  /\ app = "show"
  /\ pg' = [pg EXCEPT !.ptn = target]
  /\ flag' = [flag EXCEPT !.timeoutOn = @ \/ msg = "down"]
  /\ Reply
  /\ UNCHANGED <<box, ver, uart, chan, others>>

\* POWER_KEY: further keys are dropped while the panel is switched.
PowerKey ==
  /\ Start("power") /\ box.connected /\ box.layer # "module"
  /\ SetBusy(TRUE)
  /\ Goto("power")
  /\ UNCHANGED <<box, pg, ver, uart, chan, others>>

PowerOff ==
  /\ app = "power" /\ box.pwr = 1
  /\ pg' = [pg EXCEPT !.pwr = 0]
  /\ Goto("powered")
  /\ UNCHANGED <<box, flag, ver, uart, chan, others>>

PowerOnBegin ==
  /\ app = "power" /\ box.pwr = 0
  /\ flag' = [flag EXCEPT !.timeoutOn = FALSE]
  /\ Goto("powerOn")
  /\ UNCHANGED <<box, pg, ver, uart, chan, others>>

\* client_pg_shutON(1): the panel is on with pattern 0, or a check failed.
PowerOn ==
  /\ app = "powerOn"
  /\ pg' \in {pg, [pg EXCEPT !.pwr = 1, !.ptn = 0]}
  /\ flag' = [flag EXCEPT !.timeoutOn = TRUE]
  /\ Goto("powered")
  /\ UNCHANGED <<box, ver, uart, chan, others>>

\* Mutant: keys are let in again only when the panel was switched off.
PoweredStaysBusy ==
  /\ app = "powered"
  /\ box' = [box EXCEPT !.pwr = pg.pwr, !.ptn = 0]
  /\ IF pg.pwr = 0 THEN SetBusy(FALSE) ELSE UNCHANGED flag
  /\ Reply
  /\ UNCHANGED <<pg, ver, uart, chan, others>>

Powered ==
  /\ app = "powered"
  /\ box' = [box EXCEPT !.pwr = pg.pwr, !.ptn = 0]
  /\ SetBusy(FALSE)
  /\ Reply
  /\ UNCHANGED <<pg, ver, uart, chan, others>>

\* OK_KEY: write the selected module to module.ini, load it, show its patterns.
OkKey ==
  /\ Start("ok") /\ box.connected /\ box.layer = "module"
  /\ SetBusy(TRUE)
  /\ Goto("setName")
  /\ UNCHANGED <<box, pg, ver, uart, chan, others>>

SetName ==
  /\ app = "setName"
  /\ pg' = [pg EXCEPT !.name = box.name]
  /\ Goto("writeName")
  /\ UNCHANGED <<box, flag, ver, uart, chan, others>>

WriteName ==
  /\ app = "writeName"
  /\ pg' = [pg EXCEPT !.cfg = pg.name]
  /\ Goto("loadRead")
  /\ UNCHANGED <<box, flag, ver, uart, chan, others>>

\* load_cur_module: the name is in module.ini, it has just been written ...
LoadRead ==
  /\ app = "loadRead"
  /\ target' = pg.cfg
  /\ app' = "loadTest" /\ UNCHANGED <<msg, resume>>
  /\ UNCHANGED <<box, pg, flag, ver, uart, chan, others>>

\* ... without a file of that name the module loaded before stays ...
LoadTest ==
  /\ app = "loadTest"
  /\ \/ /\ FileExists(target)
        /\ Goto("loadOpen")
        /\ UNCHANGED <<pg, flag>>
     \/ /\ ~FileExists(target)
        /\ pg' = NotLoaded
        /\ SetBusy(FALSE)
        /\ Goto("enter")
  /\ UNCHANGED <<box, ver, uart, chan, others>>

\* ... and the file, which may be gone by now, is opened.
LoadOpen ==
  /\ app = "loadOpen"
  /\ pg' = Install(target)
  /\ SetBusy(FALSE)
  /\ Goto("enter")
  /\ UNCHANGED <<box, ver, uart, chan, others>>

Enter ==
  /\ app = "enter"
  /\ box' = [box EXCEPT !.layer = "picture", !.ptn = 0]
  /\ Reply
  /\ UNCHANGED <<pg, flag, ver, uart, chan, others>>

\* HOME_KEY: an empty message first, then connect or go back to the modules.
HomeKey ==
  /\ Start("home")
  /\ app' = "reply" /\ resume' = "home" /\ UNCHANGED <<msg, target>>
  /\ UNCHANGED <<box, pg, flag, ver, uart, chan, others>>

Connect ==
  /\ app = "home" /\ ~box.connected
  /\ box' = [box EXCEPT !.connected = TRUE]
  /\ Goto("homeName")
  /\ UNCHANGED <<pg, flag, ver, uart, chan, others>>

\* Without module.ini the box is connected to nothing ...
HomeName ==
  /\ app = "homeName"
  /\ \/ /\ pg.cfg = NoFile
        /\ Goto("recv")
     \/ /\ pg.cfg # NoFile
        /\ app' = "homeList" /\ target' = pg.cfg /\ UNCHANGED <<msg, resume>>
  /\ UNCHANGED <<box, pg, flag, ver, uart, chan, others>>

HomeList ==
  /\ app = "homeList"
  /\ \E f \in Listings :
       pg' = [pg EXCEPT !.list = [i \in DOMAIN f |-> [name |-> f[i], total |-> 0]]]
  /\ box' = [box EXCEPT !.name = target]
  /\ Goto("homeFind")
  /\ UNCHANGED <<flag, ver, uart, chan, others>>

\* ... and with a module that is not in the list it has a name only.
Synced ==
  /\ app = "homeFind"
  /\ \/ \E i \in DOMAIN pg.list :
          /\ pg.list[i].name = target
          /\ pg' = LookUp(i)
          /\ box' = [box EXCEPT !.name = target, !.idx = i, !.total = pg'.list[i].total,
                       !.layer = IF pg.pwr = 0 THEN "module" ELSE "picture",
                       !.ptn = IF pg.pwr = 0 THEN @ ELSE pg.ptn]
          /\ Reply
     \/ /\ target \notin Listed
        /\ Goto("recv")
        /\ UNCHANGED <<box, pg>>
  /\ UNCHANGED <<flag, ver, uart, chan, others>>

ToModules ==
  /\ app = "home" /\ box.connected
  /\ \/ /\ box.layer = "picture"
        /\ box' = [box EXCEPT !.layer = "module"]
        /\ IF Found(box.ptn) THEN Reply ELSE Goto("recv")
     \/ /\ box.layer # "picture"
        /\ Goto("recv")
        /\ UNCHANGED box
  /\ UNCHANGED <<pg, flag, ver, uart, chan, others>>

\* BOX_CMD_GET_VER
AskVersion ==
  /\ Start("version") /\ ver.asked
  /\ Reply
  /\ UNCHANGED <<box, pg, flag, ver, uart, chan, others>>

\* box_message_proc on 0x12345678, then box_upgrade under gBoxReadLock.
Upgrade ==
  /\ Start("upgrade")
  /\ SetBusy(TRUE)
  /\ Goto("upgLock")
  /\ UNCHANGED <<box, pg, ver, uart, chan, others>>

\* Mutant: gBoxReadLock is not taken.
UpgradeUnlocked ==
  /\ app = "upgLock"
  /\ uart' = [uart EXCEPT !.upgrading = TRUE, !.sent = 0]
  /\ Goto("upgrade")
  /\ UNCHANGED <<box, pg, flag, ver, chan, others>>

UpgradeBegin ==
  /\ app = "upgLock" /\ uart.lock = "free"
  /\ uart' = [uart EXCEPT !.lock = "app", !.upgrading = TRUE, !.sent = 0]
  /\ Goto("upgrade")
  /\ UNCHANGED <<box, pg, flag, ver, chan, others>>

UpgradeFrame ==
  /\ app = "upgrade" /\ uart.sent < Chunks
  /\ uart' = [uart EXCEPT !.sent = @ + 1]
  /\ UNCHANGED <<box, pg, flag, ver, chan, appVars, others>>

\* Mutant: gBoxReadLock is not released.
UpgradeKeepsLock ==
  /\ app = "upgrade" /\ uart.sent = Chunks
  /\ uart' = [uart EXCEPT !.upgrading = FALSE, !.fw = @ + 1, !.sent = 0]
  /\ Goto("upgraded")
  /\ UNCHANGED <<box, pg, flag, ver, chan, others>>

UpgradeEnd ==
  /\ app = "upgrade" /\ uart.sent = Chunks
  /\ uart' = [uart EXCEPT !.lock = "free", !.upgrading = FALSE, !.fw = @ + 1, !.sent = 0]
  /\ Goto("upgraded")
  /\ UNCHANGED <<box, pg, flag, ver, chan, others>>

AskAgain ==
  /\ app = "upgraded"
  /\ ver' = [ver EXCEPT !.known = -1, !.asked = TRUE, !.sem = @ + 1]
  /\ Goto("upgOver")
  /\ UNCHANGED <<box, pg, flag, uart, chan, others>>

\* The flags are cleared and the call of the TCP thread is answered.
UpgradeOver ==
  /\ app = "upgOver"
  /\ SetBusy(FALSE)
  /\ srv' = "idle"
  /\ Goto("recv")
  /\ UNCHANGED <<box, pg, ver, uart, chan, hand, rcv, got, task, read, bg, syncing, left>>

Apartment ==
  \/ Take \/ SendReply \/ Ignore \/ SelectModule \/ SetModule \/ SelectPattern
  \/ SetPattern \/ ShowPattern \/ PowerKey \/ PowerOff \/ PowerOnBegin \/ PowerOn
  \/ Powered \/ OkKey \/ SetName \/ WriteName \/ LoadRead \/ LoadTest \/ LoadOpen
  \/ Enter \/ HomeKey \/ Connect \/ HomeName \/ HomeList \/ Synced \/ ToModules
  \/ AskVersion \/ Upgrade \/ UpgradeBegin \/ UpgradeFrame \/ UpgradeEnd \/ AskAgain \/ UpgradeOver

-----------------------------------------------------------------------------
(* boxHandThread                                                           *)

notHand == <<pg, ver, chan, appVars, rcv, got, task, srv, read, bg, syncing, left>>

HandCheck ==
  /\ hand = "check" /\ ~flag.keyReturn /\ flag.timeoutOn
  /\ hand' = "test"
  /\ UNCHANGED <<box, flag, uart, notHand>>

HandInTime ==
  /\ hand = "test" /\ ~uart.guard /\ ~flag.expired
  /\ hand' = "check"
  /\ UNCHANGED <<box, flag, uart, notHand>>

\* Ten seconds without a byte: box_go_do_home_proc forgets the box ...
HandForget ==
  /\ hand = "test" /\ ~uart.guard /\ flag.expired
  /\ uart' = [uart EXCEPT !.guard = TRUE]
  /\ flag' = [flag EXCEPT !.expired = FALSE]
  /\ box' = Reset
  /\ hand' = "send"
  /\ UNCHANGED notHand

\* ... and sends HAND_KEY and an empty power report.
HandSend ==
  /\ hand = "send" /\ uart.lock = "free"
  /\ uart' = [uart EXCEPT !.guard = FALSE, !.torn = @ \/ uart.upgrading]
  /\ hand' = "check"
  /\ UNCHANGED <<box, flag, notHand>>

HandThread == HandCheck \/ HandInTime \/ HandForget \/ HandSend

-----------------------------------------------------------------------------
(* boxRcvThread and boxSendCmd                                             *)

notRcv == <<box, pg, appVars, hand, task, srv, read, bg, syncing>>

ReadKey(k) ==
  /\ rcv = "read" /\ left.key > 0
  /\ got' = k /\ rcv' = "aliveKey"
  /\ left' = [left EXCEPT !.key = @ - 1]
  /\ UNCHANGED <<flag, ver, uart, chan, notRcv>>

ReadVersion(v) ==
  /\ rcv = "read" /\ v \in uart.rx
  /\ ver' = [ver EXCEPT !.read = v] /\ rcv' = "aliveVersion"
  /\ uart' = [uart EXCEPT !.rx = @ \ {v}]
  /\ UNCHANGED <<flag, got, chan, left, notRcv>>

\* boxtime_alive, under gBoxGuardLock
Alive ==
  /\ rcv \in {"aliveKey", "aliveVersion"} /\ ~uart.guard
  /\ flag' = [flag EXCEPT !.expired = FALSE]
  /\ rcv' = IF rcv = "aliveKey" THEN "key" ELSE "version"
  /\ UNCHANGED <<ver, uart, chan, got, left, notRcv>>

\* Mutant: the answer does not end the asking.
VersionNotNoted ==
  /\ rcv = "version"
  /\ rcv' = "known"
  /\ UNCHANGED <<flag, ver, uart, chan, got, left, notRcv>>

VersionAnswer ==
  /\ rcv = "version"
  /\ ver' = [ver EXCEPT !.asked = FALSE]
  /\ rcv' = "known"
  /\ UNCHANGED <<flag, uart, chan, got, left, notRcv>>

VersionKnown ==
  /\ rcv = "known"
  /\ ver' = [ver EXCEPT !.known = ver.read, !.read = -1]
  /\ rcv' = "read" /\ got' = "none"
  /\ UNCHANGED <<flag, uart, chan, left, notRcv>>

\* A key is dropped while gBoxKeyReturn is set.
KeyGate ==
  /\ rcv = "key"
  /\ IF flag.keyReturn THEN rcv' = "read" /\ got' = "none"
                       ELSE rcv' = "post" /\ UNCHANGED got
  /\ UNCHANGED <<flag, ver, uart, chan, left, notRcv>>

PostKey ==
  /\ rcv = "post" /\ Len(chan) < Capacity
  /\ chan' = Append(chan, got)
  /\ rcv' = "read" /\ got' = "none"
  /\ UNCHANGED <<flag, ver, uart, left, notRcv>>

RcvThread == Alive \/ VersionAnswer \/ VersionKnown \/ KeyGate \/ PostKey
             \/ \E v \in Versions : ReadVersion(v)

-----------------------------------------------------------------------------
(* boxSoftwareVersion_Task                                                 *)

notTask == <<box, pg, flag, uart, appVars, hand, rcv, got, srv, read, bg, syncing, left>>

TaskWait ==
  /\ task = "wait" /\ ver.sem > 0
  /\ ver' = [ver EXCEPT !.sem = @ - 1]
  /\ task' = "loop"
  /\ UNCHANGED <<chan, notTask>>

TaskLoop ==
  /\ task = "loop"
  /\ \/ ~ver.asked /\ task' = "wait"
     \/ ver.asked /\ ~flag.keyReturn /\ task' = "post"
  /\ UNCHANGED <<ver, chan, notTask>>

TaskPost ==
  /\ task = "post" /\ Len(chan) < Capacity
  /\ chan' = Append(chan, "version")
  /\ task' = "loop"
  /\ UNCHANGED <<ver, notTask>>

VersionTask == TaskWait \/ TaskLoop \/ TaskPost

-----------------------------------------------------------------------------
(* The TCP thread: clirecvcmd5srv.c                                        *)

notSrv == <<flag, ver, appVars, hand, rcv, got, task, bg>>

\* SERVER2CLI_MSG_BOXUPDATA, the last part: MsOS_SendMessage
UpgradeCall ==
  /\ srv = "idle" /\ left.upgrade > 0
  /\ srv' = "call"
  /\ left' = [left EXCEPT !.upgrade = @ - 1]
  /\ UNCHANGED <<box, pg, uart, chan, read, syncing, notSrv>>

UpgradeSend ==
  /\ srv = "call" /\ Len(chan) < Capacity
  /\ chan' = Append(chan, "upgrade")
  /\ srv' = "wait"
  /\ UNCHANGED <<box, pg, uart, read, syncing, left, notSrv>>

\* SYNCFILE switches the panel off and names the module, COMPLETESYNC names it
\* and removes every file; the files follow in later messages, or never.
SyncBegin(m) ==
  /\ srv = "idle" /\ left.sync > 0
  /\ \/ pg' = [pg EXCEPT !.name = m, !.pwr = 0] /\ UNCHANGED srv
     \/ pg' = [pg EXCEPT !.name = m] /\ srv' = "wipe"
  /\ syncing' = TRUE
  /\ left' = [left EXCEPT !.sync = @ - 1]
  /\ UNCHANGED <<box, uart, chan, read, notSrv>>

SyncWipe ==
  /\ srv = "wipe"
  /\ pg' = [pg EXCEPT !.disk = [m \in Modules |-> "gone"]]
  /\ srv' = "idle"
  /\ UNCHANGED <<box, uart, chan, read, syncing, left, notSrv>>

SyncFile(m) ==
  /\ srv = "idle" /\ syncing /\ pg.disk[m] # Copy(m)
  /\ pg' = [pg EXCEPT !.disk[m] = Copy(m)]
  /\ UNCHANGED <<box, uart, chan, srv, read, syncing, left, notSrv>>

\* The last file is there: client_syncFinish ...
SyncWrite ==
  /\ srv = "idle" /\ syncing
  /\ pg' = [pg EXCEPT !.cfg = pg.name]
  /\ srv' = "syncRead"
  /\ UNCHANGED <<box, uart, chan, read, syncing, left, notSrv>>

SyncRead ==
  /\ srv = "syncRead"
  /\ read' = pg.cfg
  /\ srv' = "syncOpen"
  /\ UNCHANGED <<box, pg, uart, chan, syncing, left, notSrv>>

\* Only this thread removes files: the file it finds is there when it is opened.
SyncOpen ==
  /\ srv = "syncOpen"
  /\ pg' = IF FileExists(read) THEN Install(read) ELSE NotLoaded
  /\ read' = NoName
  /\ srv' = "syncHome"
  /\ UNCHANGED <<box, uart, chan, syncing, left, notSrv>>

\* Mutant: the box keeps its state.
SyncHomeForgotten ==
  /\ srv = "syncHome"
  /\ syncing' = FALSE
  /\ srv' = "frame"
  /\ UNCHANGED <<box, pg, uart, chan, read, left, notSrv>>

\* ... then pg_do_box_home_proc.
SyncHome ==
  /\ srv = "syncHome"
  /\ box' = Reset
  /\ syncing' = FALSE
  /\ srv' = "frame"
  /\ UNCHANGED <<pg, uart, chan, read, left, notSrv>>

SrvFrame ==
  /\ srv = "frame"
  /\ Frame({})
  /\ srv' = "idle"
  /\ UNCHANGED <<box, pg, chan, read, syncing, left, notSrv>>

ServerThread ==
  UpgradeSend \/ SyncWipe \/ SyncWrite \/ SyncRead \/ SyncOpen \/ SyncHome \/ SrvFrame

(* The threads of clipg.c and pubPwrTask.c that switch power, show patterns *)
(* and report to the box.                                                  *)
PowerElsewhere ==
  /\ bg = "idle" /\ left.power > 0
  /\ \E p, n \in {0, 1} : pg' = [pg EXCEPT !.pwr = p, !.ptn = n]
  /\ bg' = "frame"
  /\ left' = [left EXCEPT !.power = @ - 1]
  /\ UNCHANGED <<box, flag, ver, uart, chan, appVars, hand, rcv, got, task, srv, read, syncing>>

BgFrame ==
  /\ bg = "frame"
  /\ Frame({})
  /\ bg' = "idle"
  /\ UNCHANGED <<box, pg, flag, ver, chan, appVars, hand, rcv, got, task, srv, read, syncing, left>>

\* Ten seconds pass without a byte from the box.
Silence ==
  /\ left.silence > 0 /\ ~flag.expired
  /\ flag' = [flag EXCEPT !.expired = TRUE]
  /\ left' = [left EXCEPT !.silence = @ - 1]
  /\ UNCHANGED <<box, pg, ver, uart, chan, appVars, hand, rcv, got, task, srv, read, bg, syncing>>

Outside ==
  \/ \E k \in Pressed : ReadKey(k)
  \/ UpgradeCall \/ PowerElsewhere \/ Silence
  \/ \E m \in Modules : SyncBegin(m) \/ SyncFile(m)

Next == Apartment \/ HandThread \/ RcvThread \/ VersionTask \/ ServerThread \/ BgFrame \/ Outside

Spec == Init /\ [][Next]_vars

(* Every thread runs; the box answers each question for its version (the   *)
(* answer is on the line with the question) and its bytes are read.  The   *)
(* receiver waiting for room in the queue gets it when room comes up time  *)
(* and again: the version task sleeps two seconds between its messages.    *)
FairSpec ==
  /\ Spec
  /\ WF_vars(Apartment) /\ WF_vars(HandThread) /\ WF_vars(RcvThread)
  /\ WF_vars(VersionTask) /\ WF_vars(ServerThread) /\ WF_vars(BgFrame)
  /\ SF_vars(PostKey)

-----------------------------------------------------------------------------
(* No frame of another thread gets between the frames of a firmware image, *)
(* which last a second each.                                               *)
FirmwareIntact == ~uart.torn

(* gBoxKeyReturn is set only while the apartment is at work on the message *)
(* that set it, whatever path the handler took.                            *)
GateOpensAgain == app \in {"recv", "start"} => ~flag.keyReturn

(* A box that counts as connected has not been reset since HOME_KEY        *)
(* connected it.  If the module it was connected to is in the list of      *)
(* modules, what the handlers have stored belongs together: the box is in  *)
(* a layer, its index is that of the named module, its number of patterns  *)
(* the one on the disk, and the module whose patterns are browsed is the   *)
(* one in module.ini and, unless the last load missed it, loaded.          *)
ConnectedIsConsistent ==
  box.connected /\ app \notin {"homeName", "homeList", "homeFind"} /\ box.name \in Listed =>
    /\ box.layer # "none"
    /\ box.idx \in DOMAIN pg.list /\ pg.list[box.idx].name = box.name
    /\ ~syncing =>
         /\ box.total = Count(box.name)
         /\ box.layer = "picture" =>
              pg.cfg = box.name /\ (pg.missed \/ pg.loaded = Content(box.name))

(* The version of the box becomes known again after every upgrade.         *)
VersionAnswered == ver.asked ~> ~ver.asked

(* The TCP thread gets its upgrade done and goes on.                       *)
UpgradeReturns == srv \in {"call", "wait"} ~> srv = "idle"

(* A key that was let through is handled: the apartment, the receiver and   *)
(* the version task never all wait on each other.                          *)
QueueDrains == Len(chan) = Capacity ~> Len(chan) < Capacity

=============================================================================
