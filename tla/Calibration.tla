---------------------------- MODULE Calibration ----------------------------
(* Setting a panel's VCOM and gamma: AUTOFLICK with its two kinds of threads  *)
(* (flick_auto, autoFlickTask, channelFlickTask of mipiflick.c), GAMMA_WRITE, *)
(* GAMMA_OTP, MANUALFLICK, MSG_OTP and CA310_START/STOP of msgProc            *)
(* (clirecvcmd5srv.c), the private data the driver IC manager keeps of a      *)
(* hi8394 (chip_hi_8394.c), the burn of a jd9367 (chip_jd9367.c), and a power *)
(* switch from another thread. The chip and the probe are external: registers *)
(* loaded from OTP memory, and a curve from a VCOM to its flicker. Channel 1. *)
EXTENDS FlickSearch, FiniteSets

CONSTANTS
  MaxSearches, \* bound on AUTOFLICKs; worker w is the thread that task w makes
  Gammas,      \* gamma tables the PC writes
  Uneven,      \* those of them whose green and blue parts differ
  Zero,        \* an all-zero table: wiped private data, a chip that is dark
  Mixed,       \* a table with the green part in the place of the blue
  BurnVcoms,   \* VCOMs the PC asks to show or to burn
  Scenarios    \* settings of the system and bounds on its inputs

\* An answer of the probe and a flicker are hundredths of a percent.
ASSUME CalibrationAssumption ==
  /\ MaxSearches \in Nat /\ BurnVcoms \subseteq Int
  /\ \A c \in Scenarios :
        /\ c.init \in Int /\ c.answers \subseteq Int
        /\ Min .. Max \subseteq DOMAIN c.curve
        /\ \A v \in DOMAIN c.curve : c.curve[v] \in Int
        /\ c.left \in [searches : 0 .. MaxSearches, commands : Nat, powers : Nat]

VARIABLES
  cfg,      \* the scenario
  panel,    \* the chip: lit, its registers and its OTP memory
  ic,       \* s_hx_8394_private_info: id_ok and the gamma table
  probe,    \* the mode the probe is in
  task, worker, \* where the threads are
  search,   \* the search of each worker
  ready,    \* auto_flick_thread_init
  sem,      \* auto_flick_thread_start_sem[0], auto_flick_thread_sem[0]
  found,    \* s_find_vcom and s_find_flick
  handle,   \* flickthread; 0: none
  srv, job, \* where the server thread is, the locals of its handler
  left,     \* searches, other commands and power switches still to come
  clean,    \* ghost: nothing but the one search has touched panel or probe
  flickOver, otpEnd \* ghosts: the last FLICKOVER and end of a burn sent

Threads == 1 .. MaxSearches

flickVars == <<task, worker, search, ready, sem, found, flickOver>>
srvVars == <<srv, job, handle, otpEnd>>
vars == <<cfg, panel, ic, probe, flickVars, srvVars, left, clean>>

Wiped == [ok |-> FALSE, gamma |-> Zero]
NoJob == [vcom |-> 0, times |-> 0, gamma |-> Zero,
          withVcom |-> FALSE, second |-> FALSE, alone |-> FALSE, fault |-> 0]

Init ==
  /\ cfg \in Scenarios
  /\ panel = [lit |-> TRUE, vcom |-> 0, gamma |-> Zero,
              otpVcom |-> 0, otpGamma |-> Zero, times |-> 0]
  /\ ic = Wiped /\ probe = "idle"
  /\ task = [t \in Threads |-> "none"] /\ worker = [w \in Threads |-> "none"]
  /\ search = [w \in Threads |-> Idle]
  /\ ready = FALSE /\ sem = [start |-> 0, end |-> 0]
  /\ found = [vcom |-> 0, flick |-> 0]
  /\ srv = "idle" /\ job = NoJob /\ handle = 0
  /\ left = cfg.left /\ clean = FALSE
  /\ flickOver = [vcom |-> 0, flick |-> 0, reg |-> 0, clean |-> FALSE]
  /\ otpEnd = [ok |-> FALSE, excused |-> FALSE, held |-> FALSE]

-----------------------------------------------------------------------------
\* The chip and the probe.

\* After a reset the registers hold what the OTP memory holds.
Loaded(p) == [p EXCEPT !.vcom = p.otpVcom, !.gamma = p.otpGamma]
Shown(p, v) == IF p.lit THEN [p EXCEPT !.vcom = v] ELSE p
VcomRead == IF panel.lit THEN panel.vcom ELSE 0
GammaRead == IF panel.lit THEN panel.gamma ELSE Zero
\* The OTP memory takes the registers, once too often or on a dark panel not.
Burnt(p, withVcom, withGamma, most) ==
  LET q == IF withGamma THEN [p EXCEPT !.otpGamma = p.gamma] ELSE p IN
  IF withVcom /\ p.times < most
  THEN [q EXCEPT !.otpVcom = p.vcom, !.times = @ + 1] ELSE q

Flicker(v) == IF v \in DOMAIN cfg.curve THEN cfg.curve[v] ELSE Invalid
\* In the other mode the probe answers something else, off it says nothing.
Answers == CASE probe = "xylv" /\ panel.lit -> cfg.answers
             [] probe = "flick" /\ panel.lit -> {Flicker(panel.vcom)}
             [] OTHER -> {Invalid}

\* hi8394: two bits per burn, which a chip that does not answer has all set.
HiTimes == IF panel.lit THEN panel.times ELSE 3
\* jd9367: the value of the slot the times point at.
JdTimes == IF panel.lit THEN panel.times ELSE 0
JdVcom == IF panel.lit /\ panel.times \in 1 .. 5 THEN panel.otpVcom ELSE 0

-----------------------------------------------------------------------------
\* autoFlickTask

Alive(t) == task[t] \notin {"none", "gone"}
Raced == Cardinality({w \in Threads : worker[w] # "none"}) > 1
Step(t, from, to) == task[t] = from /\ task' = [task EXCEPT ![t] = to]

\* Without a picture there is no search and no FLICKOVER.
TaskLook(t) ==
  /\ Step(t, "look", IF ~cfg.shown THEN "gone" ELSE IF ready THEN "check" ELSE "init")
  /\ UNCHANGED <<cfg, panel, ic, probe, worker, search, ready, sem, found,
                 flickOver, srvVars, left, clean>>

\* What another task that saw the flag unset does here a second time.
TaskInit(t) ==
  /\ Step(t, "init", "flag")
  /\ sem' = [start |-> 0, end |-> 0]
  /\ worker' = [worker EXCEPT ![t] = "wait"]
  /\ UNCHANGED <<cfg, panel, ic, probe, search, ready, found, flickOver,
                 srvVars, left, clean>>

TaskFlag(t) ==
  /\ Step(t, "flag", "check") /\ ready' = TRUE
  /\ UNCHANGED <<cfg, panel, ic, probe, worker, search, sem, found, flickOver,
                 srvVars, left, clean>>

\* Mutant: the end is waited for even if nothing was started.
TaskCheckWaits(t) ==
  LET ok == (panel.lit \/ cfg.chip = "jd9367") /\ cfg.probe IN
  /\ Step(t, "check", "wait")
  /\ sem' = IF ok THEN [sem EXCEPT !.start = @ + 1] ELSE sem
  /\ ic' = IF cfg.chip = "hi8394" THEN [ic EXCEPT !.ok = panel.lit] ELSE ic
  /\ clean' = (clean /\ ok)
  /\ UNCHANGED <<cfg, panel, probe, worker, search, ready, found, flickOver,
                 srvVars, left>>

\* ic_mgr_check_chip_ok (a jd9367 always passes, and never sets id_ok) and
\* lcd_getStatus; a search that cannot start still ends with a FLICKOVER.
TaskCheck(t) ==
  LET ok == (panel.lit \/ cfg.chip = "jd9367") /\ cfg.probe IN
  /\ Step(t, "check", IF ok THEN "wait" ELSE "report")
  /\ sem' = IF ok THEN [sem EXCEPT !.start = @ + 1] ELSE sem
  /\ ic' = IF cfg.chip = "hi8394" THEN [ic EXCEPT !.ok = panel.lit] ELSE ic
  /\ clean' = (clean /\ ok)
  /\ UNCHANGED <<cfg, panel, probe, worker, search, ready, found, flickOver,
                 srvVars, left>>

TaskWake(t) ==
  /\ Step(t, "wait", "report")
  /\ sem.end > 0 /\ sem' = [sem EXCEPT !.end = @ - 1]
  /\ UNCHANGED <<cfg, panel, ic, probe, worker, search, ready, found, flickOver,
                 srvVars, left, clean>>

TaskReport(t) ==
  /\ Step(t, "report", "gone")
  /\ flickOver' = [vcom |-> found.vcom, flick |-> found.flick,
                   reg |-> panel.vcom, clean |-> clean]
  /\ UNCHANGED <<cfg, panel, ic, probe, worker, search, ready, sem, found,
                 srvVars, left, clean>>

TaskStep(t) == \/ TaskLook(t) \/ TaskInit(t) \/ TaskFlag(t) \/ TaskCheck(t)
               \/ TaskWake(t) \/ TaskReport(t)

-----------------------------------------------------------------------------
\* channelFlickTask

Work(w, from, to) == worker[w] = from /\ worker' = [worker EXCEPT ![w] = to]
\* Without id_ok nothing is written: a jd9367 is never searched in earnest.
Written(v) == IF ic.ok THEN Shown(panel, v) ELSE panel

WorkerWake(w) ==
  /\ Work(w, "wait", "first")
  /\ sem.start > 0 /\ sem' = [sem EXCEPT !.start = @ - 1]
  /\ probe' = "flick"
  /\ UNCHANGED <<cfg, panel, ic, task, search, ready, found, flickOver,
                 srvVars, left, clean>>

\* z_flick_test of the initial VCOM; its reading is not used ...
WorkerFirst(w) ==
  /\ Work(w, "first", "second") /\ panel' = Written(cfg.init)
  /\ UNCHANGED <<cfg, ic, probe, task, search, ready, sem, found, flickOver,
                 srvVars, left, clean>>

\* ... but that of a second measurement.
WorkerSecond(w) ==
  /\ Work(w, "second", "search")
  /\ \E f \in Answers : search' = [search EXCEPT ![w] = Begin(cfg.init, f)]
  /\ UNCHANGED <<cfg, panel, ic, probe, task, ready, sem, found, flickOver,
                 srvVars, left, clean>>

WorkerAim(w) ==
  /\ worker[w] = "search" /\ search[w].at = "aim"
  /\ search' = [search EXCEPT ![w] = Aimed(@)]
  /\ panel' = Written(search'[w].aim)
  /\ UNCHANGED <<cfg, ic, probe, task, worker, ready, sem, found, flickOver,
                 srvVars, left, clean>>

WorkerJudge(w) ==
  /\ worker[w] = "search" /\ search[w].at = "judge"
  /\ \E f \in Answers : search' = [search EXCEPT ![w] = Judged(@, f)]
  /\ UNCHANGED <<cfg, panel, ic, probe, task, worker, ready, sem, found,
                 flickOver, srvVars, left, clean>>

\* "lost" counts as a success: VCOM 0 is written and stored.
WorkerEnd(w) ==
  /\ Work(w, "search", "wait") /\ search[w].at = "done"
  /\ found' = [vcom |-> search[w].vcom, flick |-> search[w].flick]
  /\ panel' = IF search[w].out = "failed" THEN panel ELSE Written(search[w].vcom)
  /\ search' = [search EXCEPT ![w] = Idle]
  /\ probe' = "idle" /\ sem' = [sem EXCEPT !.end = @ + 1]
  /\ UNCHANGED <<cfg, ic, task, ready, flickOver, srvVars, left, clean>>

WorkerStep(w) == \/ WorkerWake(w) \/ WorkerFirst(w) \/ WorkerSecond(w)
                 \/ WorkerAim(w) \/ WorkerJudge(w) \/ WorkerEnd(w)

-----------------------------------------------------------------------------
\* The server thread: flick_auto.

Goto(from, to) == srv = from /\ srv' = to

\* Every AUTOFLICK that enables makes a thread and forgets the one before.
StartFlick ==
  /\ srv = "idle" /\ left.searches > 0
  /\ LET t == MaxSearches + 1 - left.searches IN
     /\ task' = [task EXCEPT ![t] = "look"] /\ handle' = t
     /\ clean' = ~(\E u \in Threads : Alive(u))
  /\ left' = [left EXCEPT !.searches = @ - 1]
  /\ UNCHANGED <<cfg, panel, ic, probe, worker, search, ready, sem, found,
                 flickOver, srv, job, otpEnd>>

\* Nothing reads stopFlickFlag: to stop is to wait for the search to end.
StopFlick ==
  /\ handle # 0 /\ Goto("idle", "joining")
  /\ UNCHANGED <<cfg, panel, ic, probe, flickVars, job, handle, otpEnd,
                 left, clean>>

Join ==
  /\ Goto("joining", "idle") /\ task[handle] = "gone" /\ handle' = 0
  /\ UNCHANGED <<cfg, panel, ic, probe, flickVars, job, otpEnd, left, clean>>

-----------------------------------------------------------------------------
\* The server thread: the other commands. Each ends the ghost clean.

Command ==
  /\ srv = "idle" /\ left.commands > 0
  /\ left' = [left EXCEPT !.commands = @ - 1] /\ clean' = FALSE

ProbeCommand ==
  /\ Command /\ probe' \in {"xylv", "flick", "idle"}
  /\ UNCHANGED <<cfg, panel, ic, flickVars, srvVars>>

ManualFlick ==
  /\ Command /\ cfg.chip = "jd9367"
  /\ \E v \in BurnVcoms : panel' = Shown(panel, v)
  /\ UNCHANGED <<cfg, ic, probe, flickVars, srvVars>>

GammaWrite ==
  /\ Command /\ cfg.chip = "hi8394"
  /\ \E g \in Gammas : /\ ic' = [ic EXCEPT !.gamma = g]
                       /\ panel' = IF panel.lit THEN [panel EXCEPT !.gamma = g] ELSE panel
  /\ UNCHANGED <<cfg, probe, flickVars, srvVars>>

\* GAMMA_OTP burns the private data; without id_ok the times are not read.
GammaOtp ==
  /\ Command /\ cfg.chip = "hi8394" /\ srv' = "gammaCopy"
  /\ \E v, s \in BOOLEAN :
       job' = [NoJob EXCEPT !.vcom = found.vcom, !.withVcom = v, !.second = s,
                            !.times = IF ic.ok THEN HiTimes ELSE 0,
                            !.alone = ~(\E t \in Threads : Alive(t))]
  /\ UNCHANGED <<cfg, panel, ic, probe, flickVars, handle, otpEnd>>

Serve(from, to) ==
  Goto(from, to) /\ UNCHANGED <<cfg, flickVars, handle, left, clean>>

GammaCopy ==
  /\ Serve("gammaCopy", "gammaLoad") /\ job' = [job EXCEPT !.gamma = ic.gamma]
  /\ UNCHANGED <<panel, ic, probe, otpEnd>>

\* A reset, then the registers; the green part goes where the blue belongs,
\* and a second burn writes the password, which begins with 255, as VCOM.
GammaLoad ==
  /\ Serve("gammaLoad", "gammaBurn")
  /\ panel' = IF ~panel.lit THEN panel
              ELSE [Loaded(panel) EXCEPT
                      !.gamma = IF job.gamma \in Uneven THEN Mixed ELSE job.gamma,
                      !.vcom = IF ~job.withVcom THEN @
                               ELSE IF job.second THEN 255 ELSE job.vcom]
  /\ UNCHANGED <<ic, probe, job, otpEnd>>

GammaBurn ==
  /\ Serve("gammaBurn", "gammaPower")
  /\ panel' \in {panel} \cup
       IF panel.lit THEN {Burnt(panel, job.withVcom, TRUE, 3)} ELSE {}
  /\ UNCHANGED <<ic, probe, job, otpEnd>>

\* Mutant: the registers just written are checked, not what the chip reloads.
GammaPowerSkipped ==
  /\ Serve("gammaPower", "gammaCheck")
  /\ UNCHANGED <<panel, ic, probe, job, otpEnd>>

\* client_pg_shutON(1, ...), which needs the file of the module.
GammaPower ==
  /\ Serve("gammaPower", "gammaCheck")
  /\ IF cfg.file THEN panel' = [Loaded(panel) EXCEPT !.lit = TRUE] /\ ic' = Wiped
                 ELSE UNCHANGED <<panel, ic>>
  /\ UNCHANGED <<probe, job, otpEnd>>

\* The last thing found wrong is what is reported.
GammaCheck ==
  /\ Serve("gammaCheck", "gammaFlick")
  /\ job' = [job EXCEPT !.fault =
               IF GammaRead # job.gamma THEN 3
               ELSE IF ~job.withVcom THEN 0
               ELSE IF VcomRead # job.vcom THEN 2
               ELSE IF HiTimes # job.times + 1 THEN 1 ELSE 0]
  /\ UNCHANGED <<panel, ic, probe, otpEnd>>

GammaFlick ==
  /\ Serve("gammaFlick", "gammaWhite")
  /\ probe' = IF cfg.probe THEN "flick" ELSE probe
  /\ UNCHANGED <<panel, ic, job, otpEnd>>

GammaWhite ==
  /\ Serve("gammaWhite", "gammaEnd") /\ probe' = "xylv"
  /\ UNCHANGED <<panel, ic, job, otpEnd>>

GammaEnd ==
  /\ Serve("gammaEnd", "idle") /\ probe' = "idle" /\ job' = NoJob
  /\ otpEnd' = [ok |-> job.fault = 0,
                excused |-> \/ job.gamma = Zero \/ ~cfg.file
                            \/ job.withVcom /\ ~job.alone,
                held |-> /\ panel.otpGamma = job.gamma
                         /\ job.withVcom => panel.otpVcom = job.vcom]
  /\ UNCHANGED <<panel, ic>>

\* MSG_OTP: what is burnt already is not burnt again, nor more than max times.
VcomOtp ==
  /\ Command /\ cfg.chip = "jd9367"
  /\ \E v \in BurnVcoms :
       IF JdVcom = v \/ cfg.max <= JdTimes
       THEN /\ otpEnd' = [ok |-> JdVcom = v, excused |-> v = 0,
                          held |-> panel.otpVcom = v]
            /\ UNCHANGED <<srv, job>>
       ELSE /\ srv' = "vcomBurn"
            /\ job' = [NoJob EXCEPT !.vcom = v, !.times = JdTimes]
            /\ UNCHANGED otpEnd
  /\ UNCHANGED <<cfg, panel, ic, probe, flickVars, handle>>

\* qc_otp_vcom: registers and OTP memory, then the power off and on.
VcomBurn ==
  LET q == Shown(panel, job.vcom) IN
  /\ Serve("vcomBurn", "vcomOff")
  /\ panel' \in {q} \cup IF q.lit THEN {Burnt(q, TRUE, FALSE, 5)} ELSE {}
  /\ UNCHANGED <<ic, probe, job, otpEnd>>

VcomOff ==
  /\ Serve("vcomOff", "vcomOn")
  /\ panel' = [panel EXCEPT !.lit = FALSE] /\ ic' = Wiped
  /\ UNCHANGED <<probe, job, otpEnd>>

VcomOn ==
  /\ Serve("vcomOn", "vcomEnd")
  /\ IF cfg.file THEN panel' = [Loaded(panel) EXCEPT !.lit = TRUE] /\ ic' = Wiped
                 ELSE UNCHANGED <<panel, ic>>
  /\ UNCHANGED <<probe, job, otpEnd>>

VcomEnd ==
  /\ Serve("vcomEnd", "idle") /\ job' = NoJob
  /\ otpEnd' = [ok |-> JdTimes > job.times /\ JdVcom = job.vcom,
                excused |-> FALSE, held |-> panel.otpVcom = job.vcom]
  /\ UNCHANGED <<panel, ic, probe>>

SrvCommand == \/ StartFlick \/ StopFlick \/ ProbeCommand \/ ManualFlick
              \/ GammaWrite \/ GammaOtp \/ VcomOtp
SrvStep == \/ Join \/ GammaCopy \/ GammaLoad \/ GammaBurn \/ GammaPower
           \/ GammaCheck \/ GammaFlick \/ GammaWhite \/ GammaEnd
           \/ VcomBurn \/ VcomOff \/ VcomOn \/ VcomEnd

-----------------------------------------------------------------------------
\* The key of the box, another thread: client_pg_shutON, mipi2828Open, -Close.
PowerSwitch ==
  /\ left.powers > 0 /\ left' = [left EXCEPT !.powers = @ - 1]
  /\ panel' = IF panel.lit THEN [panel EXCEPT !.lit = FALSE]
              ELSE [Loaded(panel) EXCEPT !.lit = TRUE]
  /\ ic' = Wiped /\ clean' = FALSE
  /\ UNCHANGED <<cfg, probe, flickVars, srvVars>>

Next == \/ SrvCommand \/ SrvStep \/ PowerSwitch
        \/ \E t \in Threads : TaskStep(t) \/ WorkerStep(t)

Fairness == /\ WF_vars(SrvStep)
            /\ \A t \in Threads : WF_vars(TaskStep(t)) /\ WF_vars(WorkerStep(t))

Spec == Init /\ [][Next]_vars /\ Fairness

-----------------------------------------------------------------------------
\* The curve falls to its bottom and rises from there, but for VCOMs that give
\* no value; it is so wide that no step jumps over the bottom, and the range so
\* short, or the panel so bright, that ten measurements without a value do not
\* end a search on its way there and back.
Valley(b) ==
  LET far(v) == IF v < b THEN b - v ELSE v - b
      c == cfg.curve
  IN  /\ \A v \in Min .. Max :
           /\ c[v] \in 1 .. Invalid
           /\ c[v] > 2000 => far(v) >= 3
           /\ c[v] > 5000 => far(v) >= 5
           /\ c[v] = Invalid => far(v) >= 10
      /\ \A v, w \in Min .. Max :
           (b <= v /\ v < w) \/ (w < v /\ v <= b) => c[v] < c[w] \/ c[w] = Invalid
      /\ Max - Min <= 50 \/ \A v \in Min .. Max : c[v] < Invalid

(* The VCOM a FLICKOVER reports is the bottom of the curve, or good enough to *)
(* end the search, its flicker is the one measured there, and the chip shows  *)
(* it: when nothing else touched the panel and the probe, the curve is a wide *)
(* valley, and neither its bottom nor the initial VCOM is an end of the range.*)
ValleyFound ==
  flickOver.clean /\ cfg.chip = "hi8394" /\ cfg.init \in Min + 1 .. Max - 1 =>
    \A b \in Min + 1 .. Max - 1 : Valley(b) =>
      /\ flickOver.vcom = b \/ flickOver.flick < MinOk
      /\ flickOver.vcom \in Min .. Max
      /\ flickOver.flick = cfg.curve[flickOver.vcom]
      /\ flickOver.reg = flickOver.vcom

(* The server thread that stops a search goes on, whatever the probe answers  *)
(* and whoever switches the power, unless two searches made the semaphores.   *)
StopReturns == srv = "joining" ~> srv = "idle" \/ Raced

(* A burn reported as done is in the chip: but for an all-zero table (wiped   *)
(* private data) or VCOM (a chip that cannot be read), for a module without   *)
(* file, and for a VCOM burnt while a search is running.                      *)
OkMeansHeld == otpEnd.ok /\ ~otpEnd.excused => otpEnd.held

SearchesInBounds == \A w \in Threads : InBounds(search[w])
SearchesAdvance ==
  \A w \in Threads : search'[w] = search[w] \/ Advances(search[w], search'[w])

(* Whatever the probe answers, whoever else uses it and however often the     *)
(* power is switched: a search shows only VCOMs of the module's range, and it *)
(* either turns or has less way left, which ends it after at most five turns. *)
SearchesBounded == [][SearchesInBounds' /\ SearchesAdvance]_vars
=============================================================================
