----------------------------- MODULE PanelPower -----------------------------
(***************************************************************************)
(* Switching the panel: client_pg_shutON of clipg.c, called without a lock *)
(* by the box apartment, a pool worker and the TCP thread, and to switch   *)
(* off by the serial thread (checkPwr) and ntcMonitorTask; the polling of  *)
(* the power board (pwrInfoGetTask) and the check of its answers.  A call  *)
(* is one step per piece of shared state it writes.  The power board, code *)
(* outside the repository, executes commands and answers in the order they *)
(* are sent under the mutex of pubPwrTask.c; an answer with a rail away    *)
(* from its setting, as all are when the panel is off, is a bad one.       *)
(***************************************************************************)
EXTENDS Naturals, Sequences, FiniteSets

CONSTANTS
  Callers,   \* the threads that switch on request
  Guards,    \* the threads that only switch off: "serial" and "ntc"
  Configs,   \* the modules: signal, ntc_enable and open_short_enable
  Signals,   \* the signal types client_pg_shutON knows
  Budgets,   \* scenarios: how many switches are asked for, faults happen, modules
             \* are loaded, and how often the panel gets hot
  MaxLine    \* bound on the answers in flight

ASSUME PowerAssumption ==
  /\ Guards = {"serial", "ntc"} /\ Callers \cap Guards = {}
  /\ Configs \subseteq [signal : Signals \cup {"none"}, ntc : BOOLEAN, openShort : BOOLEAN]
  /\ Signals = {"TTL", "LVDS", "MIPI", "EDP"}
  /\ Budgets \subseteq [call : Nat, fault : Nat, heat : Nat, load : Nat]
  /\ MaxLine \in Nat

VARIABLES
  board,     \* the power board: rails on, a rail off its setting
  line,      \* its answers on the serial line: is it a bad one?
  paused,    \* bPwrUpdatePaused, bNtcCheckPaused
  status,    \* pg_pwr_status
  told,      \* what client_rebackPower told the PC last
  output,    \* the signal output of the FPGA is on
  cfg,       \* s_timing_info and s_monitor_cfg_info, the loaded module
  hot,       \* the NTC value is out of its range
  pc,        \* place of every thread in client_pg_shutON
  poll,      \* place of pwrInfoGetTask
  switched,  \* the current call of a thread sent its command
  alone,     \* history: no other call overlapped the current call of a thread
  settled,   \* history: the last call that switched was alone to its end
  left       \* what remains of the budget

vars == <<board, line, paused, status, told, output, cfg, hot, pc, poll, switched,
          alone, settled, left>>
outside == <<line, cfg, hot, poll, left>>

Threads == Callers \cup Guards
Inside == {t \in Threads : pc[t] # "out"}

TypeOK ==
  /\ board \in [on : BOOLEAN, fault : BOOLEAN]
  /\ line \in Seq(BOOLEAN) /\ Len(line) <= MaxLine
  /\ paused \in [power : BOOLEAN, ntc : BOOLEAN]
  /\ status \in BOOLEAN /\ told \in BOOLEAN /\ output \in BOOLEAN
  /\ cfg \in Configs /\ hot \in BOOLEAN
  /\ pc \in [Threads -> {"out", "on", "unpause", "show", "signal", "tellOn", "setOn",
                         "success", "off", "pause", "close", "tellOff", "setOff"}]
  /\ poll \in {"check", "ask"}
  /\ switched \in [Threads -> BOOLEAN] /\ alone \in [Threads -> BOOLEAN]
  /\ settled \in BOOLEAN

Init ==
  /\ board = [on |-> FALSE, fault |-> FALSE]
  /\ line = <<>>
  /\ paused = [power |-> TRUE, ntc |-> TRUE]
  /\ status = FALSE /\ told = FALSE /\ output = FALSE
  /\ cfg \in Configs /\ hot = FALSE
  /\ pc = [t \in Threads |-> "out"] /\ poll = "check"
  /\ switched = [t \in Threads |-> FALSE] /\ alone = [t \in Threads |-> FALSE]
  /\ settled = TRUE
  /\ left \in Budgets

-----------------------------------------------------------------------------
(* client_pg_shutON                                                        *)

Goto(t, l) == pc' = [pc EXCEPT ![t] = l]

Enter(t, l) ==
  /\ pc[t] = "out"
  /\ Goto(t, l)
  /\ switched' = [switched EXCEPT ![t] = FALSE]
  /\ alone' = [u \in Threads |-> IF u = t THEN Inside = {} ELSE FALSE]

Step(t, l) == Goto(t, l) /\ UNCHANGED <<switched, alone, settled>>

LeaveAs(t, agreed) ==
  /\ Goto(t, "out")
  /\ settled' = IF switched[t] THEN agreed ELSE settled
  /\ switched' = [switched EXCEPT ![t] = FALSE]
  /\ alone' = [alone EXCEPT ![t] = FALSE]

Leave(t) == LeaveAs(t, alone[t])

Call(t, l) ==
  /\ t \in Callers /\ left.call > 0
  /\ Enter(t, l)
  /\ left' = [left EXCEPT !.call = @ - 1]
  /\ UNCHANGED <<board, line, paused, status, told, output, cfg, hot, poll, settled>>

\* The directory of the module is missing: the rest is skipped.
FileMissing(t) ==
  /\ pc[t] = "on"
  /\ Step(t, "success")
  /\ UNCHANGED <<board, paused, status, told, output, outside>>

\* The open-short test of a TTL module fails.
OpenShort(t) ==
  /\ pc[t] = "on" /\ cfg.signal = "TTL" /\ cfg.openShort
  /\ Leave(t)
  /\ UNCHANGED <<board, paused, status, told, output, outside>>

\* pwrSetState: the command under the mutex, the flag after it. The tests
\* before it read only what the thread sees alone, so they are no step.
SwitchOn(t) ==
  /\ pc[t] = "on"
  /\ board' = [board EXCEPT !.on = TRUE]
  /\ switched' = [switched EXCEPT ![t] = TRUE]
  /\ Goto(t, "unpause")
  /\ UNCHANGED <<paused, status, told, output, alone, settled, outside>>

\* Mutant: the polling of the power board is not resumed.
UnpauseForgotten(t) ==
  /\ pc[t] = "unpause"
  /\ Step(t, "show")
  /\ UNCHANGED <<board, paused, status, told, output, outside>>

Unpause(t) ==
  /\ pc[t] = "unpause"
  /\ paused' = [paused EXCEPT !.power = FALSE]
  /\ Step(t, "show")
  /\ UNCHANGED <<board, status, told, output, outside>>

\* doIcNonePowerTiming, client_pg_showPtn and the signal of the module; a type
\* that is not known ends the call here.
InitSignal(t) ==
  /\ pc[t] = "show"
  /\ \/ cfg.signal \in Signals /\ Step(t, "signal")
     \/ cfg.signal \notin Signals /\ LeaveAs(t, FALSE)
  /\ UNCHANGED <<board, paused, status, told, output, outside>>

OpenSignal(t) ==
  /\ pc[t] = "signal"
  /\ output' = TRUE
  /\ paused' = [paused EXCEPT !.ntc = @ /\ ~(cfg.signal = "TTL" /\ cfg.ntc)]
  /\ Step(t, "tellOn")
  /\ UNCHANGED <<board, status, told, outside>>

\* client_rebackPower(1)
TellOn(t) ==
  /\ pc[t] = "tellOn"
  /\ told' = TRUE
  /\ Step(t, "setOn")
  /\ UNCHANGED <<board, paused, status, output, outside>>

SetOn(t) ==
  /\ pc[t] = "setOn"
  /\ status' = TRUE
  /\ Step(t, "success")
  /\ UNCHANGED <<board, paused, told, output, outside>>

\* The PC and the box are told of the success.
Success(t) ==
  /\ pc[t] = "success"
  /\ Leave(t)
  /\ UNCHANGED <<board, paused, status, told, output, outside>>

SwitchOff(t) ==
  /\ pc[t] = "off"
  /\ board' = [on |-> FALSE, fault |-> FALSE]
  /\ switched' = [switched EXCEPT ![t] = TRUE]
  /\ Goto(t, "pause")
  /\ UNCHANGED <<paused, status, told, output, alone, settled, outside>>

Pause(t) ==
  /\ pc[t] = "pause"
  /\ paused' = [power |-> TRUE, ntc |-> paused.ntc]
  /\ Step(t, "close")
  /\ UNCHANGED <<board, status, told, output, outside>>

CloseSignal(t) ==
  /\ pc[t] = "close"
  /\ paused' = [paused EXCEPT !.ntc = @ \/ cfg.ntc]
  /\ output' = FALSE
  /\ Step(t, "tellOff")
  /\ UNCHANGED <<board, status, told, outside>>

TellOff(t) ==
  /\ pc[t] = "tellOff"
  /\ told' = FALSE
  /\ Step(t, "setOff")
  /\ UNCHANGED <<board, paused, status, output, outside>>

\* Mutant: the power status is not cleared.
SetOffForgotten(t) ==
  /\ pc[t] = "setOff"
  /\ Leave(t)
  /\ UNCHANGED <<board, paused, status, told, output, outside>>

SetOff(t) ==
  /\ pc[t] = "setOff"
  /\ status' = FALSE
  /\ Leave(t)
  /\ UNCHANGED <<board, paused, told, output, outside>>

ShutOn(t) ==
  \/ FileMissing(t) \/ OpenShort(t) \/ SwitchOn(t) \/ Unpause(t) \/ InitSignal(t)
  \/ OpenSignal(t) \/ TellOn(t) \/ SetOn(t) \/ Success(t)
  \/ SwitchOff(t) \/ Pause(t) \/ CloseSignal(t) \/ TellOff(t) \/ SetOff(t)

-----------------------------------------------------------------------------
(* Watching the panel                                                      *)

notPoll == <<board, paused, status, told, output, cfg, hot, pc, switched, alone, settled, left>>

\* pwrInfoGetTask: 1.5 seconds lie between the test and the question.
PollCheck ==
  /\ poll = "check" /\ ~paused.power
  /\ poll' = "ask"
  /\ UNCHANGED <<line, notPoll>>

PollAsk ==
  /\ poll = "ask" /\ Len(line) < MaxLine
  /\ line' = Append(line, board.fault \/ ~board.on)
  /\ poll' = "check"
  /\ UNCHANGED notPoll

\* processRcvFromSerial, checkPwr
CheckPwr ==
  /\ pc["serial"] = "out" /\ line # <<>>
  /\ line' = Tail(line)
  /\ IF Head(line) THEN Enter("serial", "off") ELSE UNCHANGED <<pc, switched, alone>>
  /\ UNCHANGED <<board, paused, status, told, output, cfg, hot, poll, settled, left>>

\* ntcMonitorTask
NtcMonitor ==
  /\ ~paused.ntc /\ hot
  /\ Enter("ntc", "off")
  /\ UNCHANGED <<board, line, paused, status, told, output, cfg, hot, poll, settled, left>>

-----------------------------------------------------------------------------
(* The outside: the panel, and the threads that load modules               *)

notOutside == <<line, paused, status, told, output, pc, poll, switched, alone, settled>>

Fault ==
  /\ board.on /\ ~board.fault /\ left.fault > 0
  /\ board' = [board EXCEPT !.fault = TRUE]
  /\ left' = [left EXCEPT !.fault = @ - 1]
  /\ UNCHANGED <<cfg, hot, notOutside>>

Heat ==
  /\ hot \/ left.heat > 0
  /\ hot' = ~hot
  /\ left' = [left EXCEPT !.heat = IF hot THEN @ ELSE @ - 1]
  /\ UNCHANGED <<board, cfg, notOutside>>

\* load_cur_module, whether the panel is on or not
LoadModule ==
  /\ left.load > 0
  /\ cfg' \in Configs \ {cfg}
  /\ left' = [left EXCEPT !.load = @ - 1]
  /\ UNCHANGED <<board, hot, notOutside>>

Outside ==
  \/ \E t \in Callers : Call(t, "on") \/ Call(t, "off")
  \/ Fault \/ Heat \/ LoadModule

Next ==
  \/ \E t \in Threads : ShutOn(t)
  \/ PollCheck \/ PollAsk \/ CheckPwr \/ NtcMonitor \/ Outside

Spec == Init /\ [][Next]_vars

(* Every thread runs; nothing makes a caller switch.                       *)
PollThread == PollCheck \/ PollAsk
SerialThread == CheckPwr \/ ShutOn("serial")
NtcThread == NtcMonitor \/ ShutOn("ntc")

FairSpec ==
  /\ Spec
  /\ \A t \in Callers : WF_vars(ShutOn(t))
  /\ WF_vars(PollThread) /\ WF_vars(SerialThread) /\ WF_vars(NtcThread)

-----------------------------------------------------------------------------
(* A switch that no other call overlapped leaves everything agreeing with  *)
(* the rails, whatever earlier overlapping calls have left: the status the *)
(* box reads, what the PC was told, the polling, the output of the FPGA.   *)
LoneSwitchAgrees ==
  settled /\ Inside = {} =>
    /\ status = board.on /\ told = board.on /\ output = board.on
    /\ paused.power = ~board.on

(* Once a switch has settled, a rail that leaves its setting does not stay *)
(* on: the next answer of the power board switches the panel off.          *)
FaultShutsDown ==
  settled /\ Inside = {} /\ board.fault ~> ~board.on

=============================================================================
