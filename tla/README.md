# pgClient: models and proofs

pgClient (`src/`) runs on an ARM/Zynq board that tests LCD panels. It switches
the panel under test on and off, shows test patterns through an FPGA, programs
driver chips, and takes its orders from a PC over TCP and from a hand-held
control box over a serial line. This directory holds TLA+ models of the parts
where several threads, or one thread and a peer, have to agree; TLC checks them
on small instances, TLAPS proves the main invariants for every instance.

Contents: [inventory](#1-inventory), [modules and code](#2-modules-and-the-code),
[runs](#3-runs), [fairness](#4-fairness), [proofs](#5-proofs),
[findings](#6-findings), [what is left out](#7-what-is-not-modelled),
[order of the work](#8-order-of-the-work).

To run a model: `tlc -workers 2 -config MCThreadPool.cfg MCThreadPool`; to
check the proofs: `tlapm ThreadPoolProofs.tla`. `PROJECT.json` lists the runs,
for every modelled definition the lines of code it stands for (`map`), the
hazards of the code with the properties that watch them, and for every checked
property one plausible bug that breaks it (`mutants`). The operators commented
`Mutant:` in the modules are those bugs; no specification uses them.

## 1. Inventory

`main()` (src/main.c) initialises everything in one sequence: buses, chip
manager, serial port, FPGA, LCD, the power task, the local data base, the
module loaded last, the box, and at the end the link to the PC. From then on
these threads run side by side, mostly over unprotected globals:

| thread | code | does |
|---|---|---|
| `client_mutilcast` | client.c | hears the multicasts of the PC, stores its address, feeds the guard |
| `client_connect` | client.c | connects to the PC, waits until that connection (`send_fd`) ends |
| `server_start` | client.c | accepts the connection of the PC, receives, parses packages, runs `msgProc` on each message but two kinds |
| `server_guard` | client.c | breaks both connections when five seconds pass without a multicast |
| timer | pgos/MsOS_timer.c | calls the heartbeat `client_rebackHeart` once a second |
| pool workers | threadpool/threadpool.c | run `msgProc` on SHUTON (power on) and SYNCTIME |
| box apartment | hw/box/box.c, pgos | handles keys, sends frames, upgrades the box |
| box receiver, silence watch, version task | hw/box/box.c | read the line, forget a silent box, ask for its version |
| lcd apartment | hw/lcd/pubLcdTask.c | keeps the list of colour probes |
| `autoFlickTask`, `channelFlickTask` | hw/mipi/mipiflick.c | one task per AUTOFLICK, which starts a search, waits for it and reports; one worker that searches |
| `pwrInfoGetTask`, `ntcMonitorTask`, serial threads | hw/power, hw/serial | poll the power board, check its answers, switch off on a fault |

The components, one by one.

**Thread pool** (threadpool/). State: the job list with its count, two closing
flags, one mutex, three condition variables. Operations: `threadpool_add_job`,
the worker loop, `threadpool_destroy`. Hard: wakeups are sent only on some
transitions of the count (0 to 1, full to full - 1, 1 to 0); destroy drains,
closes, joins and frees while other threads may be inside. Right when: each
accepted job runs once and in order, nobody sleeps on a condition that holds,
destroy returns and frees only what nobody uses.

**Message queue** (pgos/MsOS_queue.c). State: an array of nodes on a free and a
used list, a lock and two counting semaphores. Operations: create, send (claim,
copy, link), receive (unlink, copy, free). Hard: semaphore and list are changed
in separate steps, with time limits and an error path for messages that are too
large. Right when: a permit always finds a node, no node is in two places, and
the whole is a bounded FIFO channel.

**Apartments** (pgos/MsOS_control.c, MsOS_queue.c). State: one thread, one queue,
and per call a result and a semaphore in the caller's stack frame. Operations:
`MsOS_SendMessage` (a call), `MsOS_PostMessage`, the loop of
`ApartmentThread`. Hard: the server writes through pointers into the caller's
frame, and the caller frees the message's buffer when the call returns. Right
when: no dead frame is touched, each call gets its own result, every call
returns.

**Control box** (hw/box/box.c). State: `box_cur_state` (connected, layer, module,
pattern, power), the key lock-out `gBoxKeyReturn`, the silence clock, the version
request, two locks, the serial line. Operations: six keys, silence, version
question and answer, firmware upgrade, reset after a file synchronisation. Hard:
five threads write this state without a common lock. Right when: a connected box
never shows what the tester does not have, keys are never locked out for good,
nothing is sent between firmware frames, and no two of these threads wait on each
other for ever.

**Panel power** (clipg.c `client_pg_shutON`, hw/power/source/pubPwrTask.c).
State: the rails of the power board, `pg_pwr_status`, what the PC was told, the
pause flags of polling and NTC watch, the FPGA output. Operations: switch on
(with five early returns), switch off, poll, check an answer, NTC watch, load a
module. Hard: five threads call `client_pg_shutON` without a lock, two of them
because of a fault. Right when: a switch that was not overlapped leaves all of
this state in agreement, a fault on a settled panel ends with the panel off.

**Packet framing** (packsocket/). State: a byte FIFO (ring buffer) and a list of
package fragments. Operations: `recvSocketCmd` (write), `parseSocketCmd` (scan
for the header, crc, collect fragments, join, return). Hard: wrap-around, chunks
that do not match packages, crc errors, disconnections in mid-package (neither
FIFO nor list is reset), and a list shared by all commands. Right when: what the
PC sent comes out whole and in order, and damage stays with the damaged command.

**Link to the PC** (client.c). State: two descriptors, the address, the guard's
clock. Operations: the loops of the four threads and the heartbeat. Hard: each
thread closes, shuts down or overwrites descriptors the others are blocked on.
Right when: a dead connection is left and made again, no descriptor leaks.

**Commands of the PC** (clirecvcmd5srv.c `msgProc`): a switch over the command
number. `server_start` hands SHUTON and SYNCTIME to the pool and runs the rest
itself: the box upgrade is a call to the box apartment, the file commands drive
the synchronisation; the others translate one JSON request into calls of one
module and answer.

**File synchronisation** (clirecvcmd5srv.c, client.c, clipg.c, pgDB/pgLocalDB.c,
loop/). State: the sets of files per sender with the file being received, the
records of known files in local.db and in memory, the name of the current module
in memory and in module.ini. Operations: SYNCFILE, SENDFILE (begin, body, over),
UPDATEFILE, COMPLETESYNC, and the start of the program. Hard: a protocol of several
messages over pointers that are freed on the way, and three things on flash (file,
record, module name) that must agree after a power cut or on a full disk. Right
when: a record never says more than the flash holds, SYNCFIN means that every file
is there, module.ini names only what was synchronised, and a synchronisation ends.

**Calibration** (mipiflick.c, GAMMA_WRITE, GAMMA_OTP, MSG_OTP, MANUALFLICK and the
probe commands of `msgProc`, icm/). State: the VCOM search and what it found, the
semaphores between task and worker, the mode of the probe, what the chip manager
remembers of the chip, the registers and the OTP memory of the chip. Hard: search,
commands and power switches are three threads over one chip and one probe without a
lock, a burn cannot be taken back, and stopping a search means waiting for it. Right
when: a search stays in the module's range and ends whatever the probe answers, it
finds the bottom of a valley, and a burn reported as done is in the chip.

**Deque** (loop/): a bounded deque in an array under a mutex; the lists of records,
of file sets and of patterns are made of it. **Timers** (pgos/MsOS_timer.c): a list walked
by one thread that calls back while it holds the semaphore. **Events**
(pgos/MsOS_event.c, MsOS_eventhandler.c): used by nothing. **Tasks**
(pgos/MsOS_task.c): wrappers of pthreads and semaphores. **Module data base**
(pgDB/pgDB.c): SQL queries for the module and its patterns. **Configuration**
(module_cfg/, rwini.c, ini/, xmlparse/, json/): readers of files. **Colour probes**
(hw/lcd/): a list of probes and their serial dialogues. **MIPI** (hw/mipi/, the rest):
register sequences. **Driver chips** (icm/): per chip the registers for gamma, VCOM,
ID and OTP.
**FPGA** (hw/fpga/), **serial devices** (hw/serial/, comUart.c, ringBufApi.cpp),
**buses** (i2c, spi, gpio, clk), **VCOM and open/short tests**, **MES server**
(not compiled), **download stubs** (dwnFiles/, empty), **utilities** (util/),
vendored headers (inc/). `PROJECT.json` says for each why it is or is not
modelled.

How they interact: `server_start` feeds packsocket, calls `msgProc` or adds a job to the
pool; `msgProc` sends to apartments, writes files and resets the box; the pool, the box
apartment, the serial thread and the NTC watch all call `client_pg_shutON`, which
notifies the PC through `send_fd` and posts to the box; the heartbeat and the guard
change the descriptors under all of them.

## 2. Modules and the code

| module | models | EXTENDS / uses |
|---|---|---|
| `ThreadPool` | threadpool.c | implements `JobService` |
| `JobService` | what a pool promises | |
| `MsOSQueue` | MsOS_queue.c, the queue | implements `MsgChannel` |
| `MsgChannel` | a bounded FIFO channel | |
| `Apartment` | MsOS_control.c, the calls of MsOS_queue.c | its queue is that channel |
| `BoxDevice` | hw/box/box.c with the synchronisation and the loaded module | its queue is that channel |
| `PanelPower` | `client_pg_shutON`, pubPwrTask.c | |
| `PanelSuccess` | what the PC and the box are told of a switch | EXTENDS `PanelPower` |
| `PackSocket` | the receiving half of packsocket.c | |
| `Link` | the connection threads of client.c | |
| `LinkBreak` | a receiver the guard leaves waiting | EXTENDS `Link` |
| `FileSync` | the file commands, client_pg_syncFile, pgLocalDB.c, the lists of loop.c | |
| `FlickSearch` | z_auto_flick_2, as operators on one search | |
| `Calibration` | mipiflick.c, the burns, the chip manager, the probe's modes | EXTENDS `FlickSearch` |
| `MC*` | the instances for TLC | one module each |
| `*Proofs` | the theorems, one module for each component | `ConnectionProofs`: `PackSocket` and `Link` |

The composition follows the layers: `MsOSQueue` is shown to implement
`MsgChannel`; `Apartment` and `BoxDevice` then use the channel (a sequence and
a capacity) in place of the semaphores and lists.

**ThreadPool.** The code never blocks inside a critical section except in
`pthread_cond_wait`, so one critical section is one action. A thread's place
says which condition variable it sleeps on; a broadcast moves every sleeper back
to the test of its `while`. `AfterPop` is the pair of tests in the worker
(`queue_cur_num == queue_max_num - 1`, `== 0`). `SpuriousWakeup` is the licence
POSIX gives. After `freed`, a thread still inside a call is `undefined`
(`TouchFreed`): it locks a mutex in freed memory. Histories `accepted`, `started`,
`finished` name jobs; a job is submitted at most once.

**MsOSQueue.** One action per semaphore operation and per locked list operation;
the copy of a message is a step of its own (`Fill`), outside the lock, as in
the code. `SendTimeout` is the `sem_timedwait` that gives up, `ReturnNode` the
path of a message that is too large: it gives back the node and not the permit,
which `leaked` counts. The lists are sequences. `sem_wait` is not interrupted
by the program's signals (installed with `signal()`, which restarts it).

**Apartment.** `Issue` builds the frame, `SendToQueue` queues, `Obtain` and
`Return` are the end of the call; `Recv`, `Handle`, `WriteResult`, `Release`
are the loop of the thread. `live` is the set of calls whose frame exists.

**BoxDevice.** The apartment's handler is cut at each access of shared state that
another thread can come before: `app` is the place, `msg` the message, `target`
the local variable a branch computed, `resume` where a frame returns to.
`Frame` is the part of `boxCmdTransfer` under `gBoxReadLock`; the upgrade holds
that lock over all its frames. `uart.torn` records a frame sent inside an
upgrade. Places of the other threads: `hand` (silence watch), `rcv` (receiver),
`task` (version task), `srv` (TCP thread), `bg` (anyone else who switches power
or reports it). Sleeps are left out, so all orders they only make unlikely exist.
`pg.disk` is ./cfg/tst: a file is gone, empty (no pattern table: damaged, or just created
by `sqlite3_open`) or full; the directory is there while a file is. `pg.cfg` is
module.ini, which may be missing, `pg.list` the list `dbInitModuleSelf` makes in any order
of the files, with the number of patterns the last `LookUp` found. `load_cur_module` is
three steps on the apartment, reading module.ini (`LoadRead`), the test for the file
(`LoadTest`, whose error path keeps the module loaded before) and the load (`LoadOpen`);
on the TCP thread it is `SyncRead` and `SyncOpen`, since no other thread removes files.
HOME_KEY is `Connect`, `HomeName`, `HomeList` and `Synced`, with the paths of a missing
module.ini and of a module that is not in the list. The history `missed` says that the
last load found no file, or put in a module that module.ini no longer named. One step are:
writing module.ini, removing ./cfg, replacing a file, and a load or look up from opening
the file on; two of them at the same time on one structure are undefined behaviour
(section 7).

**PanelPower.** `ShutOn` is `client_pg_shutON` cut at every piece of shared state it
writes; the early returns are `FileMissing` (missing directory), `OpenShort` (failed
test), `InitSignal` (unknown type). The tests that succeed are part of the switching
that follows them, because they read only what the thread sees alone.
`PollCheck`/`PollAsk` are pwrInfoGetTask with the 1.5 s between its test and its
question; `CheckPwr` and `NtcMonitor` are the two threads that switch off by themselves.
The power board executes and answers in order. The limits of the single rails are
abstracted to "a bad answer". Histories: `alone` (the current call was overlapped by
none), `settled` (the last call that switched was alone to its end), and in
`PanelSuccess` `lied` (a success was announced for a call that switched nothing on).

**PackSocket.** A byte is its position in the received stream, so `ring` shows
directly whether bytes were mixed up; `pkgs` are the packages not yet consumed.
`WriteFifo` has the two branches of `write_cmd_fifo`, `ReadFifo` is the modulo
of `read_cmd_fifo`. `TakeWhole` is one turn of the loop of `parseSocketCmd` on an
intact package, `TakeMixed` on one a disconnection cut short (its crc, and what
was missing of its header, are chance values), `ParseEnds` the NULL return.
`Destroy` is `_destoryRecvList2`, which forgets to unlink a node between two
kept ones: `torn`. Behaviour after that is undefined and stops the model. `list` is
a set of nodes, each with the place of its package in the stream: `_addRecvList` only
appends, at the end of the list, so the order of the places is the order of the list.

**Link.** A descriptor is a number with the state of its connection. Every read and
write of `send_fd`, `client_socket` and the address is a step of its own; the guard
excludes only `client_mutilcast`, by the mutex. `recv` blocks on the descriptor it read,
whatever the variable says later. `forgotten` (connections whose number guard or
heartbeat overwrote, until they are closed) is a history, and so is `blocked` in
`LinkBreak`.

**FileSync.** All of it runs on the server thread, so a handler is cut only where
it writes to flash, because the power may go there: `WriteFile` and `Record` are
`client_pg_syncFile`, `RemoveCfg` and `DelAll` the two steps of COMPLETESYNC,
`WriteName` the end of `client_syncFinish`. `NextFile` is `client_getFileFromSet`
with `find_file_from_local_db` (`Known`: the first record of that name in memory has
this time and size). `mem` is the deque of loop.c as a sequence (`Push` forgets the
oldest), `table` the rows in the order of insertion; `Restart` is `localDBInit`.
`heap` are the sets in memory and `list` which of them `recv_file_list_get` finds:
`SendCrash` is the use of a NULL pointer. A version stands for size and time of a
file, one BODY for a package. Faults: `Cut` leaves what was being written old, torn
or new; a full disk tears a file (`WriteFile`) or refuses the data base (`DelAll`,
`RecordFails`); `LosePackage` is the dropped chunk of `PackSocket`; `PcLeave` breaks
the link. The ghost `suspect` holds the files a fault caught until they are written
again, `spoilt` the synchronisations that lost a package, `finished` the modules
reported finished. `MaxOpen` is 1: the PC runs one synchronisation at a time, because
a second one from the same PC changes `curModuleName` under the first and both answer
to the same sender number; what then happens is not examined.

**FlickSearch.** The function calls itself with its sixteen parameters; the record
`s` holds those that change. A call is `Aimed` (which VCOM to measure next: the step
depends on the flicker, at an end of the range the direction turns) and `Judged`
(what the reading means: found, given up, or go on). Flicker is in hundredths of a
percent; `Invalid` is a probe that gives no value. `LeftOpen` and `RightOpen` are the
tests of the ends as the code nests them.

**Calibration.** `TaskLook` to `TaskReport` are `autoFlickTask`, with the test of
`auto_flick_thread_init` and the initialisation of the semaphores as separate steps
(`TaskInit`, `TaskFlag`); `WorkerWake` to `WorkerEnd` are `channelFlickTask`;
`StartFlick`, `StopFlick`, `Join` are `flick_auto`. GAMMA_OTP and MSG_OTP are cut at
every access to chip, probe and manager (`GammaCopy` ... `GammaEnd`, `VcomBurn` ...
`VcomEnd`); GAMMA_WRITE, MANUALFLICK and the mode commands are one action each.
`PowerSwitch` is the box's key, from another thread. External are the chip (`Loaded`:
a reset reloads the registers from OTP memory; `Burnt`: OTP memory takes them, at
most so many times; a dark chip reads as zero) and the probe (`Answers`: the
flicker of the shown VCOM by the curve of the scenario, something else in the other
mode, no value when the panel is dark). Merged into one step: the power going off and
the wiping of the manager's data, and the stop and start of a probe mode, which the
code does back to back. A scenario (`cfg`) fixes the curve, the initial VCOM, the
chip, what is plugged in, and how many searches, commands and power switches still
come; a worker gets the number of the task that made it. `clean`, `flickOver` and
`otpEnd` are ghosts: what was reported and what was true of the chip then.

Constants carry named assumptions (`ThreadPoolAssumption`, ...), which the proofs use
and TLC evaluates. Most say no more than the code needs: limits are positive (the pool
has 10 workers and a list of 20, a queue 100 messages), the null value is not a proper
one, sets that are counted are finite. Two have content that the code does not enforce.
`FlickSearchAssumption`: the range of VCOMs has room for the longest step (ten).
`LengthAssumption` of `PackSocket`: `MaxSize + RecvMax <= MaxLen + 1`, the largest
package and one chunk of `recv` (half the buffer) fit the FIFO together. That bounds packages to half the FIFO of 40960 bytes and one byte more;
packsocket.h:5 sets them to 1600, without a test on what arrives.

## 3. Runs

All runs are exhaustive searches of the instance named. Deadlock checking is
off everywhere, because each instance may stop: callers need not call, the budget
of the environment (keys, messages, searches, cuts) runs out, a destroyed pool
rests. Type invariants are theorems where there is a proof module (section 5).

| run | instance | shows |
|---|---|---|
| `pool` | 2 workers, 2 callers that may both destroy, 4 jobs, list of 2 | safety, liveness and the refinement of `JobService` |
| `queue` | 2 senders (one timed), 2 receivers, 2 nodes, 4 messages (one too large) | semaphores agree with lists, nodes are never shared, progress, refinement of `MsgChannel` |
| `apartment` | 3 threads, 2 calls and 2 posts, queue of 2 | no dead frame, own result, buffer free to be freed, calls return |
| `box_nav` | 2 modules (one broken), module.ini naming one or missing, panel on or off; 3 keys with a silence and a synchronisation (2 when the panel is on or module.ini missing), 3 with a power switch elsewhere, 4 with a synchronisation | what a connected box holds of its module agrees with list, disk, module.ini and the module loaded; keys open again |
| `box_live` | no modules, a queue of 1, version asked at start, an upgrade, a key, a silence | firmware frames stay together; the version is answered, the upgrade returns, the queue drains |
| `panel_power` | 2 callers, 1 answer in flight; 2 switches and 1 change of module with a fault, or with the panel overheating, or 1 switch with all three | lone switches settle everything, a fault ends off |
| `panel_success` | the same, with the announcements | violation: success announced, nothing on |
| `pack` | 4 messages of 1-2 packages of 3 commands, FIFO of 5 bytes, chunks of 1-2, 2 bad crcs, 1 disconnection | what is undamaged comes out whole and in order, and what damage does not reach |
| `link` | 2 descriptors, limit 1, the PC leaves once | what leaks, and that a dead connection is left |
| `link_break` | 3 descriptors, limit 2, leaves twice | violation: a connection the guard does not end |
| `file_sync` | 3 files (one outside ./cfg), 2 modules, 3 offers, 3 synchronisations, memory of 2 records, list of 1 set, 2 power cuts, 1 full disk, 1 lost package, 1 UPDATEFILE | flash, rows, memory and module.ini agree, SYNCFIN is true, synchronisations end |
| `calibration` | VCOM 2 to 16; some 2400 pairs of curve and initial VCOM with one search; 12 scenarios where up to 2 searches, 3 commands and 2 power switches meet | the search finds valleys, ends and stays in range, the server thread comes back, burns are held |

What the properties say, in the order of the runs:

- *Thread pool.* `FifoExactlyOnce`: an accepted job is queued or was popped once, in
  order. `NoLostWakeup`: no worker sleeps on a job, no adder on room, no destroyer on an
  empty list. `NoUseAfterFree`: at `free` only an adder can still be inside, and none if
  the destroyer is the only thread that adds. `AcceptedJobsRun`, `DestroyReturns`.
- *Queue.* `Accounting`: each semaphore counts its list up to the threads between
  the two. `NodeConservation`: a node is in one place. `SendersProgress` (a sender that
  waits gets through, unless oversized messages have eaten all permits),
  `SentIsReceived`.
- *Apartment.* `NoDeadFrame`, `OwnResult`, `FreeAfterCall`, `CallsReturn`.
- *Box.* `ConnectedIsConsistent`, `GateOpensAgain`, `FirmwareIntact`,
  `VersionAnswered`, `UpgradeReturns`, `QueueDrains`.
- *Power.* `LoneSwitchAgrees`, `FaultShutsDown`; `SuccessMeansOn` is violated.
- *Framing.* `RingHoldsStream`, `AllDelivered`; `UndamagedIntact`: a command none
  of whose packages was lost is rebuilt right, whatever else lies in the shared
  list; `TornTakesDamage`: the list breaks only after the command that is taken out and
  one that stays have lost packages, three commands when messages have at most two
  packages (it does break then, in this run); `RoomWhileInSync`.
- *Link.* `OnlyForgottenLeak`: what leaks was overwritten by guard or heartbeat;
  `WatchedIsLeft`: a dead connection is left; `AllConnectionsEnd` is violated.
- *Files.* `RecordsTrue`: a row of local.db, or a record in memory, differs from the
  flash only for a file a fault caught or that is being stored. `MemIsTail`: the list
  in memory is the end of the table, as a restart would load it, also after it
  overflowed. `FinishedMeansPresent`: at SYNCFIN each file of the set is on the flash
  in the version offered. `ModuleIsSynced`: module.ini names only a module whose
  synchronisation was reported finished. `AnswerFindsSet`: SENDFILE uses a NULL pointer
  only after a lost package or UPDATEFILE. `SyncEnds`.
- *Calibration.* `ValleyFound`: a FLICKOVER after an undisturbed search reports the
  bottom of the valley (or a value good enough), its flicker, and the chip shows it.
  A `Valley` falls by enough towards its bottom that no step jumps it, and where the
  probe gives no value somewhere the range is at most 50 wide: ten measurements without
  a value end a search, and on its way there and back each is a step of ten.
  `SearchesBounded`: aims stay in the range, and each step turns (at most five times)
  or has less way left, whatever the probe answers. `StopReturns`: the server thread
  that joins a search goes on, unless two tasks raced to make the semaphores.
  `OkMeansHeld`: a burn reported as done is in the OTP memory, but for four excuses
  (section 6).

Why the bounds are enough. *Pool*: a list of two has the empty, full and middle state,
two workers can take in both orders, two callers reach every pair of add/destroy, four
jobs fill the list twice. *Queue*: two nodes give an empty, half and full list; with one
of four messages too large a permit is lost while others are in use; two threads per
side race on each semaphore. *Apartment*: two calls can wait while a third thread posts
through a full queue. *Box*: three keys reach every layer and leave it (home, ok,
up/down/power), and with the panel on a fourth selects a module and loads it; each
outside event can fall between any two steps, and a synchronisation may remove all files
and bring back none, one or both; for the liveness run the modules do not matter, since
keys differ for the locks only in whether they send a frame. *Power*: two switches are
the least that overlap, and one may fail while the other is announced; a fault and heat
switch off by threads of their own, so each is combined with the two switches, and both
with one; the theorem of section 5 removes the bounds. *Framing*: the FIFO is hardly
larger than a package and a chunk, so it wraps at every index; three commands are what
the unlink bug needs. *Link*: two descriptors are one per direction, and running out of
them is reached (`ServAccept` fails); with three and two departures the stale heartbeat
meets a new connection. *Files*: two records in memory overflow with three files, a list
of one set makes every abandoned set push, two cuts fall into one synchronisation and
its repetition, one BODY per file is lost, doubled or whole. *Calibration*: a range of
15 VCOMs holds the longest step (10) with room on both sides, so all four steps, both
ends and five turns are reached; the curves have their bottom everywhere but at the
ends, with flanks as steep as `Valley` allows and, for the failing outcomes, steeper;
two searches are what the race of the semaphores needs.

`SYMMETRY` is used only in `pack`, over the commands, which no definition
tells apart, and no temporal property is checked there.

## 4. Fairness

Threads are scheduled: weak fairness of each thread's own steps, and of nothing
the outside does (no caller must submit, no key be pressed, no PC appear).

- *Pool*: each worker, and each caller inside a call. Spurious wakeups happen but
  are not assumed.
- *Queue*: each thread. Receivers ask again, as `ApartmentThread` does. `sem_wait`
  promises no order among waiters, so no strong fairness: `SendersProgress`
  holds because the messages of the instance are finite, that is, for a sender
  whose competitors pause.
- *Apartment*: the thread and each caller inside a call; handlers return.
- *Box*: each thread; strong fairness of the receiver's `PostKey` only. It competes
  for room in the queue with the version task, which sleeps two seconds between
  its messages, so room comes to the receiver time and again.
- *Power*: each thread inside a call and the watching threads; polls are answered.
- *Link*: each thread; heartbeat and guard come once a second; TCP gives up on
  data nobody acknowledges (`Abort`).
- *Files*: the server thread and the PC's answers to requests. The PC need not begin
  anything, the power need not return.
- *Calibration*: the server thread inside a command, each task and each worker;
  `sem_wait` has one waiter, so weak fairness is enough. No command need be sent.

The framing, the navigation of the box and the two runs that end in a violation check
safety only.

## 5. Proofs

The theorems hold for every value of the constants that the named assumptions
allow. Each rests on one inductive invariant `I`: `Init => I`,
`I /\ [Next]_vars => I'`, and `I` implies the property.

- `ThreadPoolProofs`: `TypeCorrect`, `QueueIsFifo` (`FifoExactlyOnce`),
  `WakeupsSuffice` (`NoLostWakeup`), `FreedAfterUse` (`NoUseAfterFree`),
  `PoolIsService` (`ImplementsJobService`), in three layers. `QueueInv` adds to the
  first three that a caller that is adding and a worker that is running hold a job,
  that a draining destroyer has closed the list, and that one past its test has set
  `pool_close` on an empty list: without the last, freeing the list could take
  accepted jobs with it. `FreeInv` adds that `queue_close` lets one destroyer in at a
  time, and that at the join no adder sleeps. `ServiceInv` adds that a job is with one
  caller, or logged once, and with one worker: so that a start of the service is a new
  job and a finish ends just one. Appending, taking, the return of the callback,
  closing and freeing are then steps of the service and the rest stutters.
- `MsOSQueueProofs`: `TypeCorrect`, `SemaphoresCount` (`Accounting`),
  `PermitFindsNode` (`PermitMeansNode`), `NodesAreConserved` (`NodeConservation`),
  `QueueIsChannel` (`ImplementsChannel`). `Carrying` says that a thread past its
  claim owns a node; `CountDelta`, on cardinalities, that when one thread moves each
  count of threads changes by at most one, as the places say. `NodeInv` adds
  `Conserved`, the conservation of nodes over any two lists and hands, with the lemmas
  `Take` and `Lay` that a step which moves one node keeps it. `Link` is then a put:
  the channel has room because a node is in the sender's hands (`RoomLeft`), and
  writing a message is invisible because its node is not on the used list.
- `ApartmentProofs`: `TypeCorrect`, `FramesOutliveAnswers` (`NoDeadFrame`),
  `ResultsAreOwn` (`OwnResult`), `BuffersMayBeFreed` (`FreeAfterCall`). The
  invariant follows a call: a blocking message in flight belongs to a caller that
  waits with an unreleased semaphore (`Waiting`), a message is in flight once
  (`Once`), and a released semaphore means handler done, result stored, message
  gone (`Stored`).
- `PanelPowerProofs`: `TypeCorrect`, `LoneSwitchSettles` (`LoneSwitchAgrees`). For
  any number of calls and callers. `Progress` says how far a call that is alone
  has come, `Lone` that all others are outside, `Quiet` carries the agreement
  through calls that switch nothing.
- `BoxProofs`: `TypeCorrect`, `FirmwareIsIntact` (`FirmwareIntact`), `KeysAreLetIn`
  (`GateOpensAgain`), `ConnectedBoxIsConsistent` (`ConnectedIsConsistent`). `LineInv`:
  the lock of the line is held exactly while firmware is sent. `UpgradeInv`: a call for an
  upgrade is in the queue or in the apartment's hands once, and only while the TCP
  thread waits. `CountInv`: images written, calls under way and calls still possible
  add up, so the version read is one that was on the box. `ConnInv` says for each
  place of a handler what holds of a box that is still connected: what the handler
  has written so far is the selected module and what HOME_KEY has read is still in
  module.ini (`Written`), the files that were listed are still there and the entry looked
  up has their number of patterns (`Fresh`), the module in module.ini is loaded or was
  missed outside `load_cur_module` (`CfgLoaded`). A reset in between makes these vacuous,
  and only HOME_KEY, in the same apartment, connects again. That a look up or a load which
  creates a file changes no content (`OpenedFacts`, `LookUpFacts`, `InstallFacts`) is
  proved first.
- `ConnectionProofs`, of `PackSocket`: `StreamIsKept` (`RingHoldsStream`), `ChunksFit`
  (`RoomWhileInSync`), for every size of FIFO, chunk and package within
  `LengthAssumption`, with damage and disconnections. `Indices` and `Packages` type
  what the FIFO needs, `NoneAhead` says no slot is newer than what was received,
  `Remainder` that parsing stops with less than the package at the read index.
- The same module, of the messages: `MessagesIntact` (`UndamagedIntact`),
  `TearingTakesDamage` (`TornTakesDamage`), `EverythingDelivered` (`AllDelivered`), and
  `FramingTypes` (`PackTypeOK`). `StreamInv` says that packages follow one another
  without overlap and that an unbroken one lies in the FIFO without a gap, as far as it
  was received, although broken ones around it left gaps: so whatever a broken package
  swallows belongs to a command that counts as damaged (`TakesOne`, `HeadFirst`).
  `FragInv` looks at packages and list nodes alike, as fragments in one order of places,
  and at the sound ones, whose command lost nothing: they are in the order of sending
  (`InOrder`), with one the earlier ones of its message are there (`NoneMissing`), and
  the later ones come before any fragment of another command that is behind it, or the
  PC is still sending them (`RestFollows`). Most steps only take fragments away, of
  damaged commands or of whole messages (`Thins`), and `ThinKeeps` is proved once for
  them. `Joins` then shows that a package of a sound command completes what its list
  holds to the parts 0 to its own, and `Overtaken` that a node which a later one of
  another command has overtaken is of a damaged command: two of those, and the package
  at hand, are what a torn list takes. For `AllDelivered` two parts hold only as long as
  nothing is damaged: `Tiled` (every byte belongs to a package, so a dropped chunk
  damages one) and `Numbered` (the i-th message returned is the i-th that was sent, and
  each that was sent later has a fragment somewhere or is being sent).
- `ConnectionProofs`, of `Link`: `TypeCorrect`, `LeaksAreForgotten`
  (`OnlyForgottenLeak`). The kernel
  gives a closed number to the next connection, so a stale number may name one of the
  other thread. `Kept` therefore follows a connection by the thread that opened it: while
  open it is in that thread's variable, with the thread where it will close it, or it
  was overwritten. Whoever else shuts it down leaves it open.
- `FileSyncProofs`: `TypeCorrect`, `RecordsCorrect` (`RecordsTrue`), `MemoryIsTableEnd`
  (`MemIsTail`), for any number of files, synchronisations and faults. `RecordInv` adds
  that a set the thread stores for has a current file, that this file, once written,
  is on the flash or suspect, and that no two rows and no two records in memory have the
  same name: without the last, an update would change the first and leave another.
  `EndOf` says at which row each record in memory stands, and that one which differs
  from its row is suspect (its UPDATE was refused).
- The same module, for one synchronisation at a time (`MaxOpen = 1`, see `FileSync` in
  section 2): `NamedModuleIsSynced` (`ModuleIsSynced`), `AnswersFindTheirSet`
  (`AnswerFindsSet`) and, when no offer holds a file in two versions (`OffersAgree`),
  `FinishedFilesPresent` (`FinishedMeansPresent`). All rest on `Serial`: what is on the
  way, asked for or at work belongs to the one synchronisation the PC waits for and is
  in one of the three places, so no answer meets a set that is gone. `NameInv` gives its
  set the current module's name, `Passed` says that the files of the set before the
  current one are present, `Fits` that a BODY comes when the set has a buffer.
- `CalibrationProofs`: `SearchesStayBounded` (`SearchesBounded`), for every range with
  room for the longest step, every curve and every stream of answers, with any
  number of searches that share the probe. `AimedInRange`, `AimedSound` and
  `JudgedSound` are the facts about the two halves of `z_auto_flick_2`, proved without
  the threads around; `SearchInv` says which of them a search is in, and that the
  worker alone changes its search.
- The same module: `BurnIsHeld` (`OkMeansHeld`). A burn that counts as undisturbed
  began when no search was running; that none runs to its end is `Paired`, a count of
  permits: starts and ends posted, and workers at work, are together no more than the
  tasks that wait. `BurnInv` then follows the locals of the handler against registers
  and OTP memory.
- The same module: `ValleyIsFound` (`ValleyFound`), for every curve that is a `Valley`
  and every initial VCOM that is no end of the range. `OnWay` says where a search stands
  whose readings are the curve's: on the way out (`Out`), coming back to the bottom
  after one turn (`Back`), or turned again at a bottom next to the lower end (`Again`);
  `Out` and `Back` count ten VCOMs for each measurement without a value. `AimedOnWay`
  and `JudgedOnWay` show that both halves of `z_auto_flick_2` keep it, `CalmInv` carries
  it through the threads: while nothing else touches panel and probe, one task lives
  (`Undivided`), its worker shows the VCOMs it aims at (`Course`), and what it found
  stays on the chip until it is reported (`Result`).

Only model-checked: all liveness, which needs fairness and ENABLED. Every invariant
that a passing run checks is the subject of a theorem.

## 6. Findings

1. `panel_success` / `SuccessMeansOn` (clipg.c:790): switching on a module whose
   directory is missing prints an error where the comment says to notify box and
   PC, falls through and announces success to both.
2. `link_break` / `AllConnectionsEnd` (client.c:634): a heartbeat whose send failed
   on an older value overwrites `send_fd` after `client_connect` stored a new
   connection; the guard no longer ends that connection and `client_connect`
   stays blocked in its `recv`.

Comments the code outlived: clirecvcmd5srv.c:415 says of COMPLETESYNC that the cfg
files are not removed, the code removes them (line 454); `OnlyForgottenLeak` bounds the
leak of "close all connect" (client.c:1053), whose `close()` is commented out: two
descriptors per broken link.

Behaviour the models have that no text of the repository denies, so that no
property refutes it: an overlapping on and off leave the rails on and unwatched;
a poll asked just after a switch-off reports an under-voltage and switches off
again; an adder asleep on `queue_not_full` locks the mutex of a freed pool (in
the program the thread that destroys is the only one that adds); a sequence of
oversized messages blocks a queue for good; after a disconnection in mid-package
the FIFO may never find a header again; `server_start` may block for ever on a
dead connection when the PC is back within five seconds; the answer to a version
question from before an upgrade may be kept as the new version; `OK_KEY` may
write the module of a synchronisation in progress to module.ini; a chunk that does not
fit the FIFO takes packages of other commands with it.

Of the box: HOME_KEY pressed after COMPLETESYNC removed the files connects it to a
module that is not in the list (box.c:651 has no else), in no layer, where keys other
than POWER do nothing until the next reset; when a reset falls between the list and its
look up, the layer may even be an old one. `ConnectedIsConsistent` therefore speaks of
modules in the list. `load_cur_module` reads module.ini and loads later: when OK_KEY
and the end of a synchronisation overlap, the older name may be loaded last, and on a
missing file the module before stays loaded, while box and module.ini have moved on; the
property excuses both by `missed`, and with it what is browsed until the next load. To
look up a module whose file was removed creates an empty one, which the next HOME_KEY
lists.

Of the files: a power cut inside COMPLETESYNC leaves records of files that are gone,
and those files are then taken for known and never fetched; a file on a full disk is
recorded as complete; an OVER with bytes missing stores nothing, asks for nothing, and
the synchronisation never ends; UPDATEFILE asks for a file whose set nobody can find,
and its answer uses a NULL pointer; a set pushed out of the list is never freed.

Of the calibration: a curve narrower than the steps may end in a VCOM that is no
minimum; a search that only met invalid readings writes VCOM 0 and reports it as a
success; a FLICKOVER after a failed check reports the VCOM of an earlier search; to
stop a search is to wait for it, `stopFlickFlag` is never read; each AUTOFLICK forgets
the task before; two AUTOFLICKs at once may both make the semaphores. `OkMeansHeld`
excuses what the code does report as done without the chip holding it: an
all-zero gamma table (a power switch wiped the manager's copy), VCOM 0 on a chip that
does not answer (read as 0, "data same"), a module without a file (the check reads the
registers just written), and a VCOM burnt with gamma while a search is running (the
search may write its own).

## 7. What is not modelled

Left out because there is no state to get wrong beyond what hardware does: the
buses, the register sequences of the chips and bridges, the FPGA, the clock.
Left out as plain readers: configuration, XML, JSON, the SQL of pgDB. Left out
as unused: event groups, MES, download stubs, `MsOS_DestroyApartment`,
`MsOS_PeekFromQueue`, `client_destory`, `box_autoFlick`, `lcd_deviceRemove`,
`localDBDelete`. Most of the repository by size is of this kind: character and
register tables, vendored headers, the console of main.c and reading of
configuration field by field; a model of them would repeat them.

Within the modelled parts: wording and layout of frames and JSON, the contents of
files, sync.ini, the limits of the single rails, sleeps (all orders are possible),
failures of `pthread_create` and of memory except where the code has a path for them
(`AddRefused`), channels other than the first, chips without a burn of their own, and
data races on the pattern list of the module (pgDB.c:103), whose outcome is undefined.

Worth a model and not written: the escaping of frames and the ring buffer of the serial
line (comUart.c, ringBufApi.cpp), the checks of the rails with their widths
(`power_check_item`), the walk of the timers' list under its semaphore, and two
synchronisations at the same time.

## 8. Order of the work

The modules were written, and are best read, in this order: `ThreadPool` with
`JobService`, `MsOSQueue` with `MsgChannel`, `Apartment`, `BoxDevice`, `PanelPower`,
`PackSocket`, `Link`, `FileSync`, `FlickSearch`, `Calibration`, each followed by its
proofs.
