------------------------------ MODULE FileSync ------------------------------
(* File synchronisation with the PC: SYNCFILE, COMPLETESYNC, SENDFILE and    *)
(* UPDATEFILE of msgProc (clirecvcmd5srv.c), client_pg_syncFile (clipg.c),   *)
(* the list of file sets (client.c), the records of local.db and their copy  *)
(* in memory (pgLocalDB.c over loop.c) and module.ini (rwini.c).             *)
(* Everything here runs on the server thread, one command at a time. A       *)
(* handler is cut where it writes to flash, because the power may go there.  *)
EXTENDS Naturals, SequencesExt

CONSTANTS
  Files, Versions,  \* a version stands for the size and the time of a file
  InCfg,            \* the files under ./cfg, which COMPLETESYNC removes
  Modules,
  Offers,           \* what the PC may offer: records [mod, files]
  MemMax,           \* records the list in memory holds (MAX_FILES_NUM - 1)
  SetMax,           \* sets the list of sets holds (10 - 1)
  Chunks,           \* BODY packages of a file
  MaxOpen,          \* synchronisations the PC keeps open at a time
  MaxSyncs,         \* bound on synchronisations and UPDATEFILEs
  MaxCuts, MaxLost, MaxFull, MaxUpdates, \* bounds on the faults
  Absent, Torn,     \* no such file; a file of which only a part is there
  NoModule

Entry == [name : Files, ver : Versions]
Ids == 1 .. MaxSyncs
NoOffer == [mod |-> NoModule, files |-> <<>>]
NewSet(o) == [mod |-> o.mod, files |-> o.files, cur |-> 1, got |-> 0, buffer |-> FALSE]
Nil == NewSet(NoOffer)
FileSet == [mod : Modules \cup {NoModule}, files : Seq(Entry),
            cur : Nat \ {0}, got : Nat, buffer : BOOLEAN]
Message == [cmd : {"SYNCFILE", "COMPLETESYNC", "UPDATEFILE", "BEGIN", "BODY", "OVER"},
            id : Ids, offer : Offers \cup {NoOffer}]

ASSUME FileSyncAssumption ==
  /\ InCfg \subseteq Files
  /\ \A o \in Offers : o.mod \in Modules /\ o.files \in Seq(Entry)
  /\ MemMax \in Nat \ {0} /\ SetMax \in Nat \ {0} /\ Chunks \in Nat \ {0}
  /\ MaxOpen \in Nat /\ MaxSyncs \in Nat /\ MaxCuts \in Nat
  /\ MaxLost \in Nat /\ MaxFull \in Nat /\ MaxUpdates \in Nat
  /\ Absent \notin Versions /\ Torn \notin Versions /\ Absent # Torn
  /\ NoModule \notin Modules /\ Torn \notin Modules /\ NoModule # Torn

VARIABLES
  disk,     \* flash: what the file holds
  table,    \* flash: the rows of local.db, in the order of their insertion
  modIni,   \* flash: the module module.ini names
  mem,      \* local_file_set: the records in memory
  curName,  \* curModuleName
  list,     \* s_recv_file_list: which sets are in it
  heap,     \* the set of the n-th synchronisation; Nil: none, or freed
  place,    \* where the server thread is
  job,      \* the set it works on, 0: none
  wire,     \* what the PC sent and the server thread has not taken yet
  asks,     \* requests for files the PC has not answered yet
  open,     \* the synchronisations the PC waits for
  suspect,  \* ghost: files a fault caught while they were written or removed
  spoilt,   \* ghost: synchronisations that lost a package
  finished, \* ghost: modules whose synchronisation was reported finished
  used      \* how often what is bounded has happened

durable == <<disk, table, modIni>>
memory == <<mem, curName, list, heap>>
pc == <<wire, asks, open>>
ghosts == <<suspect, spoilt, finished>>
vars == <<durable, memory, place, job, pc, ghosts, used>>

-----------------------------------------------------------------------------
\* Mutant: a full list drops the new item.
PushDropsNew(l, x, max) == IF Len(l) < max THEN Append(l, x) ELSE l

\* loop_push_to_tail: a full list forgets its oldest item.
Push(l, x, max) == Append(IF Len(l) < max THEN l ELSE Tail(l), x)

\* What pushing all of l leaves in an empty list.
LastOf(l, max) ==
  IF Len(l) <= max THEN l ELSE SubSeq(l, Len(l) - max + 1, Len(l))

\* loop_search: i is the place of the first record of a name, 0 if there is none.
First(l, f, i) ==
  /\ \A j \in 1 .. Len(l) : l[j].name = f => i # 0 /\ i <= j
  /\ i # 0 => l[i].name = f

\* Mutant: only the name is compared.
KnownByName(e) == \E i \in 1 .. Len(mem) : First(mem, e.name, i)

\* find_file_from_local_db: the record in memory has this time and size.
Known(e) ==
  \E i \in 1 .. Len(mem) : First(mem, e.name, i) /\ mem[i].ver = e.ver

\* get_cur_file_info
HasFile(s) == s.cur <= Len(s.files)
CurFile == heap[job].files[heap[job].cur]

\* SENDFILE can go on with set n: recv_file_list_get finds it, and a file of it.
Ready(n) == n \in ToSet(list) /\ HasFile(heap[n])

TypeOK ==
  /\ disk \in [Files -> Versions \cup {Absent, Torn}]
  /\ table \in Seq(Entry) /\ mem \in Seq(Entry)
  /\ modIni \in Modules \cup {NoModule, Torn}
  /\ curName \in Modules \cup {NoModule}
  /\ list \in Seq(Ids)
  /\ heap \in [Ids -> FileSet]
  /\ place \in {"idle", "remove", "forget", "next", "write", "record",
                "finish", "name", "off", "crashed"}
  /\ job \in Ids \cup {0}
  /\ wire \in Seq(Message)
  /\ asks \in Seq(Ids)
  /\ open \subseteq Ids /\ spoilt \subseteq Ids
  /\ suspect \subseteq Files /\ finished \subseteq Modules \cup {NoModule}
  /\ used \in [{"sync", "cut", "lost", "full", "update"} -> Nat]

Init ==
  /\ disk = [f \in Files |-> Absent] /\ table = <<>> /\ modIni = NoModule
  /\ mem = <<>> /\ curName = NoModule /\ list = <<>> /\ heap = [n \in Ids |-> Nil]
  /\ place = "idle" /\ job = 0
  /\ wire = <<>> /\ asks = <<>> /\ open = {}
  /\ suspect = {} /\ spoilt = {} /\ finished = {}
  /\ used = [k \in {"sync", "cut", "lost", "full", "update"} |-> 0]

\* The program is gone, and its memory with it.
MemoryLost ==
  /\ mem' = <<>> /\ curName' = NoModule
  /\ list' = <<>> /\ heap' = [n \in Ids |-> Nil]

Spend(k) == used' = [used EXCEPT ![k] = @ + 1]

-----------------------------------------------------------------------------
(* The PC. It serves whatever file it is asked for, in the order of the      *)
(* requests, by BEGIN, the parts and OVER with the number of the set.        *)
Send(cmd, n, o) == [cmd |-> cmd, id |-> n, offer |-> o]

PcBegin ==
  /\ place \notin {"off", "crashed"}
  /\ used.sync < MaxSyncs /\ Cardinality(open) < MaxOpen
  /\ Spend("sync")
  /\ LET n == used.sync + 1 IN
     /\ \E o \in Offers, c \in {"SYNCFILE", "COMPLETESYNC"} :
           wire' = Append(wire, Send(c, n, o))
     /\ open' = open \cup {n}
  /\ UNCHANGED <<durable, memory, place, job, asks, ghosts>>

PcUpdate ==
  /\ place \notin {"off", "crashed"}
  /\ used.update < MaxUpdates /\ used.sync < MaxSyncs /\ open = {}
  /\ used' = [used EXCEPT !.update = @ + 1, !.sync = @ + 1]
  /\ wire' = Append(wire, Send("UPDATEFILE", used.sync + 1, NoOffer))
  /\ open' = open \cup {used.sync + 1}
  /\ UNCHANGED <<durable, memory, place, job, asks, ghosts>>

PcAnswer ==
  /\ asks # <<>>
  /\ LET n == Head(asks) IN
     wire' = wire \o <<Send("BEGIN", n, NoOffer)>>
                  \o [i \in 1 .. Chunks |-> Send("BODY", n, NoOffer)]
                  \o <<Send("OVER", n, NoOffer)>>
  /\ asks' = Tail(asks)
  /\ UNCHANGED <<durable, memory, place, job, open, ghosts, used>>

\* The link breaks: what was on the way is gone, the PC starts afresh. The
\* server thread notices between two commands.
PcLeave ==
  /\ open # {} /\ place = "idle"
  /\ wire' = <<>> /\ asks' = <<>> /\ open' = {}
  /\ UNCHANGED <<durable, memory, place, job, ghosts, used>>

\* A package that does not fit the FIFO or has a wrong crc is dropped.
LosePackage ==
  /\ used.lost < MaxLost
  /\ \E i \in 1 .. Len(wire) :
        /\ wire' = RemoveAt(wire, i)
        /\ spoilt' = spoilt \cup {wire[i].id}
  /\ Spend("lost")
  /\ UNCHANGED <<durable, memory, place, job, asks, open, suspect, finished>>

-----------------------------------------------------------------------------
(* The commands, taken by the server thread.                                 *)
Msg == Head(wire)
At(c) == place = "idle" /\ wire # <<>> /\ Msg.cmd = c
Taken(c) == At(c) /\ wire' = Tail(wire)

\* Both name the module and put the new set in the list; a set pushed out of it
\* is leaked.
Enlist ==
  /\ curName' = Msg.offer.mod
  /\ list' = Push(list, Msg.id, SetMax)
  /\ heap' = [n \in Ids |-> IF n = Msg.id THEN NewSet(Msg.offer)
                           ELSE IF n \in ToSet(list') THEN heap[n] ELSE Nil]
  /\ job' = Msg.id

\* Mutant: module.ini is written when the synchronisation begins.
SyncFileNames ==
  /\ Taken("SYNCFILE") /\ place' = "next" /\ Enlist
  /\ modIni' = Msg.offer.mod
  /\ UNCHANGED <<disk, table, mem, asks, open, ghosts, used>>

\* SYNCFILE (the panel, switched off first, is PanelPower's)
SyncFile ==
  /\ Taken("SYNCFILE") /\ place' = "next" /\ Enlist
  /\ UNCHANGED <<durable, mem, asks, open, ghosts, used>>

\* COMPLETESYNC: the files and the records go before the first file is asked for.
CompleteSync ==
  /\ Taken("COMPLETESYNC") /\ place' = "remove" /\ Enlist
  /\ UNCHANGED <<durable, mem, asks, open, ghosts, used>>

\* Mutant: the files go, their records stay.
RemoveCfgOnly ==
  /\ place = "remove"
  /\ disk' = [f \in Files |-> IF f \in InCfg THEN Absent ELSE disk[f]]
  /\ place' = "next"
  /\ UNCHANGED <<table, modIni, memory, job, pc, ghosts, used>>

\* rm -rf ./cfg/*
RemoveCfg ==
  /\ place = "remove"
  /\ disk' = [f \in Files |-> IF f \in InCfg THEN Absent ELSE disk[f]]
  /\ place' = "forget"
  /\ UNCHANGED <<table, modIni, memory, job, pc, ghosts, used>>

\* localDBDelAll: the list in memory is cleared only if the table was.
DelAll ==
  /\ place = "forget" /\ place' = "next"
  /\ \/ /\ table' = <<>> /\ mem' = <<>> /\ suspect' = {} /\ UNCHANGED used
     \/ /\ used.full < MaxFull /\ Spend("full")
        /\ suspect' = suspect \cup InCfg /\ UNCHANGED <<table, mem>>
  /\ UNCHANGED <<disk, modIni, curName, list, heap, job, pc, spoilt, finished>>

\* client_getFileFromSet: ask for the next file that is not known, or the set
\* is complete: it leaves the list.
NextFile ==
  /\ place = "next"
  /\ LET s == heap[job] IN
     \E i \in s.cur .. Len(s.files) + 1 :
       /\ \A j \in s.cur .. i - 1 : Known(s.files[j])
       /\ \/ /\ i <= Len(s.files) /\ ~Known(s.files[i])
             /\ heap' = [heap EXCEPT ![job].cur = i, ![job].got = 0, ![job].buffer = FALSE]
             /\ asks' = Append(asks, job)
             /\ place' = "idle" /\ job' = 0
          \/ /\ i > Len(s.files)
             /\ place' = "finish" /\ UNCHANGED <<heap, asks, job>>
  /\ UNCHANGED <<durable, mem, curName, list, wire, open, ghosts, used>>

\* recv_file_list_del, then client_syncFinish: SYNCFIN.
Finish ==
  /\ place = "finish" /\ place' = "name"
  /\ finished' = finished \cup {heap[job].mod}
  /\ \E i \in 1 .. Len(list) :
        /\ list[i] = job /\ \A j \in 1 .. i - 1 : list[j] # job
        /\ list' = RemoveAt(list, i)
  /\ heap' = [heap EXCEPT ![job] = Nil]
  /\ open' = open \ {job}
  /\ job' = 0
  /\ UNCHANGED <<durable, mem, curName, wire, asks, suspect, spoilt, used>>

\* ... then write_cur_module_name and load_cur_module.
WriteName ==
  /\ place = "name" /\ place' = "idle"
  /\ modIni' = curName
  /\ UNCHANGED <<disk, table, memory, job, pc, ghosts, used>>

\* SENDFILE for a set that is not in the list, or BODY without a buffer: a
\* NULL pointer is used.
SendCrash ==
  /\ \E c \in {"BEGIN", "BODY", "OVER"} : At(c)
  /\ Ready(Msg.id) => Msg.cmd = "BODY" /\ ~heap[Msg.id].buffer
  /\ place' = "crashed" /\ job' = 0
  /\ wire' = <<>> /\ asks' = <<>> /\ open' = {}
  /\ MemoryLost
  /\ UNCHANGED <<durable, ghosts, used>>

\* BEGIN: the buffer of the current file is allocated anew.
SendBegin ==
  /\ Taken("BEGIN") /\ Ready(Msg.id)
  /\ heap' = [heap EXCEPT ![Msg.id].got = 0, ![Msg.id].buffer = TRUE]
  /\ UNCHANGED <<durable, mem, curName, list, place, job, asks, open, ghosts, used>>

\* Mutant: a package that fills the buffer exactly is ignored.
SendBodyShort ==
  /\ Taken("BODY") /\ Ready(Msg.id) /\ heap[Msg.id].buffer
  /\ heap' = [heap EXCEPT ![Msg.id].got = IF @ + 1 < Chunks THEN @ + 1 ELSE @]
  /\ UNCHANGED <<durable, mem, curName, list, place, job, asks, open, ghosts, used>>

\* BODY: appended when it fits, else ignored.
SendBody ==
  /\ Taken("BODY") /\ Ready(Msg.id) /\ heap[Msg.id].buffer
  /\ heap' = [heap EXCEPT ![Msg.id].got = IF @ < Chunks THEN @ + 1 ELSE @]
  /\ UNCHANGED <<durable, mem, curName, list, place, job, asks, open, ghosts, used>>

\* OVER: a file with all its bytes is stored, any other is left as it is, and
\* nothing is asked for again.
SendOver ==
  /\ Taken("OVER") /\ Ready(Msg.id)
  /\ IF heap[Msg.id].got = Chunks
     THEN place' = "write" /\ job' = Msg.id
     ELSE UNCHANGED <<place, job>>
  /\ UNCHANGED <<durable, memory, asks, open, ghosts, used>>

\* client_pg_syncFile: open with O_TRUNC, write, sync. No result is looked at:
\* on a full disk a part of the file is there.
WriteFile ==
  /\ place = "write" /\ place' = "record"
  /\ LET e == CurFile IN
     \/ /\ disk' = [disk EXCEPT ![e.name] = e.ver] /\ UNCHANGED <<suspect, used>>
     \/ /\ used.full < MaxFull /\ Spend("full")
        /\ disk' = [disk EXCEPT ![e.name] = Torn]
        /\ suspect' = suspect \cup {e.name}
  /\ UNCHANGED <<table, modIni, memory, job, pc, spoilt, finished>>

\* Mutant: a record the memory has lost is added to it again.
RecordAgain(e, m, t) ==
  /\ mem' = IF m # 0 THEN [mem EXCEPT ![m] = e] ELSE Push(mem, e, MemMax)
  /\ table' = IF t # 0 THEN [table EXCEPT ![t] = e]
              ELSE IF m = 0 THEN Append(table, e) ELSE table
  /\ suspect' = IF disk[e.name] = e.ver THEN suspect \ {e.name} ELSE suspect

\* ... then the record. In memory (m # 0): it is changed, then localDBUpdate.
\* Else localDBAdd, which changes the row the memory has lost (t # 0) or adds
\* to both.
RecordDone(e, m, t) ==
  /\ mem' = IF m # 0 THEN [mem EXCEPT ![m] = e]
            ELSE IF t = 0 THEN Push(mem, e, MemMax) ELSE mem
  /\ table' = IF t # 0 THEN [table EXCEPT ![t] = e]
              ELSE IF m = 0 THEN Append(table, e) ELSE table
  /\ suspect' = IF disk[e.name] = e.ver THEN suspect \ {e.name} ELSE suspect

\* The data base fails: the memory may be ahead of the row.
RecordFails(e, m, t) ==
  /\ mem' = IF m # 0 THEN [mem EXCEPT ![m] = e] ELSE mem
  /\ suspect' = IF m # 0 \/ t # 0 THEN suspect \cup {e.name} ELSE suspect
  /\ UNCHANGED table

\* The index goes on in either case.
Record ==
  /\ place = "record" /\ place' = "next"
  /\ \E m \in 0 .. Len(mem), t \in 0 .. Len(table) :
       /\ First(mem, CurFile.name, m) /\ First(table, CurFile.name, t)
       /\ \/ RecordDone(CurFile, m, t) /\ UNCHANGED used
          \/ RecordFails(CurFile, m, t) /\ used.full < MaxFull /\ Spend("full")
  /\ heap' = [heap EXCEPT ![job].cur = @ + 1]
  /\ UNCHANGED <<disk, modIni, curName, list, job, pc, spoilt, finished>>

\* UPDATEFILE: the set it makes is never put in the list.
UpdateFile ==
  /\ Taken("UPDATEFILE")
  /\ asks' = Append(asks, Msg.id)
  /\ UNCHANGED <<durable, memory, place, job, open, ghosts, used>>

-----------------------------------------------------------------------------
(* The power. What the handler was writing may be there, in part or not.     *)
Touched ==
  CASE place \in {"write", "record"} -> {CurFile.name}
    [] place \in {"remove", "forget"} -> InCfg
    [] OTHER -> {}

Cut ==
  /\ used.cut < MaxCuts /\ Spend("cut")
  /\ place \notin {"off", "crashed"} /\ place' = "off"
  /\ disk' \in IF place = "write"
               THEN {[disk EXCEPT ![CurFile.name] = v] : v \in {disk[CurFile.name], Torn, CurFile.ver}}
               ELSE IF place = "remove"
               THEN {[f \in Files |-> IF f \in g THEN Absent ELSE disk[f]] : g \in SUBSET InCfg}
               ELSE {disk}
  /\ modIni' \in IF place = "name" THEN {modIni, Torn, curName} ELSE {modIni}
  /\ suspect' = suspect \cup Touched
  /\ wire' = <<>> /\ asks' = <<>> /\ open' = {} /\ job' = 0
  /\ MemoryLost
  /\ UNCHANGED <<table, spoilt, finished>>

\* localDBInit pushes the rows in their order, so the list ends with the last
\* ones.
Restart ==
  /\ place \in {"off", "crashed"} /\ place' = "idle"
  /\ mem' = LastOf(table, MemMax)
  /\ UNCHANGED <<durable, curName, list, heap, job, pc, ghosts, used>>

Thread ==
  \/ SyncFile \/ CompleteSync \/ RemoveCfg \/ DelAll \/ NextFile \/ Finish \/ WriteName
  \/ SendCrash \/ SendBegin \/ SendBody \/ SendOver \/ WriteFile \/ Record
  \/ UpdateFile

Next ==
  \/ PcBegin \/ PcUpdate \/ PcAnswer \/ PcLeave \/ LosePackage
  \/ Thread \/ Cut \/ Restart

Spec == Init /\ [][Next]_vars
FairSpec == Spec /\ WF_vars(Thread) /\ WF_vars(PcAnswer)

-----------------------------------------------------------------------------
(* Properties.                                                               *)

\* Files the handler has changed and whose records it has not changed yet.
Pending ==
  CASE place = "record" -> {CurFile.name}
    [] place = "forget" -> InCfg
    [] OTHER -> {}

True(l) ==
  \A i \in 1 .. Len(l) :
    disk[l[i].name] = l[i].ver \/ l[i].name \in suspect \cup Pending

\* The rows of local.db, and the records in memory, tell what is on the flash:
\* a file is written before its row, and the rows go after the files. Only a
\* file that a power cut or a full disk caught may differ from its record.
RecordsTrue == True(table) /\ True(mem)

\* The list in memory is the end of the table, as a restart would load it,
\* after any history of additions, updates, deletions and overflows: the
\* answer to "is this file new" does not depend on when the program started.
MemIsTail ==
  place \notin {"off", "crashed"} =>
    LET tail == LastOf(table, MemMax) IN
    /\ Len(mem) = Len(tail)
    /\ \A i \in 1 .. Len(mem) :
         /\ mem[i].name = tail[i].name
         /\ mem[i] = tail[i] \/ mem[i].name \in suspect

\* When SYNCFIN is sent every file of the set is on the flash in the version
\* the PC offered, whether it was fetched or found known, unless a fault
\* caught it.
FinishedMeansPresent ==
  place = "finish" =>
    \A e \in ToSet(heap[job].files) :
      disk[e.name] = e.ver \/ e.name \in suspect

\* module.ini never names a module before its synchronisation is finished,
\* when the PC runs one synchronisation at a time.
ModuleIsSynced == modIni \in finished \cup {NoModule, Torn}

\* SENDFILE uses the set it looked up without a test: the set is there, and
\* its buffer too, however many sets were given up before, unless a package
\* was lost or the PC sent UPDATEFILE.
AnswerFindsSet ==
  place = "crashed" => spoilt # {} \/ used.update > 0

\* A synchronisation ends, also with a full disk, unless it lost a package (the
\* file is then never asked for again) or the link or the power went.
SyncEnds == \A n \in Ids : n \in open ~> n \notin open \/ n \in spoilt
=============================================================================
