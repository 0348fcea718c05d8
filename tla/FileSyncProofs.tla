--------------------------- MODULE FileSyncProofs ---------------------------
(* Theorems of FileSync, for any files, offers and bounds: types, that the   *)
(* records of local.db and of the memory tell what is on the flash           *)
(* (RecordInv), and that the list in memory is the end of the table (EndOf). *)
(*                                                                           *)
(* For one synchronisation at a time (Serial): the module named is one that  *)
(* was reported finished (NameInv), its files are there then (DoneInv), and  *)
(* what the PC sends finds its set (AnswerInv).                              *)
EXTENDS FileSync, SequenceTheorems, FiniteSetTheorems, TLAPS

-----------------------------------------------------------------------------
(* Sequences.                                                                *)

\* loop_push_to_tail keeps the order: the new item comes last, the others are
\* those of the list, without the first one when it was full.
LEMMA PushFacts ==
  ASSUME NEW S, NEW l \in Seq(S), NEW x \in S, NEW max \in Nat \ {0}
  PROVE  LET p == Push(l, x, max)
             d == Len(l) + 1 - Len(p)
         IN /\ p \in Seq(S) /\ d \in {0, 1} /\ Len(p) >= 1
            /\ p[Len(p)] = x
            /\ \A i \in 1 .. Len(p) - 1 : p[i] = l[i + d]
<1>1. CASE Len(l) < max
  BY <1>1, AppendProperties DEF Push
<1>2. CASE ~(Len(l) < max)
  <2>1. l # <<>>
    BY <1>2
  <2>2. Tail(l) \in Seq(S) /\ Len(Tail(l)) = Len(l) - 1
        /\ \A i \in 1 .. Len(Tail(l)) : Tail(l)[i] = l[i + 1]
    BY <2>1, HeadTailProperties
  <2>3. Push(l, x, max) = Append(Tail(l), x)
    BY <1>2 DEF Push
  <2> QED
    BY <2>1, <2>2, <2>3, AppendProperties
<1> QED
  BY <1>1, <1>2

\* What a restart loads is an end of the table.
LEMMA LastOfFacts ==
  ASSUME NEW S, NEW l \in Seq(S), NEW max \in Nat \ {0}
  PROVE  LET p == LastOf(l, max)
             d == Len(l) - Len(p)
         IN /\ p \in Seq(S) /\ d \in Nat
            /\ Len(p) = IF Len(l) <= max THEN Len(l) ELSE max
            /\ \A i \in 1 .. Len(p) : p[i] = l[i + d]
<1>1. CASE Len(l) <= max
  BY <1>1 DEF LastOf
<1>2. CASE ~(Len(l) <= max)
  <2>1. Len(l) - max + 1 \in 1 .. Len(l) /\ Len(l) \in Nat
    BY <1>2
  <2>2. \A i \in Len(l) - max + 1 .. Len(l) : l[i] \in S
    BY <2>1
  <2>3. LastOf(l, max) = SubSeq(l, Len(l) - max + 1, Len(l))
    BY <1>2 DEF LastOf
  <2>4. /\ SubSeq(l, Len(l) - max + 1, Len(l)) \in Seq(S)
        /\ Len(SubSeq(l, Len(l) - max + 1, Len(l))) = max
        /\ \A i \in 1 .. max :
             SubSeq(l, Len(l) - max + 1, Len(l))[i] = l[Len(l) - max + 1 + i - 1]
    BY <2>1, <2>2, SubSeqProperties
  <2>5. Len(LastOf(l, max)) = max /\ LastOf(l, max) \in Seq(S)
    BY <2>3, <2>4
  <2>6. \A i \in 1 .. max : LastOf(l, max)[i] = l[i + (Len(l) - max)]
    <3> TAKE i \in 1 .. max
    <3>1. Len(l) - max + 1 + i - 1 = i + (Len(l) - max)
      BY <2>1
    <3> QED
      BY <2>3, <2>4, <3>1
  <2> HIDE DEF LastOf
  <2> QED
    BY <2>1, <2>5, <2>6
<1> QED
  BY <1>1, <1>2

LEMMA RemoveAtType ==
  ASSUME NEW S, NEW l \in Seq(S), NEW i \in 1 .. Len(l)
  PROVE  RemoveAt(l, i) \in Seq(S)
<1>1. SubSeq(l, 1, i - 1) \in Seq(S)
  BY SubSeqProperties
<1>2. SubSeq(l, i + 1, Len(l)) \in Seq(S)
  BY SubSeqProperties
<1> QED
  BY <1>1, <1>2, ConcatProperties DEF RemoveAt

\* The answer to a request is a sequence of messages.
LEMMA AnswerType ==
  ASSUME NEW n \in Ids, wire \in Seq(Message)
  PROVE  wire \o <<Send("BEGIN", n, NoOffer)>>
              \o [i \in 1 .. Chunks |-> Send("BODY", n, NoOffer)]
              \o <<Send("OVER", n, NoOffer)>> \in Seq(Message)
<1>1. \A c \in {"BEGIN", "BODY", "OVER"} : Send(c, n, NoOffer) \in Message
  BY DEF Send, Message
<1>2. <<Send("BEGIN", n, NoOffer)>> \in Seq(Message)
  BY <1>1
<1>3. [i \in 1 .. Chunks |-> Send("BODY", n, NoOffer)] \in Seq(Message)
  <2>1. [i \in 1 .. Chunks |-> Send("BODY", n, NoOffer)] \in [1 .. Chunks -> Message]
    BY <1>1
  <2> QED
    BY <2>1, SeqDef, FileSyncAssumption
<1>4. <<Send("OVER", n, NoOffer)>> \in Seq(Message)
  BY <1>1
<1>5. wire \o <<Send("BEGIN", n, NoOffer)>> \in Seq(Message)
  BY <1>2, ConcatProperties
<1>6. wire \o <<Send("BEGIN", n, NoOffer)>>
           \o [i \in 1 .. Chunks |-> Send("BODY", n, NoOffer)] \in Seq(Message)
  BY <1>3, <1>5, ConcatProperties
<1> QED
  BY <1>4, <1>6, ConcatProperties

-----------------------------------------------------------------------------
(* Types. A handler at work has a set; while it stores a file the set has a  *)
(* current one.                                                              *)
AtWork == {"remove", "forget", "next", "write", "record", "finish"}
Storing == {"write", "record"}

Control ==
  /\ place \in AtWork => job \in Ids
  /\ place \in Storing => HasFile(heap[job])

TypeInv == TypeOK /\ Control

LEMMA MsgType ==
  ASSUME TypeOK, wire # <<>>
  PROVE  Msg \in Message /\ Tail(wire) \in Seq(Message)
  BY HeadTailProperties DEF TypeOK, Msg

LEMMA CurFileType ==
  ASSUME TypeInv, place \in Storing
  PROVE  CurFile \in Entry
<1>1. job \in Ids /\ HasFile(heap[job]) /\ heap[job] \in FileSet
  BY DEF TypeInv, TypeOK, Control, Storing, AtWork
<1>2. heap[job].files \in Seq(Entry) /\ heap[job].cur \in 1 .. Len(heap[job].files)
  BY <1>1 DEF HasFile, FileSet
<1> QED
  BY <1>2, ElementOfSeq DEF CurFile

LEMMA NewSetType ==
  ASSUME NEW o \in Offers \cup {NoOffer}
  PROVE  NewSet(o) \in FileSet
<1>1. CASE o \in Offers
  BY <1>1, FileSyncAssumption DEF NewSet, FileSet
<1>2. CASE o = NoOffer
  <2>1. o.mod = NoModule /\ o.files = <<>>
    BY <1>2 DEF NoOffer
  <2>2. o.files \in Seq(Entry)
    BY <2>1, EmptySeq
  <2> QED
    BY <2>1, <2>2 DEF NewSet, FileSet
<1> QED
  BY <1>1, <1>2

LEMMA InitType == Init => TypeInv
<1> SUFFICES ASSUME Init PROVE TypeInv
  OBVIOUS
<1>1. Nil \in FileSet
  BY NewSetType DEF Nil
<1> QED
  BY <1>1, FileSyncAssumption DEF Init, TypeInv, TypeOK, Control, AtWork, Storing

LEMMA MemoryLostType ==
  ASSUME MemoryLost
  PROVE  /\ mem' \in Seq(Entry) /\ curName' \in Modules \cup {NoModule}
         /\ list' \in Seq(Ids) /\ heap' \in [Ids -> FileSet]
<1>1. Nil \in FileSet
  BY NewSetType DEF Nil
<1> QED
  BY <1>1 DEF MemoryLost

LEMMA EnlistType ==
  ASSUME TypeInv, wire # <<>>, Enlist
  PROVE  /\ curName' \in Modules \cup {NoModule} /\ job' \in Ids
         /\ list' \in Seq(Ids) /\ heap' \in [Ids -> FileSet]
<1>1. Msg \in Message
  BY MsgType DEF TypeInv
<1>2. Msg.id \in Ids /\ Msg.offer \in Offers \cup {NoOffer}
  BY <1>1 DEF Message
<1>3. Nil \in FileSet /\ NewSet(Msg.offer) \in FileSet
  BY <1>2, NewSetType DEF Nil
<1>4. list' \in Seq(Ids)
  <2>1. list \in Seq(Ids) /\ list' = Push(list, Msg.id, SetMax)
    BY DEF TypeInv, TypeOK, Enlist
  <2> QED
    BY <2>1, <1>2, PushFacts, FileSyncAssumption
<1>5. heap' \in [Ids -> FileSet]
  BY <1>2, <1>3 DEF TypeInv, TypeOK, Enlist
<1>6. Msg.offer.mod \in Modules \cup {NoModule}
  BY <1>2, FileSyncAssumption DEF NoOffer
<1> QED
  BY <1>2, <1>4, <1>5, <1>6 DEF Enlist

Counters == [{"sync", "cut", "lost", "full", "update"} -> Nat]

LEMMA CountTwoType ==
  ASSUME NEW u \in Counters
  PROVE  [u EXCEPT !.update = @ + 1, !.sync = @ + 1] \in Counters
<1>1. u["update"] + 1 \in Nat /\ u["sync"] + 1 \in Nat
  BY DEF Counters
<1> DEFINE v == [u EXCEPT !.update = @ + 1]
<1>2. v \in Counters /\ v["sync"] = u["sync"]
  BY <1>1 DEF Counters
<1>3. [v EXCEPT !.sync = u["sync"] + 1] \in Counters
  BY <1>1, <1>2 DEF Counters
<1> QED
  BY <1>2, <1>3

LEMMA GotType ==
  ASSUME NEW s \in FileSet
  PROVE  s.got \in Nat /\ s.got + 1 \in Nat
  BY DEF FileSet

LEMMA BegunType ==
  ASSUME NEW s \in FileSet
  PROVE  [s EXCEPT !.got = 0, !.buffer = TRUE] \in FileSet
  BY DEF FileSet

LEMMA NextType == TypeInv /\ [Next]_vars => TypeInv'
<1> SUFFICES ASSUME TypeInv, [Next]_vars PROVE TypeInv'
  OBVIOUS
<1> USE FileSyncAssumption DEF TypeInv, TypeOK, Control, AtWork, Storing, durable,
        memory, pc, ghosts
<1>1. CASE PcBegin
  <2>1. used.sync + 1 \in Ids
    BY <1>1 DEF PcBegin, Ids
  <2>2. \A o \in Offers, c \in {"SYNCFILE", "COMPLETESYNC"} :
           Send(c, used.sync + 1, o) \in Message
    BY <2>1 DEF Send, Message
  <2>3. wire' \in Seq(Message)
    BY <1>1, <2>2 DEF PcBegin
  <2>4. used' \in [{"sync", "cut", "lost", "full", "update"} -> Nat]
    BY <1>1 DEF PcBegin, Spend
  <2> QED
    BY <1>1, <2>1, <2>3, <2>4 DEF PcBegin, HasFile
<1>2. CASE PcUpdate
  <2>0. used.sync \in Nat /\ used.update \in Nat /\ used.sync < MaxSyncs
    BY <1>2 DEF PcUpdate
  <2>1. used.sync + 1 \in Ids
    BY <2>0 DEF Ids
  <2>2. Send("UPDATEFILE", used.sync + 1, NoOffer) \in Message
    BY <2>1 DEF Send, Message
  <2>3. wire' \in Seq(Message)
    BY <1>2, <2>2 DEF PcUpdate
  <2>4. used' \in [{"sync", "cut", "lost", "full", "update"} -> Nat]
    BY <1>2, CountTwoType DEF PcUpdate, Counters
  <2> QED
    BY <1>2, <2>1, <2>3, <2>4 DEF PcUpdate, HasFile
<1>3. CASE PcAnswer
  <2>1. Head(asks) \in Ids /\ Tail(asks) \in Seq(Ids)
    BY <1>3, HeadTailProperties DEF PcAnswer
  <2>2. wire' \in Seq(Message)
    BY <1>3, <2>1, AnswerType DEF PcAnswer
  <2> QED
    BY <1>3, <2>1, <2>2 DEF PcAnswer, HasFile
<1>4. CASE PcLeave
  BY <1>4 DEF PcLeave, HasFile
<1>5. CASE LosePackage
  <2>1. PICK i \in 1 .. Len(wire) : /\ wire' = RemoveAt(wire, i)
                                  /\ spoilt' = spoilt \cup {wire[i].id}
    BY <1>5 DEF LosePackage
  <2>2. wire' \in Seq(Message)
    BY <2>1, RemoveAtType
  <2>3. wire[i].id \in Ids
    <3>1. wire[i] \in Message
      BY ElementOfSeq
    <3> QED
      BY <3>1 DEF Message
  <2>4. used' \in [{"sync", "cut", "lost", "full", "update"} -> Nat]
    BY <1>5 DEF LosePackage, Spend
  <2> QED
    BY <1>5, <2>1, <2>2, <2>3, <2>4 DEF LosePackage, HasFile
<1>6. CASE SyncFile
  <2>1. wire # <<>> /\ wire' \in Seq(Message)
    BY <1>6, MsgType DEF SyncFile, Taken, At
  <2> QED
    BY <1>6, <2>1, EnlistType DEF SyncFile
<1>7. CASE CompleteSync
  <2>1. wire # <<>> /\ wire' \in Seq(Message)
    BY <1>7, MsgType DEF CompleteSync, Taken, At
  <2> QED
    BY <1>7, <2>1, EnlistType DEF CompleteSync
<1>8. CASE RemoveCfg
  BY <1>8 DEF RemoveCfg
<1>9. CASE DelAll
  <2>1. used' \in [{"sync", "cut", "lost", "full", "update"} -> Nat]
    BY <1>9 DEF DelAll, Spend
  <2>2. table' \in Seq(Entry) /\ mem' \in Seq(Entry)
    <3>1. <<>> \in Seq(Entry)
      BY EmptySeq
    <3>2. table' \in {table, <<>>} /\ mem' \in {mem, <<>>}
      BY <1>9 DEF DelAll
    <3> QED
      BY <3>1, <3>2
  <2>3. suspect' \subseteq Files
    BY <1>9 DEF DelAll
  <2> QED
    BY <1>9, <2>1, <2>2, <2>3 DEF DelAll
<1>10. CASE NextFile
  <2>1. heap[job] \in FileSet /\ job \in Ids
    BY <1>10 DEF NextFile
  <2>2. PICK i \in heap[job].cur .. Len(heap[job].files) + 1 :
          \/ /\ heap' = [heap EXCEPT ![job].cur = i, ![job].got = 0, ![job].buffer = FALSE]
             /\ asks' = Append(asks, job)
             /\ place' = "idle" /\ job' = 0
          \/ place' = "finish" /\ UNCHANGED <<heap, asks, job>>
    BY <1>10 DEF NextFile
  <2>3. i \in Nat \ {0}
    <3>1. heap[job].cur \in Nat \ {0} /\ Len(heap[job].files) \in Nat
      BY <2>1 DEF FileSet
    <3> QED
      BY <3>1
  <2>4. heap' \in [Ids -> FileSet]
    <3>1. [heap EXCEPT ![job].cur = i] \in [Ids -> FileSet]
      BY <2>1, <2>3 DEF FileSet
    <3>2. [heap EXCEPT ![job].cur = i, ![job].got = 0] \in [Ids -> FileSet]
      BY <2>1, <3>1 DEF FileSet
    <3>3. [heap EXCEPT ![job].cur = i, ![job].got = 0, ![job].buffer = FALSE]
            \in [Ids -> FileSet]
      BY <2>1, <3>2 DEF FileSet
    <3> QED
      BY <2>2, <3>3
  <2>5. asks' \in Seq(Ids)
    <3>1. Append(asks, job) \in Seq(Ids)
      BY <2>1, AppendProperties
    <3> QED
      BY <2>2, <3>1
  <2> QED
    BY <1>10, <2>2, <2>4, <2>5 DEF NextFile
<1>11. CASE Finish
  <2>1. job \in Ids /\ heap[job].mod \in Modules \cup {NoModule}
    BY <1>11 DEF Finish, FileSet
  <2>2. Nil \in FileSet
    BY NewSetType DEF Nil
  <2>3. list' \in Seq(Ids)
    BY <1>11, RemoveAtType DEF Finish
  <2>4. heap' \in [Ids -> FileSet]
    BY <1>11, <2>2 DEF Finish
  <2> QED
    BY <1>11, <2>1, <2>3, <2>4 DEF Finish
<1>12. CASE WriteName
  BY <1>12 DEF WriteName
<1>13. CASE SendCrash
  BY <1>13, MemoryLostType DEF SendCrash
<1>14. CASE SendBegin
  <2>1. Msg.id \in Ids /\ wire' \in Seq(Message) /\ place = "idle"
    BY <1>14, MsgType DEF SendBegin, Taken, At, Message
  <2>2. heap' \in [Ids -> FileSet]
    <3>1. heap[Msg.id] \in FileSet
      BY <2>1
    <3>2. [heap[Msg.id] EXCEPT !.got = 0, !.buffer = TRUE] \in FileSet
      BY <3>1, BegunType
    <3>3. heap' = [heap EXCEPT ![Msg.id] = [heap[Msg.id] EXCEPT !.got = 0, !.buffer = TRUE]]
      BY <1>14, <2>1 DEF SendBegin
    <3> QED
      BY <3>2, <3>3
  <2> QED
    BY <1>14, <2>1, <2>2 DEF SendBegin
<1>15. CASE SendBody
  <2>1. Msg.id \in Ids /\ wire' \in Seq(Message) /\ place = "idle"
    BY <1>15, MsgType DEF SendBody, Taken, At, Message
  <2>2. heap' \in [Ids -> FileSet]
    <3>1. heap[Msg.id] \in FileSet
      BY <2>1
    <3>2. heap[Msg.id].got + 1 \in Nat /\ heap[Msg.id].got \in Nat
      BY <3>1, GotType
    <3>3. PICK g \in Nat : heap' = [heap EXCEPT ![Msg.id].got = g]
      BY <1>15, <3>2 DEF SendBody
    <3> QED
      BY <2>1, <3>1, <3>3 DEF FileSet
  <2> QED
    BY <1>15, <2>1, <2>2 DEF SendBody
<1>16. CASE SendOver
  <2>1. Msg.id \in Ids /\ wire' \in Seq(Message) /\ place = "idle"
    BY <1>16, MsgType DEF SendOver, Taken, At, Message
  <2> QED
    BY <1>16, <2>1 DEF SendOver, Ready, HasFile
<1>17. CASE WriteFile
  <2>1. CurFile.name \in Files /\ CurFile.ver \in Versions
    BY <1>17, CurFileType DEF WriteFile, Entry
  <2>2. used' \in [{"sync", "cut", "lost", "full", "update"} -> Nat]
    BY <1>17 DEF WriteFile, Spend
  <2>3. disk' \in [Files -> Versions \cup {Absent, Torn}] /\ suspect' \subseteq Files
    BY <1>17, <2>1 DEF WriteFile
  <2> QED
    BY <1>17, <2>2, <2>3 DEF WriteFile, HasFile
<1>18. CASE Record
  <2>1. CurFile \in Entry /\ CurFile.name \in Files
    BY <1>18, CurFileType DEF Record, Entry
  <2>2. PICK m \in 0 .. Len(mem), t \in 0 .. Len(table) :
          \/ RecordDone(CurFile, m, t) /\ UNCHANGED used
          \/ RecordFails(CurFile, m, t) /\ Spend("full")
    BY <1>18 DEF Record
  <2>3. mem' \in Seq(Entry)
    <3>1. m # 0 => [mem EXCEPT ![m] = CurFile] \in Seq(Entry)
      BY <2>1, ExceptSeq
    <3>2. Push(mem, CurFile, MemMax) \in Seq(Entry)
      BY <2>1, PushFacts
    <3> QED
      BY <2>2, <3>1, <3>2 DEF RecordDone, RecordFails
  <2>4. table' \in Seq(Entry)
    <3>1. t # 0 => [table EXCEPT ![t] = CurFile] \in Seq(Entry)
      BY <2>1, ExceptSeq
    <3>2. Append(table, CurFile) \in Seq(Entry)
      BY <2>1, AppendProperties
    <3> QED
      BY <2>2, <3>1, <3>2 DEF RecordDone, RecordFails
  <2>5. suspect' \subseteq Files
    BY <2>1, <2>2 DEF RecordDone, RecordFails
  <2>6. used' \in [{"sync", "cut", "lost", "full", "update"} -> Nat]
    BY <2>2 DEF Spend
  <2>7. heap' \in [Ids -> FileSet]
    <3>1. job \in Ids /\ heap[job] \in FileSet
      BY <1>18 DEF Record
    <3>2. heap[job].cur + 1 \in Nat \ {0}
      BY <3>1 DEF FileSet
    <3>3. heap' = [heap EXCEPT ![job].cur = heap[job].cur + 1]
      BY <1>18 DEF Record
    <3> QED
      BY <3>1, <3>2, <3>3 DEF FileSet
  <2> QED
    BY <1>18, <2>3, <2>4, <2>5, <2>6, <2>7 DEF Record
<1>19. CASE UpdateFile
  <2>1. Msg.id \in Ids /\ wire' \in Seq(Message) /\ place = "idle"
    BY <1>19, MsgType DEF UpdateFile, Taken, At, Message
  <2>2. asks' \in Seq(Ids)
    BY <1>19, <2>1, AppendProperties DEF UpdateFile
  <2> QED
    BY <1>19, <2>1, <2>2 DEF UpdateFile
<1>20. CASE Cut
  <2>1. place \in Storing => CurFile.name \in Files /\ CurFile.ver \in Versions
    BY CurFileType DEF Entry
  <2>2. used' \in [{"sync", "cut", "lost", "full", "update"} -> Nat]
    BY <1>20 DEF Cut, Spend
  <2>3. disk' \in [Files -> Versions \cup {Absent, Torn}]
    BY <1>20, <2>1 DEF Cut
  <2>4. Touched \subseteq Files
    BY <2>1 DEF Touched
  <2>5. /\ mem' \in Seq(Entry) /\ curName' \in Modules \cup {NoModule}
        /\ list' \in Seq(Ids) /\ heap' \in [Ids -> FileSet]
    BY <1>20, MemoryLostType DEF Cut
  <2>6. modIni' \in Modules \cup {NoModule, Torn}
    BY <1>20 DEF Cut
  <2>7. wire' = <<>> /\ asks' = <<>> /\ wire' \in Seq(Message) /\ asks' \in Seq(Ids)
    BY <1>20, EmptySeq DEF Cut
  <2>8. /\ place' = "off" /\ job' = 0 /\ open' = {} /\ UNCHANGED <<table, spoilt, finished>>
        /\ suspect' = suspect \cup Touched
    BY <1>20 DEF Cut
  <2> QED
    BY <2>2, <2>3, <2>4, <2>5, <2>6, <2>7, <2>8
<1>21. CASE Restart
  <2>1. mem' \in Seq(Entry)
    BY <1>21, LastOfFacts DEF Restart
  <2> QED
    BY <1>21, <2>1 DEF Restart
<1>22. CASE UNCHANGED vars
  BY <1>22 DEF vars, HasFile
<1> QED
  BY <1>1, <1>2, <1>3, <1>4, <1>5, <1>6, <1>7, <1>8, <1>9, <1>10, <1>11, <1>12,
     <1>13, <1>14, <1>15, <1>16, <1>17, <1>18, <1>19, <1>20, <1>21, <1>22
  DEF Next, Thread

\* Every variable keeps its type, and a handler that stores a file has one.
THEOREM TypeCorrect == Spec => []TypeOK
<1>1. TypeInv => TypeOK
  BY DEF TypeInv
<1> QED
  BY <1>1, InitType, NextType, PTL DEF Spec

-----------------------------------------------------------------------------
(* The records. A name has one record at most, so the first one found is the *)
(* only one, and changing it leaves none of an older version.                *)
Unique(l) ==
  \A i, j \in 1 .. Len(l) : l[i].name = l[j].name => i = j

\* The records of l agree with the files d, those in s excepted.
TrueIn(l, d, s) ==
  \A i \in 1 .. Len(l) : d[l[i].name] = l[i].ver \/ l[i].name \in s

\* The file whose record is to be made is the one on the flash.
Stored ==
  place = "record" => disk[CurFile.name] = CurFile.ver \/ CurFile.name \in suspect

RecordInv ==
  /\ TypeInv /\ Stored
  /\ Unique(table) /\ Unique(mem)
  /\ TrueIn(table, disk, suspect \cup Pending)
  /\ TrueIn(mem, disk, suspect \cup Pending)

LEMMA Stays ==
  ASSUME NEW l \in Seq(Entry), NEW d, NEW s, NEW d2, NEW s2,
         s \subseteq s2, \A f \in Files : d2[f] = d[f] \/ f \in s2,
         TrueIn(l, d, s)
  PROVE  TrueIn(l, d2, s2)
<1> SUFFICES ASSUME NEW i \in 1 .. Len(l)
             PROVE  d2[l[i].name] = l[i].ver \/ l[i].name \in s2
  BY DEF TrueIn
<1>1. l[i] \in Entry
  BY ElementOfSeq
<1>2. l[i].name \in Files
  BY <1>1 DEF Entry
<1> QED
  BY <1>2 DEF TrueIn

LEMMA NoRecords ==
  ASSUME NEW d, NEW s
  PROVE  Unique(<<>>) /\ TrueIn(<<>>, d, s)
  BY DEF Unique, TrueIn

\* The record of e is replaced.
LEMMA Replaced ==
  ASSUME NEW l \in Seq(Entry), NEW e \in Entry, NEW i \in 1 .. Len(l),
         NEW d, NEW s, NEW s2,
         Unique(l), TrueIn(l, d, s), l[i].name = e.name,
         d[e.name] = e.ver \/ e.name \in s2, s \subseteq s2 \cup {e.name}
  PROVE  Unique([l EXCEPT ![i] = e]) /\ TrueIn([l EXCEPT ![i] = e], d, s2)
<1> DEFINE r == [l EXCEPT ![i] = e]
<1>1. /\ Len(r) = Len(l)
      /\ \A j \in 1 .. Len(l) : r[j] = IF j = i THEN e ELSE l[j]
  BY ExceptSeq
<1>2. \A j \in 1 .. Len(l) : r[j].name = l[j].name
  BY <1>1
<1> HIDE DEF r
<1>3. Unique(r)
  BY <1>1, <1>2 DEF Unique
<1>4. TrueIn(r, d, s2)
  <2> SUFFICES ASSUME NEW j \in 1 .. Len(r)
               PROVE  d[r[j].name] = r[j].ver \/ r[j].name \in s2
    BY DEF TrueIn
  <2>1. CASE j = i
    BY <1>1, <2>1
  <2>2. CASE j # i
    <3>1. r[j] = l[j] /\ l[j].name # e.name
      BY <1>1, <2>2 DEF Unique
    <3>2. d[l[j].name] = l[j].ver \/ l[j].name \in s
      BY <1>1 DEF TrueIn
    <3> QED
      BY <3>1, <3>2
  <2> QED
    BY <2>1, <2>2
<1> QED
  BY <1>3, <1>4 DEF r

\* No record has the name of e: it may leave the exceptions.
LEMMA NotThere ==
  ASSUME NEW l \in Seq(Entry), NEW e \in Entry, NEW d, NEW s, NEW s2,
         TrueIn(l, d, s), First(l, e.name, 0), s \subseteq s2 \cup {e.name}
  PROVE  TrueIn(l, d, s2)
  BY DEF First, TrueIn

\* A record of e is added at the end, the first one may go.
LEMMA Pushed ==
  ASSUME NEW l \in Seq(Entry), NEW e \in Entry, NEW d, NEW s,
         NEW p \in Seq(Entry), NEW k \in {0, 1},
         Len(p) = Len(l) + 1 - k, Len(p) >= 1, p[Len(p)] = e,
         \A i \in 1 .. Len(p) - 1 : p[i] = l[i + k],
         Unique(l), TrueIn(l, d, s), First(l, e.name, 0),
         d[e.name] = e.ver \/ e.name \in s
  PROVE  Unique(p) /\ TrueIn(p, d, s)
<1>1. \A i \in 1 .. Len(p) - 1 : i + k \in 1 .. Len(l)
  OBVIOUS
<1>2. \A i \in 1 .. Len(p) - 1 : p[i].name # e.name
  BY <1>1 DEF First
<1>3. Unique(p)
  <2> SUFFICES ASSUME NEW i \in 1 .. Len(p), NEW j \in 1 .. Len(p),
                      p[i].name = p[j].name
               PROVE  i = j
    BY DEF Unique
  <2>0. \A n \in 1 .. Len(p) : n # Len(p) => p[n].name # e.name
    BY <1>2
  <2>1. CASE i = Len(p) \/ j = Len(p)
    BY <2>0, <2>1
  <2>2. CASE i # Len(p) /\ j # Len(p)
    <3>1. i \in 1 .. Len(p) - 1 /\ j \in 1 .. Len(p) - 1
      BY <2>2
    <3>2. l[i + k].name = l[j + k].name
      BY <3>1
    <3> QED
      BY <1>1, <3>1, <3>2 DEF Unique
  <2> QED
    BY <2>1, <2>2
<1>4. TrueIn(p, d, s)
  <2> SUFFICES ASSUME NEW i \in 1 .. Len(p)
               PROVE  d[p[i].name] = p[i].ver \/ p[i].name \in s
    BY DEF TrueIn
  <2>1. CASE i = Len(p)
    BY <2>1
  <2>2. CASE i # Len(p)
    <3>1. i \in 1 .. Len(p) - 1
      BY <2>2
    <3> QED
      BY <1>1, <3>1 DEF TrueIn
  <2> QED
    BY <2>1, <2>2
<1> QED
  BY <1>3, <1>4

\* An end of a list keeps what the list has.
LEMMA EndOfList ==
  ASSUME NEW l \in Seq(Entry), NEW d, NEW s, Unique(l), TrueIn(l, d, s)
  PROVE  Unique(LastOf(l, MemMax)) /\ TrueIn(LastOf(l, MemMax), d, s)
<1> DEFINE p == LastOf(l, MemMax)
           k == Len(l) - Len(p)
<1>1. /\ p \in Seq(Entry) /\ k \in Nat
      /\ \A i \in 1 .. Len(p) : p[i] = l[i + k]
  BY LastOfFacts, FileSyncAssumption
<1>2. \A i \in 1 .. Len(p) : i + k \in 1 .. Len(l)
  BY <1>1
<1> HIDE DEF p, k
<1>3. Unique(p)
  <2> SUFFICES ASSUME NEW i \in 1 .. Len(p), NEW j \in 1 .. Len(p),
                      p[i].name = p[j].name
               PROVE  i = j
    BY DEF Unique
  <2>1. l[i + k].name = l[j + k].name
    BY <1>1
  <2> QED
    BY <1>1, <1>2, <2>1 DEF Unique
<1>4. TrueIn(p, d, s)
  BY <1>1, <1>2 DEF TrueIn
<1> QED
  BY <1>3, <1>4 DEF p

\* Steps that leave table and memory alone: a file that changes is an
\* exception, and no exception is forgotten.
LEMMA RecordsStay ==
  ASSUME RecordInv, TypeInv', Stored', UNCHANGED <<table, mem>>,
         suspect \cup Pending \subseteq suspect' \cup Pending',
         \A f \in Files : disk'[f] = disk[f] \/ f \in suspect' \cup Pending'
  PROVE  RecordInv'
<1>1. table \in Seq(Entry) /\ mem \in Seq(Entry)
  BY DEF RecordInv, TypeInv, TypeOK
<1>2. Unique(table') /\ Unique(mem')
  BY DEF RecordInv
<1>3. TrueIn(table, disk', suspect' \cup Pending')
  BY <1>1, Stays DEF RecordInv
<1>4. TrueIn(mem, disk', suspect' \cup Pending')
  BY <1>1, Stays DEF RecordInv
<1>5. /\ TrueIn(table', disk', suspect' \cup Pending')
      /\ TrueIn(mem', disk', suspect' \cup Pending')
  BY <1>3, <1>4
<1> QED
  BY <1>2, <1>5 DEF RecordInv, Unique, TrueIn

LEMMA RecordsForgotten ==
  ASSUME RecordInv, TypeInv', Stored', UNCHANGED table, mem' = <<>>,
         suspect \cup Pending \subseteq suspect' \cup Pending',
         \A f \in Files : disk'[f] = disk[f] \/ f \in suspect' \cup Pending'
  PROVE  RecordInv'
<1>1. table \in Seq(Entry)
  BY DEF RecordInv, TypeInv, TypeOK
<1>2. Unique(table') /\ Unique(mem')
  BY NoRecords DEF RecordInv
<1>3. TrueIn(table, disk', suspect' \cup Pending')
  BY <1>1, Stays DEF RecordInv
<1>4. TrueIn(mem', disk', suspect' \cup Pending')
  BY NoRecords
<1> QED
  BY <1>2, <1>3, <1>4 DEF RecordInv, Unique, TrueIn

\* The record of the stored file is made in the table and in the memory.
LEMMA RecordMade ==
  ASSUME RecordInv, Record, TypeInv'
  PROVE  RecordInv'
<1> DEFINE e == CurFile
           x == suspect \cup Pending
<1>1. place = "record" /\ Pending = {e.name} /\ Pending' = {} /\ disk' = disk
  BY DEF Record, Pending
<1>2. e \in Entry /\ e.name \in Files
  BY <1>1, CurFileType DEF RecordInv, Storing, Entry
<1>3. table \in Seq(Entry) /\ mem \in Seq(Entry)
  BY DEF RecordInv, TypeInv, TypeOK
<1>4. /\ Unique(table) /\ Unique(mem)
      /\ TrueIn(table, disk, x) /\ TrueIn(mem, disk, x)
  BY DEF RecordInv
<1>5. PICK m \in 0 .. Len(mem), t \in 0 .. Len(table) :
        /\ First(mem, e.name, m) /\ First(table, e.name, t)
        /\ RecordDone(e, m, t) \/ RecordFails(e, m, t)
  BY DEF Record
<1>6. x \subseteq suspect' \cup {e.name}
  BY <1>1, <1>5 DEF RecordDone, RecordFails
<1>7. e.name \in suspect' \/ disk[e.name] = e.ver
  BY <1>1, <1>5 DEF RecordInv, Stored, RecordDone, RecordFails
<1>8. Unique(mem') /\ TrueIn(mem', disk, suspect')
  <2>1. CASE m # 0
    <3>1. mem' = [mem EXCEPT ![m] = e] /\ m \in 1 .. Len(mem) /\ mem[m].name = e.name
      BY <1>5, <2>1 DEF RecordDone, RecordFails, First
    <3> QED
      BY <1>2, <1>3, <1>4, <1>6, <1>7, <3>1, Replaced
  <2>2. CASE m = 0 /\ mem' = mem
    BY <1>2, <1>3, <1>4, <1>5, <1>6, <2>2, NotThere
  <2>3. CASE m = 0 /\ mem' = Push(mem, e, MemMax)
    <3>1. TrueIn(mem, disk, suspect') /\ First(mem, e.name, 0)
      BY <1>2, <1>3, <1>4, <1>5, <1>6, <2>3, NotThere
    <3> DEFINE p == Push(mem, e, MemMax)
               k == Len(mem) + 1 - Len(p)
    <3>2. /\ p \in Seq(Entry) /\ k \in {0, 1} /\ Len(p) >= 1 /\ p[Len(p)] = e
          /\ \A i \in 1 .. Len(p) - 1 : p[i] = mem[i + k]
      BY <1>2, <1>3, PushFacts, FileSyncAssumption
    <3> HIDE DEF p
    <3>3. Len(p) = Len(mem) + 1 - k
      BY <1>3, <3>2
    <3> HIDE DEF k
    <3>4. Unique(p) /\ TrueIn(p, disk, suspect')
      BY <1>2, <1>3, <1>4, <1>7, <3>1, <3>2, <3>3, Pushed
    <3> QED
      BY <2>3, <3>4 DEF p
  <2> QED
    BY <1>5, <2>1, <2>2, <2>3 DEF RecordDone, RecordFails
<1>9. Unique(table') /\ TrueIn(table', disk, suspect')
  <2>1. CASE t # 0 /\ table' = [table EXCEPT ![t] = e]
    <3>1. t \in 1 .. Len(table) /\ table[t].name = e.name
      BY <1>5, <2>1 DEF First
    <3> QED
      BY <1>2, <1>3, <1>4, <1>6, <1>7, <2>1, <3>1, Replaced
  <2>2. CASE t = 0 /\ table' = table
    BY <1>2, <1>3, <1>4, <1>5, <1>6, <2>2, NotThere
  <2>3. CASE t # 0 /\ table' = table /\ RecordFails(e, m, t)
    <3>1. x \subseteq suspect'
      BY <1>6, <2>3 DEF RecordFails
    <3> QED
      BY <1>3, <1>4, <2>3, <3>1, Stays
  <2>4. CASE t = 0 /\ table' = Append(table, e)
    <3>1. TrueIn(table, disk, suspect') /\ First(table, e.name, 0)
      BY <1>2, <1>3, <1>4, <1>5, <1>6, <2>4, NotThere
    <3> DEFINE p == Append(table, e)
    <3>2. /\ p \in Seq(Entry) /\ Len(p) = Len(table) + 1 - 0 /\ p[Len(p)] = e
          /\ \A i \in 1 .. Len(p) - 1 : p[i] = table[i + 0]
      BY <1>2, <1>3, AppendProperties
    <3>3. Len(p) >= 1
      BY <1>3, <3>2
    <3> HIDE DEF p
    <3>4. Unique(p) /\ TrueIn(p, disk, suspect')
      BY <1>2, <1>3, <1>4, <1>7, <3>1, <3>2, <3>3, Pushed
    <3> QED
      BY <2>4, <3>4 DEF p
  <2>5. \/ t # 0 /\ table' = [table EXCEPT ![t] = e]
        \/ t = 0 /\ table' = table
        \/ t # 0 /\ table' = table /\ RecordFails(e, m, t)
        \/ t = 0 /\ table' = Append(table, e)
    BY <1>5 DEF RecordDone, RecordFails
  <2> QED
    BY <2>1, <2>2, <2>3, <2>4, <2>5
<1>10. Stored' /\ suspect' \cup Pending' = suspect'
  BY <1>1 DEF Stored, Record
<1> QED
  BY <1>1, <1>8, <1>9, <1>10 DEF RecordInv, Unique, TrueIn

LEMMA RecordInit == Init => RecordInv
<1> SUFFICES ASSUME Init PROVE RecordInv
  OBVIOUS
<1>1. TypeInv /\ table = <<>> /\ mem = <<>> /\ place = "idle"
  BY InitType DEF Init
<1> QED
  BY <1>1, NoRecords DEF RecordInv, Stored

LEMMA RecordNext == RecordInv /\ [Next]_vars => RecordInv'
<1> SUFFICES ASSUME RecordInv, [Next]_vars PROVE RecordInv'
  OBVIOUS
<1>0. TypeInv /\ TypeInv' /\ Stored
  BY NextType DEF RecordInv
<1> USE DEF durable, memory, pc, ghosts
\* Nothing the records are about moves.
<1>1. CASE UNCHANGED <<disk, table, mem, suspect, place, job, heap>>
  <2>1. Pending' = Pending /\ Stored'
    BY <1>0, <1>1 DEF Pending, Stored, CurFile
  <2> QED
    BY <1>0, <1>1, <2>1, RecordsStay
\* Steps between places where no file waits for its record.
<1>2. CASE /\ UNCHANGED <<disk, table, mem, suspect>>
           /\ place \notin {"record", "forget"} /\ place' \notin {"record", "forget"}
  <2>1. Pending = {} /\ Pending' = {} /\ Stored'
    BY <1>2 DEF Pending, Stored
  <2> QED
    BY <1>0, <1>2, <2>1, RecordsStay
<1>3. CASE RemoveCfg
  <2>1. Pending = {} /\ Pending' = InCfg /\ Stored'
    BY <1>3 DEF RemoveCfg, Pending, Stored
  <2>2. \A f \in Files : disk'[f] = disk[f] \/ f \in InCfg
    BY <1>3 DEF RemoveCfg
  <2> QED
    BY <1>0, <1>3, <2>1, <2>2, RecordsStay DEF RemoveCfg
<1>4. CASE DelAll
  <2>1. Pending = InCfg /\ Pending' = {} /\ Stored' /\ disk' = disk
    BY <1>4 DEF DelAll, Pending, Stored
  <2>2. CASE table' = <<>> /\ mem' = <<>>
    <3>1. Unique(table') /\ Unique(mem')
      BY <2>2, NoRecords
    <3>2. TrueIn(table', disk', suspect' \cup Pending')
      BY <2>2, NoRecords
    <3>3. TrueIn(mem', disk', suspect' \cup Pending')
      BY <2>2, NoRecords
    <3> QED
      BY <1>0, <2>1, <3>1, <3>2, <3>3 DEF RecordInv, Unique, TrueIn
  <2>3. CASE suspect' = suspect \cup InCfg /\ UNCHANGED <<table, mem>>
    BY <1>0, <2>1, <2>3, RecordsStay
  <2> QED
    BY <1>4, <2>2, <2>3 DEF DelAll
<1>5. CASE WriteFile
  <2>1. CurFile' = CurFile /\ Pending = {} /\ Pending' = {CurFile.name}
    BY <1>5 DEF WriteFile, Pending, CurFile
  <2>2. CurFile.name \in Files
    BY <1>0, <1>5, CurFileType DEF WriteFile, Storing, Entry
  <2>3. Stored'
    BY <1>0, <1>5, <2>1, <2>2 DEF WriteFile, Stored, TypeInv, TypeOK
  <2>4. \A f \in Files : disk'[f] = disk[f] \/ f = CurFile.name
    BY <1>0, <1>5 DEF WriteFile, TypeInv, TypeOK
  <2> QED
    BY <1>0, <1>5, <2>1, <2>3, <2>4, RecordsStay DEF WriteFile
<1>6. CASE Record
  BY <1>0, <1>6, RecordMade
<1>7. CASE SendCrash
  <2>1. Pending = {} /\ Pending' = {} /\ Stored'
    BY <1>7 DEF SendCrash, At, Pending, Stored
  <2> QED
    BY <1>0, <1>7, <2>1, RecordsForgotten DEF SendCrash, MemoryLost
<1>8. CASE Cut
  <2>1. Pending' = {} /\ Stored' /\ suspect' = suspect \cup Touched
    BY <1>8 DEF Cut, Pending, Stored
  <2>2. Pending \subseteq Touched
    BY DEF Pending, Touched
  <2>3. \A f \in Files : disk'[f] = disk[f] \/ f \in Touched
    <3>1. CASE place = "write"
      BY <1>0, <1>8, <3>1 DEF Cut, Touched, TypeInv, TypeOK
    <3>2. CASE place = "remove"
      BY <1>8, <3>2 DEF Cut, Touched
    <3>3. CASE place \notin {"write", "remove"}
      BY <1>8, <3>3 DEF Cut
    <3> QED
      BY <3>1, <3>2, <3>3
  <2> QED
    BY <1>0, <1>8, <2>1, <2>2, <2>3, RecordsForgotten DEF Cut, MemoryLost
<1>9. CASE Restart
  <2>1. Pending = {} /\ Pending' = {} /\ Stored'
    BY <1>9 DEF Restart, Pending, Stored
  <2>2. table \in Seq(Entry) /\ Unique(table) /\ TrueIn(table, disk, suspect \cup Pending)
    BY <1>0 DEF RecordInv, TypeInv, TypeOK
  <2>3. Unique(LastOf(table, MemMax)) /\ TrueIn(LastOf(table, MemMax), disk, suspect \cup Pending)
    BY <2>2, EndOfList
  <2>4. UNCHANGED <<disk, table, suspect>> /\ mem' = LastOf(table, MemMax)
    BY <1>9 DEF Restart
  <2> QED
    BY <1>0, <2>1, <2>2, <2>3, <2>4 DEF RecordInv, Unique, TrueIn
<1>10. CASE PcBegin \/ PcUpdate \/ PcAnswer \/ PcLeave \/ LosePackage \/ UpdateFile
  BY <1>1, <1>10 DEF PcBegin, PcUpdate, PcAnswer, PcLeave, LosePackage, UpdateFile
<1>11. CASE SyncFile \/ CompleteSync \/ SendBegin \/ SendBody \/ SendOver
  BY <1>2, <1>11 DEF SyncFile, CompleteSync, SendBegin, SendBody, SendOver, Taken, At
<1>12. CASE NextFile \/ Finish \/ WriteName
  BY <1>2, <1>12 DEF NextFile, Finish, WriteName
<1>13. CASE UNCHANGED vars
  BY <1>1, <1>13 DEF vars
<1> QED
  BY <1>3, <1>4, <1>5, <1>6, <1>7, <1>8, <1>9, <1>10, <1>11, <1>12, <1>13
  DEF Next, Thread

\* At any moment, after any faults, a record of a file tells what the flash
\* holds, but for the files a fault caught and the one being stored.
THEOREM RecordsCorrect == Spec => []RecordsTrue
<1>1. RecordInv => RecordsTrue
  BY DEF RecordInv, RecordsTrue, True, TrueIn
<1> QED
  BY <1>1, RecordInit, RecordNext, PTL DEF Spec
-----------------------------------------------------------------------------
(* The memory and the table. The deque in memory is the end of the table as  *)
(* far as it holds records; where a fault came between the two, the name is  *)
(* the same and the file is suspect.                                         *)
EndOf(m, t, s) ==
  /\ Len(m) = IF Len(t) <= MemMax THEN Len(t) ELSE MemMax
  /\ \A i \in 1 .. Len(m) :
       LET r == t[i + (Len(t) - Len(m))] IN
       m[i].name = r.name /\ (m[i] = r \/ m[i].name \in s)

LEMMA EndLoaded ==
  ASSUME NEW t \in Seq(Entry), NEW s
  PROVE  EndOf(LastOf(t, MemMax), t, s)
<1> DEFINE p == LastOf(t, MemMax)
<1>1. /\ Len(p) = IF Len(t) <= MemMax THEN Len(t) ELSE MemMax
      /\ \A i \in 1 .. Len(p) : p[i] = t[i + (Len(t) - Len(p))]
  BY LastOfFacts, FileSyncAssumption
<1> HIDE DEF p
<1> QED
  BY <1>1 DEF EndOf, p

LEMMA EndGrows ==
  ASSUME NEW m, NEW t, NEW s, NEW s2, EndOf(m, t, s), s \subseteq s2
  PROVE  EndOf(m, t, s2)
BY DEF EndOf

\* Where the records of m stand in t.
LEMMA EndPlaces ==
  ASSUME NEW m \in Seq(Entry), NEW t \in Seq(Entry), NEW s, EndOf(m, t, s)
  PROVE  LET d == Len(t) - Len(m)
         IN  d \in Nat /\ \A i \in 1 .. Len(m) : i + d \in 1 .. Len(t)
<1>1. Len(m) \in Nat /\ Len(t) \in Nat
  OBVIOUS
<1> QED
  BY <1>1, FileSyncAssumption DEF EndOf

\* The record of e is replaced in both.
LEMMA EndReplaced ==
  ASSUME NEW m \in Seq(Entry), NEW t \in Seq(Entry), NEW e \in Entry, NEW s, NEW s2,
         EndOf(m, t, s), Unique(t), s \subseteq s2 \cup {e.name},
         NEW i \in 1 .. Len(m), NEW j \in 1 .. Len(t),
         m[i].name = e.name, t[j].name = e.name
  PROVE  EndOf([m EXCEPT ![i] = e], [t EXCEPT ![j] = e], s2)
<1> DEFINE d == Len(t) - Len(m)
           n == [m EXCEPT ![i] = e]
           u == [t EXCEPT ![j] = e]
<1>1. d \in Nat /\ \A k \in 1 .. Len(m) : k + d \in 1 .. Len(t)
  BY EndPlaces
<1>2. \A k \in 1 .. Len(m) : m[k].name = t[k + d].name
                            /\ (m[k] = t[k + d] \/ m[k].name \in s)
  BY DEF EndOf
<1>3. /\ Len(n) = Len(m) /\ Len(u) = Len(t)
      /\ \A k \in 1 .. Len(m) : n[k] = IF k = i THEN e ELSE m[k]
      /\ \A k \in 1 .. Len(t) : u[k] = IF k = j THEN e ELSE t[k]
  BY ExceptSeq
<1> HIDE DEF d, n, u
<1>4. j = i + d
  BY <1>1, <1>2 DEF Unique
<1>5. \A k \in 1 .. Len(m) : k # i => k + d # j /\ m[k].name # e.name
  BY <1>1, <1>2, <1>4 DEF Unique
<1>6. \A k \in 1 .. Len(m) : n[k].name = u[k + d].name
                            /\ (n[k] = u[k + d] \/ n[k].name \in s2)
  <2> TAKE k \in 1 .. Len(m)
  <2>1. CASE k = i
    BY <1>1, <1>3, <1>4, <2>1
  <2>2. CASE k # i
    <3>1. n[k] = m[k] /\ u[k + d] = t[k + d] /\ m[k].name # e.name
      BY <1>1, <1>3, <1>5, <2>2
    <3> QED
      BY <1>2, <3>1
  <2> QED
    BY <2>1, <2>2
<1>7. Len(n) = IF Len(u) <= MemMax THEN Len(u) ELSE MemMax
  BY <1>3 DEF EndOf
<1>8. Len(u) - Len(n) = d
  BY <1>3 DEF d
<1> QED
  BY <1>3, <1>6, <1>7, <1>8 DEF EndOf, n, u

\* The data base fails after the record in memory was changed.
LEMMA EndAhead ==
  ASSUME NEW m \in Seq(Entry), NEW t \in Seq(Entry), NEW e \in Entry, NEW s, NEW s2,
         EndOf(m, t, s), s \cup {e.name} \subseteq s2,
         NEW i \in 1 .. Len(m), m[i].name = e.name
  PROVE  EndOf([m EXCEPT ![i] = e], t, s2)
<1> DEFINE n == [m EXCEPT ![i] = e]
<1>1. Len(n) = Len(m) /\ \A k \in 1 .. Len(m) : n[k] = IF k = i THEN e ELSE m[k]
  BY ExceptSeq
<1> HIDE DEF n
<1> QED
  BY <1>1 DEF EndOf, n

\* The record of e is a row the memory has lost.
LEMMA EndHidden ==
  ASSUME NEW m \in Seq(Entry), NEW t \in Seq(Entry), NEW e \in Entry, NEW s, NEW s2,
         EndOf(m, t, s), First(m, e.name, 0), s \subseteq s2 \cup {e.name},
         NEW j \in 1 .. Len(t), t[j].name = e.name
  PROVE  EndOf(m, [t EXCEPT ![j] = e], s2)
<1> DEFINE d == Len(t) - Len(m)
           u == [t EXCEPT ![j] = e]
<1>1. d \in Nat /\ \A k \in 1 .. Len(m) : k + d \in 1 .. Len(t)
  BY EndPlaces
<1>2. Len(u) = Len(t) /\ \A k \in 1 .. Len(t) : u[k] = IF k = j THEN e ELSE t[k]
  BY ExceptSeq
<1>3. \A k \in 1 .. Len(m) : m[k].name = t[k + d].name
                            /\ (m[k] = t[k + d] \/ m[k].name \in s)
  BY DEF EndOf
<1> HIDE DEF u
<1>4. \A k \in 1 .. Len(m) : m[k].name # e.name
  BY DEF First
<1>5. \A k \in 1 .. Len(m) : u[k + d] = t[k + d]
  BY <1>1, <1>2, <1>3, <1>4
<1>6. \A k \in 1 .. Len(m) : m[k].name = u[k + d].name
                            /\ (m[k] = u[k + d] \/ m[k].name \in s2)
  BY <1>3, <1>4, <1>5
<1>7. Len(m) = IF Len(u) <= MemMax THEN Len(u) ELSE MemMax
  BY <1>2 DEF EndOf
<1> QED
  BY <1>2, <1>6, <1>7 DEF EndOf, u

\* A record of e is added to both; the memory may forget its oldest.
LEMMA EndAdded ==
  ASSUME NEW m \in Seq(Entry), NEW t \in Seq(Entry), NEW e \in Entry, NEW s, NEW s2,
         EndOf(m, t, s), First(m, e.name, 0), s \subseteq s2 \cup {e.name}
  PROVE  EndOf(Push(m, e, MemMax), Append(t, e), s2)
<1> DEFINE d == Len(t) - Len(m)
           p == Push(m, e, MemMax)
           u == Append(t, e)
<1>1. d \in Nat /\ \A k \in 1 .. Len(m) : k + d \in 1 .. Len(t)
  BY EndPlaces
<1>2. \A k \in 1 .. Len(m) : m[k].name = t[k + d].name
                            /\ (m[k] = t[k + d] \/ m[k].name \in s)
  BY DEF EndOf
<1>3. Len(u) = Len(t) + 1 /\ u[Len(t) + 1] = e /\ \A k \in 1 .. Len(t) : u[k] = t[k]
  BY AppendProperties
<1>4. /\ Len(m) + 1 - Len(p) \in {0, 1} /\ Len(p) >= 1 /\ p[Len(p)] = e /\ p \in Seq(Entry)
      /\ \A k \in 1 .. Len(p) - 1 : p[k] = m[k + (Len(m) + 1 - Len(p))]
  BY PushFacts, FileSyncAssumption
<1>5. Len(p) = IF Len(m) < MemMax THEN Len(m) + 1 ELSE Len(m)
  BY FileSyncAssumption DEF Push, EndOf
<1>6. Len(m) = IF Len(t) <= MemMax THEN Len(t) ELSE MemMax
  BY DEF EndOf
<1>7. Len(m) \in Nat /\ Len(t) \in Nat /\ Len(p) \in Nat /\ MemMax \in Nat \ {0}
  BY <1>4, FileSyncAssumption
<1>8. \A k \in 1 .. Len(m) : m[k].name # e.name
  BY DEF First
<1> HIDE DEF p, u
<1>9. Len(p) = IF Len(u) <= MemMax THEN Len(u) ELSE MemMax
  BY <1>3, <1>5, <1>6, <1>7
<1>10. ASSUME NEW k \in 1 .. Len(p)
       PROVE  LET r == u[k + (Len(u) - Len(p))] IN
              p[k].name = r.name /\ (p[k] = r \/ p[k].name \in s2)
  <2>1. CASE k = Len(p)
    <3>1. k + (Len(u) - Len(p)) = Len(t) + 1
      BY <1>3, <1>7, <2>1
    <3> QED
      BY <1>3, <1>4, <2>1, <3>1
  <2>2. CASE k # Len(p)
    <3> DEFINE i == k + (Len(m) + 1 - Len(p))
    <3>1. k \in 1 .. Len(p) - 1 /\ i \in 1 .. Len(m)
      BY <1>4, <1>7, <2>2
    <3>2. k + (Len(u) - Len(p)) = i + d
      BY <1>3, <1>7
    <3>3. p[k] = m[i]
      BY <1>4, <3>1
    <3>4. u[i + d] = t[i + d]
      BY <1>1, <1>3, <3>1
    <3> HIDE DEF i, d
    <3>5. m[i].name = t[i + d].name /\ (m[i] = t[i + d] \/ m[i].name \in s2)
      BY <1>2, <1>8, <3>1
    <3> QED
      BY <3>2, <3>3, <3>4, <3>5
  <2> QED
    BY <2>1, <2>2
<1> QED
  BY <1>9, <1>10 DEF EndOf, p, u

TailInv ==
  RecordInv /\ (place \notin {"off", "crashed"} => EndOf(mem, table, suspect))

LEMMA TailMade ==
  ASSUME TailInv, Record
  PROVE  EndOf(mem', table', suspect')
<1> DEFINE e == CurFile
<1>1. place = "record"
  BY DEF Record
<1>2. e \in Entry
  BY <1>1, CurFileType DEF TailInv, RecordInv, Storing
<1>3. /\ table \in Seq(Entry) /\ mem \in Seq(Entry) /\ Unique(table)
      /\ EndOf(mem, table, suspect)
  BY <1>1 DEF TailInv, RecordInv, TypeInv, TypeOK
<1>4. PICK m \in 0 .. Len(mem), t \in 0 .. Len(table) :
        /\ First(mem, e.name, m) /\ First(table, e.name, t)
        /\ RecordDone(e, m, t) \/ RecordFails(e, m, t)
  BY DEF Record
<1>5. suspect \subseteq suspect' \cup {e.name}
  BY <1>4 DEF RecordDone, RecordFails
<1>6. /\ m # 0 => m \in 1 .. Len(mem) /\ mem[m].name = e.name
      /\ t # 0 => t \in 1 .. Len(table) /\ table[t].name = e.name
  BY <1>4 DEF First
<1>7. m # 0 => t # 0
  <2> SUFFICES ASSUME m # 0, t = 0 PROVE FALSE
    OBVIOUS
  <2> DEFINE k == m + (Len(table) - Len(mem))
  <2>1. k \in 1 .. Len(table)
    BY <1>3, <1>6, EndPlaces
  <2>2. table[k].name = e.name
    BY <1>3, <1>6 DEF EndOf
  <2> HIDE DEF k
  <2> QED
    BY <1>4, <2>1, <2>2 DEF First
<1> HIDE DEF e
<1>8. CASE RecordDone(e, m, t) /\ m # 0
  <2>1. mem' = [mem EXCEPT ![m] = e] /\ table' = [table EXCEPT ![t] = e]
    BY <1>7, <1>8 DEF RecordDone
  <2> QED
    BY <1>2, <1>3, <1>5, <1>6, <1>7, <1>8, <2>1, EndReplaced
<1>9. CASE RecordDone(e, m, t) /\ m = 0 /\ t # 0
  <2>1. mem' = mem /\ table' = [table EXCEPT ![t] = e]
    BY <1>9 DEF RecordDone
  <2> QED
    BY <1>2, <1>3, <1>4, <1>5, <1>6, <1>9, <2>1, EndHidden
<1>10. CASE RecordDone(e, m, t) /\ m = 0 /\ t = 0
  <2>1. mem' = Push(mem, e, MemMax) /\ table' = Append(table, e)
    BY <1>10 DEF RecordDone
  <2> QED
    BY <1>2, <1>3, <1>4, <1>5, <1>10, <2>1, EndAdded
<1>11. CASE RecordFails(e, m, t) /\ m # 0
  <2>1. mem' = [mem EXCEPT ![m] = e] /\ table' = table /\ suspect' = suspect \cup {e.name}
    BY <1>11 DEF RecordFails
  <2> QED
    BY <1>2, <1>3, <1>6, <1>11, <2>1, EndAhead
<1>12. CASE RecordFails(e, m, t) /\ m = 0
  <2>1. mem' = mem /\ table' = table /\ suspect \subseteq suspect'
    BY <1>12 DEF RecordFails
  <2> QED
    BY <1>3, <2>1, EndGrows
<1> QED
  BY <1>4, <1>8, <1>9, <1>10, <1>11, <1>12

LEMMA TailNext == TailInv /\ [Next]_vars => TailInv'
<1> SUFFICES ASSUME TailInv, [Next]_vars, place' \notin {"off", "crashed"}
             PROVE  EndOf(mem', table', suspect')
  BY RecordNext DEF TailInv, EndOf
<1>0. /\ RecordInv /\ table \in Seq(Entry)
      /\ place \notin {"off", "crashed"} => EndOf(mem, table, suspect)
  BY DEF TailInv, RecordInv, TypeInv, TypeOK
<1> USE DEF durable, memory, pc, ghosts
<1>1. CASE /\ UNCHANGED <<table, mem>> /\ suspect \subseteq suspect'
           /\ place \notin {"off", "crashed"}
  BY <1>0, <1>1, EndGrows
<1>2. CASE DelAll
  <2>1. CASE table' = <<>> /\ mem' = <<>>
    BY <2>1, FileSyncAssumption DEF EndOf
  <2>2. CASE suspect' = suspect \cup InCfg /\ UNCHANGED <<table, mem>>
    BY <1>1, <1>2, <2>2 DEF DelAll
  <2> QED
    BY <1>2, <2>1, <2>2 DEF DelAll
<1>3. CASE Record
  BY <1>3, TailMade
<1>4. CASE Restart
  BY <1>0, <1>4, EndLoaded DEF Restart
<1>5. CASE SendCrash \/ Cut
  BY <1>5 DEF SendCrash, Cut
<1>6. CASE PcBegin \/ PcUpdate \/ PcLeave
  BY <1>1, <1>6 DEF PcBegin, PcUpdate, PcLeave
<1>7. CASE PcAnswer \/ LosePackage
  BY <1>0, <1>7, EndGrows DEF PcAnswer, LosePackage
<1>8. CASE SyncFile \/ CompleteSync \/ SendBegin \/ SendBody \/ SendOver \/ UpdateFile
  BY <1>1, <1>8 DEF SyncFile, CompleteSync, SendBegin, SendBody, SendOver, UpdateFile, Taken, At
<1>9. CASE RemoveCfg \/ NextFile \/ Finish \/ WriteName \/ WriteFile
  BY <1>1, <1>9 DEF RemoveCfg, NextFile, Finish, WriteName, WriteFile
<1>10. CASE UNCHANGED vars
  BY <1>0, <1>10 DEF vars
<1> QED
  BY <1>2, <1>3, <1>4, <1>5, <1>6, <1>7, <1>8, <1>9, <1>10 DEF Next, Thread

\* pgLocalDB.c: the list in memory is the end of the table, as localDBInit would
\* load it, whatever was added, changed, deleted or pushed out before.
THEOREM MemoryIsTableEnd == Spec => []MemIsTail
<1>1. Init => TailInv
  <2> SUFFICES ASSUME Init PROVE EndOf(mem, table, suspect)
    BY RecordInit DEF TailInv
  <2> QED
    BY FileSyncAssumption DEF Init, EndOf
<1>2. TailInv => MemIsTail
  <2> SUFFICES ASSUME TailInv, place \notin {"off", "crashed"}
               PROVE  LET tail == LastOf(table, MemMax) IN
                      /\ Len(mem) = Len(tail)
                      /\ \A i \in 1 .. Len(mem) :
                           /\ mem[i].name = tail[i].name
                           /\ mem[i] = tail[i] \/ mem[i].name \in suspect
    BY DEF MemIsTail
  <2>1. table \in Seq(Entry) /\ EndOf(mem, table, suspect)
    BY DEF TailInv, RecordInv, TypeInv, TypeOK
  <2> DEFINE p == LastOf(table, MemMax)
  <2>2. /\ Len(p) = IF Len(table) <= MemMax THEN Len(table) ELSE MemMax
        /\ \A i \in 1 .. Len(p) : p[i] = table[i + (Len(table) - Len(p))]
    BY <2>1, LastOfFacts, FileSyncAssumption
  <2> HIDE DEF p
  <2>3. Len(mem) = Len(p)
    BY <2>1, <2>2 DEF EndOf
  <2> QED
    BY <2>1, <2>2, <2>3 DEF EndOf, p
<1> QED
  BY <1>1, <1>2, TailNext, PTL DEF Spec
-----------------------------------------------------------------------------
(* One synchronisation at a time. Whatever is on the way, asked for or at    *)
(* work belongs to the one the PC waits for, and it is in one of the three   *)
(* places only: so no answer meets a set that is gone, and the module named  *)
(* is the one of the set that ends.                                          *)
Lasts == {"SYNCFILE", "COMPLETESYNC", "UPDATEFILE", "OVER"}

\* Messages of the synchronisations in o, nothing after one that ends a turn.
Tidy(w, o) ==
  \A i \in 1 .. Len(w) : w[i].id \in o /\ (w[i].cmd \in Lasts => i = Len(w))

Serial ==
  /\ open \subseteq {used.sync}
  /\ Tidy(wire, open)
  /\ \A i \in 1 .. Len(asks) : asks[i] \in open
  /\ asks # <<>> => wire = <<>> /\ Len(asks) = 1
  /\ job # 0 => job \in open /\ wire = <<>> /\ asks = <<>>
  /\ place \in AtWork => job \in ToSet(list)
  /\ place \notin AtWork => job = 0

SerialInv == TypeInv /\ Serial

LEMMA RemoveAtFacts ==
  ASSUME NEW S, NEW l \in Seq(S), NEW i \in 1 .. Len(l)
  PROVE  LET r == RemoveAt(l, i)
         IN /\ r \in Seq(S) /\ Len(r) = Len(l) - 1
            /\ \A k \in 1 .. Len(r) : r[k] = IF k < i THEN l[k] ELSE l[k + 1]
<1> DEFINE a == SubSeq(l, 1, i - 1)
           b == SubSeq(l, i + 1, Len(l))
<1>0. Len(l) \in Nat /\ \A k \in 1 .. Len(l) : l[k] \in S
  OBVIOUS
<1>1. a \in Seq(S) /\ Len(a) = i - 1 /\ \A k \in 1 .. i - 1 : a[k] = l[k]
  <2>1. a \in Seq(S) /\ Len(a) = (IF 1 <= i - 1 THEN i - 1 - 1 + 1 ELSE 0)
        /\ \A k \in 1 .. i - 1 - 1 + 1 : a[k] = l[1 + k - 1]
    BY <1>0, SubSeqProperties
  <2> QED
    BY <2>1, <1>0
<1>2. b \in Seq(S) /\ Len(b) = Len(l) - i /\ \A k \in 1 .. Len(l) - i : b[k] = l[k + i]
  <2>1. b \in Seq(S) /\ Len(b) = (IF i + 1 <= Len(l) THEN Len(l) - (i + 1) + 1 ELSE 0)
        /\ \A k \in 1 .. Len(l) - (i + 1) + 1 : b[k] = l[i + 1 + k - 1]
    BY <1>0, SubSeqProperties
  <2>2. Len(b) = Len(l) - i
    BY <2>1, <1>0
  <2>3. \A k \in 1 .. Len(l) - i : b[k] = l[k + i]
    <3> TAKE k \in 1 .. Len(l) - i
    <3>1. k \in 1 .. Len(l) - (i + 1) + 1 /\ i + 1 + k - 1 = k + i
      BY <1>0
    <3> QED
      BY <2>1, <3>1
  <2> QED
    BY <2>1, <2>2, <2>3
<1> HIDE DEF a, b
<1>3. /\ a \o b \in Seq(S) /\ Len(a \o b) = Len(l) - 1
      /\ \A k \in 1 .. Len(a) + Len(b) :
            (a \o b)[k] = IF k <= Len(a) THEN a[k] ELSE b[k - Len(a)]
  BY <1>0, <1>1, <1>2, ConcatProperties
<1>4. \A k \in 1 .. Len(l) - 1 : (a \o b)[k] = IF k < i THEN l[k] ELSE l[k + 1]
  <2> TAKE k \in 1 .. Len(l) - 1
  <2>1. CASE k < i
    BY <1>0, <1>1, <1>2, <1>3, <2>1
  <2>2. CASE ~(k < i)
    <3>1. (a \o b)[k] = b[k - (i - 1)] /\ k - (i - 1) \in 1 .. Len(l) - i
      BY <1>0, <1>1, <1>2, <1>3, <2>2
    <3>2. b[k - (i - 1)] = l[k - (i - 1) + i] /\ k - (i - 1) + i = k + 1
      BY <1>0, <1>2, <3>1
    <3> QED
      BY <2>2, <3>1, <3>2
  <2> QED
    BY <2>1, <2>2
<1> QED
  BY <1>3, <1>4 DEF RemoveAt, a, b

\* BEGIN, the parts and OVER, all with the number of the set.
LEMMA AnswerFacts ==
  ASSUME NEW n \in Ids
  PROVE  LET w == <<>> \o <<Send("BEGIN", n, NoOffer)>>
                      \o [i \in 1 .. Chunks |-> Send("BODY", n, NoOffer)]
                      \o <<Send("OVER", n, NoOffer)>>
         IN /\ Len(w) = Chunks + 2
            /\ \A i \in 1 .. Chunks + 2 :
                 /\ w[i].id = n
                 /\ w[i].cmd = IF i = 1 THEN "BEGIN" ELSE IF i = Chunks + 2 THEN "OVER" ELSE "BODY"
<1> DEFINE b == <<Send("BEGIN", n, NoOffer)>>
           c == [i \in 1 .. Chunks |-> Send("BODY", n, NoOffer)]
           e == <<Send("OVER", n, NoOffer)>>
<1>0. Chunks \in Nat \ {0}
  BY FileSyncAssumption
<1>1. \A x \in {"BEGIN", "BODY", "OVER"} :
        Send(x, n, NoOffer) \in Message /\ Send(x, n, NoOffer).id = n /\ Send(x, n, NoOffer).cmd = x
  BY DEF Send, Message
<1>2. c \in Seq(Message) /\ Len(c) = Chunks /\ \A i \in 1 .. Chunks : c[i] = Send("BODY", n, NoOffer)
  <2>1. c \in [1 .. Chunks -> Message]
    BY <1>1
  <2>2. c \in Seq(Message)
    BY <2>1, <1>0, SeqDef
  <2> QED
    BY <2>2, <1>0
<1>3. <<>> \o b = b /\ b \in Seq(Message) /\ e \in Seq(Message)
  BY <1>1, ConcatEmptySeq
<1>4. /\ Len(b) = 1 /\ b[1] = Send("BEGIN", n, NoOffer)
      /\ Len(e) = 1 /\ e[1] = Send("OVER", n, NoOffer)
  OBVIOUS
<1> HIDE DEF b, c, e
<1>5. /\ b \o c \in Seq(Message) /\ Len(b \o c) = Chunks + 1
      /\ \A i \in 1 .. Chunks + 1 : (b \o c)[i] = IF i <= 1 THEN b[i] ELSE c[i - 1]
  <2>1. /\ b \o c \in Seq(Message) /\ Len(b \o c) = Len(b) + Len(c)
        /\ \A i \in 1 .. Len(b) + Len(c) :
              (b \o c)[i] = IF i <= Len(b) THEN b[i] ELSE c[i - Len(b)]
    BY <1>2, <1>3, ConcatProperties
  <2>2. Len(b) + Len(c) = Chunks + 1
    BY <1>0, <1>2, <1>4
  <2> QED
    BY <1>4, <2>1, <2>2
<1>6. /\ Len((b \o c) \o e) = Chunks + 2
      /\ \A i \in 1 .. Chunks + 2 :
            ((b \o c) \o e)[i] = IF i <= Chunks + 1 THEN (b \o c)[i] ELSE e[i - (Chunks + 1)]
  <2> DEFINE d == b \o c
  <2>1. d \in Seq(Message) /\ Len(d) = Chunks + 1
    BY <1>5
  <2> HIDE DEF d
  <2>2. /\ Len(d \o e) = Len(d) + Len(e)
        /\ \A i \in 1 .. Len(d) + Len(e) :
              (d \o e)[i] = IF i <= Len(d) THEN d[i] ELSE e[i - Len(d)]
    BY <1>3, <2>1, ConcatProperties
  <2>3. Len(d) + Len(e) = Chunks + 2
    BY <1>0, <1>4, <2>1
  <2>4. /\ Len(d \o e) = Chunks + 2
        /\ \A i \in 1 .. Chunks + 2 :
              (d \o e)[i] = IF i <= Chunks + 1 THEN d[i] ELSE e[i - (Chunks + 1)]
    BY <2>1, <2>2, <2>3
  <2> QED
    BY <2>4 DEF d
<1>7. \A i \in 1 .. Chunks + 2 :
        ((b \o c) \o e)[i] = Send(IF i = 1 THEN "BEGIN" ELSE IF i = Chunks + 2 THEN "OVER" ELSE "BODY",
                                 n, NoOffer)
  <2> TAKE i \in 1 .. Chunks + 2
  <2>1. CASE i = 1
    <3>1. 1 \in 1 .. Chunks + 2 /\ 1 \in 1 .. Chunks + 1 /\ 1 <= Chunks + 1
      BY <1>0
    <3>2. ((b \o c) \o e)[1] = (b \o c)[1]
      BY <1>6, <3>1
    <3>3. (b \o c)[1] = b[1]
      BY <1>5, <3>1
    <3> QED
      BY <1>4, <2>1, <3>2, <3>3
  <2>2. CASE i = Chunks + 2
    BY <1>0, <1>4, <1>6, <2>2
  <2>3. CASE i # 1 /\ i # Chunks + 2
    <3>1. i - 1 \in 1 .. Chunks /\ i <= Chunks + 1 /\ ~(i <= 1) /\ i \in 1 .. Chunks + 1
      BY <1>0, <2>3
    <3> QED
      BY <1>2, <1>5, <1>6, <2>3, <3>1
  <2> QED
    BY <2>1, <2>2, <2>3
<1>8. \A i \in 1 .. Chunks + 2 :
        /\ ((b \o c) \o e)[i].id = n
        /\ ((b \o c) \o e)[i].cmd
              = IF i = 1 THEN "BEGIN" ELSE IF i = Chunks + 2 THEN "OVER" ELSE "BODY"
  BY <1>1, <1>7
<1> QED
  BY <1>3, <1>6, <1>8 DEF b, c, e

LEMMA TidyTail ==
  ASSUME NEW w \in Seq(Message), w # <<>>, NEW o, Tidy(w, o)
  PROVE  /\ Tidy(Tail(w), o) /\ Head(w).id \in o
         /\ Head(w).cmd \in Lasts => Tail(w) = <<>>
<1> DEFINE t == Tail(w)
           h == Head(w)
<1>1. /\ t \in Seq(Message) /\ Len(t) = Len(w) - 1 /\ Len(w) \in Nat \ {0}
      /\ \A i \in 1 .. Len(t) : t[i] = w[i + 1]
      /\ h = w[1]
  BY HeadTailProperties
<1>2. Len(t) = 0 => t = <<>>
  BY <1>1, EmptySeq
<1> HIDE DEF t, h
<1>3. Tidy(t, o)
  BY <1>1 DEF Tidy
<1>4. h.id \in o /\ (h.cmd \in Lasts => Len(w) = 1)
  <2>1. 1 \in 1 .. Len(w)
    BY <1>1
  <2> QED
    BY <1>1, <2>1 DEF Tidy
<1>5. h.cmd \in Lasts => t = <<>>
  BY <1>1, <1>2, <1>4
<1> QED
  BY <1>3, <1>4, <1>5 DEF t, h

LEMMA TidyRemove ==
  ASSUME NEW w \in Seq(Message), NEW i \in 1 .. Len(w), NEW o, Tidy(w, o)
  PROVE  Tidy(RemoveAt(w, i), o)
<1> DEFINE r == RemoveAt(w, i)
<1>1. /\ Len(r) = Len(w) - 1 /\ Len(w) \in Nat
      /\ \A k \in 1 .. Len(r) : r[k] = IF k < i THEN w[k] ELSE w[k + 1]
  BY RemoveAtFacts
<1> HIDE DEF r
<1> SUFFICES ASSUME NEW k \in 1 .. Len(r)
             PROVE  r[k].id \in o /\ (r[k].cmd \in Lasts => k = Len(r))
  BY DEF Tidy, r
<1>2. CASE k < i
  BY <1>1, <1>2 DEF Tidy
<1>3. CASE ~(k < i)
  BY <1>1, <1>3 DEF Tidy
<1> QED
  BY <1>2, <1>3

\* The set enlisted last is in the list, however many were pushed out.
LEMMA PushedIsIn ==
  ASSUME NEW S, NEW l \in Seq(S), NEW x \in S, NEW max \in Nat \ {0}
  PROVE  x \in ToSet(Push(l, x, max))
<1> DEFINE p == Push(l, x, max)
<1>1. p \in Seq(S) /\ Len(p) >= 1 /\ p[Len(p)] = x
  BY PushFacts
<1> HIDE DEF p
<1>2. Len(p) \in DOMAIN p
  BY <1>1
<1> QED
  BY <1>1, <1>2 DEF ToSet, p

LEMMA NothingOpen ==
  ASSUME SerialInv, MaxOpen = 1, Cardinality(open) < MaxOpen
  PROVE  open = {} /\ wire = <<>> /\ asks = <<>> /\ job = 0 /\ place \notin AtWork
<1>1. open = {}
  <2> SUFFICES ASSUME open = {used.sync} PROVE FALSE
    BY DEF SerialInv, Serial
  <2>1. Cardinality({used.sync}) = 1
    BY FS_Singleton
  <2> QED
    BY <2>1
<1>2. wire \in Seq(Message) /\ asks \in Seq(Ids) /\ job \in Ids \cup {0} /\ 0 \notin Ids
  BY DEF SerialInv, TypeInv, TypeOK, Ids
<1>3. Len(wire) = 0
  BY <1>1, <1>2 DEF SerialInv, Serial, Tidy
<1>4. Len(asks) = 0
  BY <1>1, <1>2 DEF SerialInv, Serial
<1>5. job = 0 /\ place \notin AtWork
  BY <1>1, <1>2 DEF SerialInv, TypeInv, Control, Serial
<1> QED
  BY <1>1, <1>2, <1>3, <1>4, <1>5, EmptySeq

LEMMA SerialNext == MaxOpen = 1 /\ SerialInv /\ [Next]_vars => SerialInv'
<1> SUFFICES ASSUME MaxOpen = 1, SerialInv, [Next]_vars PROVE Serial'
  BY NextType DEF SerialInv
<1>0. /\ wire \in Seq(Message) /\ asks \in Seq(Ids) /\ list \in Seq(Ids) /\ open \subseteq Ids
      /\ job \in Ids \cup {0} /\ 0 \notin Ids /\ used.sync \in Nat
      /\ used \in Counters
      /\ Serial
  BY DEF SerialInv, TypeInv, TypeOK, Ids, Counters
<1>a. /\ Len(<<>>) = 0 /\ Tidy(<<>>, {}) /\ Tidy(<<>>, open)
      /\ \A o : Tidy(<<>>, o)
  BY DEF Tidy
<1> USE DEF durable, memory, pc, ghosts
\* The PC begins: nothing else is under way.
<1>1. ASSUME NEW m, m.id = used.sync + 1, m.cmd \in Lasts, Cardinality(open) < MaxOpen,
             wire' = Append(wire, m), open' = open \cup {used.sync + 1},
             used'.sync = used.sync + 1, UNCHANGED <<list, place, job, asks>>
      PROVE  Serial'
  <2>1. open = {} /\ wire = <<>> /\ asks = <<>> /\ job = 0 /\ place \notin AtWork
    BY <1>1, NothingOpen
  <2>2. wire' = <<m>> /\ open' = {used.sync + 1}
    BY <1>1, <2>1
  <2>3. Tidy(wire', open')
    BY <1>1, <2>2 DEF Tidy
  <2> QED
    BY <1>0, <1>1, <2>1, <2>2, <2>3 DEF Serial
<1>2. CASE PcBegin
  <2>1. PICK o \in Offers, c \in {"SYNCFILE", "COMPLETESYNC"} :
          wire' = Append(wire, Send(c, used.sync + 1, o))
    BY <1>2 DEF PcBegin
  <2>2. used'.sync = used.sync + 1
    BY <1>0, <1>2 DEF PcBegin, Spend, Counters
  <2>3. Send(c, used.sync + 1, o).id = used.sync + 1 /\ Send(c, used.sync + 1, o).cmd \in Lasts
    BY <2>1 DEF Send, Lasts
  <2> QED
    BY <1>1, <1>2, <2>1, <2>2, <2>3 DEF PcBegin
<1>3. CASE PcUpdate
  <2>1. used'.sync = used.sync + 1
    <3>1. used' = [[used EXCEPT !.update = used.update + 1] EXCEPT !.sync = used.sync + 1]
      BY <1>0, <1>3 DEF PcUpdate, Counters
    <3>2. [used EXCEPT !.update = used.update + 1] \in [{"sync", "cut", "lost", "full", "update"} -> Nat]
      BY <1>0 DEF Counters
    <3> QED
      BY <3>1, <3>2
  <2>2. LET m == Send("UPDATEFILE", used.sync + 1, NoOffer)
        IN  m.id = used.sync + 1 /\ m.cmd \in Lasts
    BY DEF Send, Lasts
  <2>3. Cardinality(open) < MaxOpen
    BY <1>3, FS_EmptySet DEF PcUpdate
  <2> QED
    BY <1>1, <1>3, <2>1, <2>2, <2>3 DEF PcUpdate
<1>4. CASE PcAnswer
  <2>1. asks # <<>> /\ wire = <<>> /\ Len(asks) = 1 /\ job = 0
    BY <1>0, <1>4 DEF PcAnswer, Serial
  <2>2. Head(asks) \in open /\ Head(asks) \in Ids /\ asks' = <<>>
    <3>1. Head(asks) = asks[1] /\ Tail(asks) \in Seq(Ids) /\ Len(Tail(asks)) = 0 /\ asks[1] \in Ids
      BY <1>0, <2>1, HeadTailProperties
    <3> QED
      BY <1>0, <1>4, <2>1, <3>1, EmptySeq DEF PcAnswer, Serial
  <2> DEFINE n == Head(asks)
             w == <<>> \o <<Send("BEGIN", n, NoOffer)>>
                       \o [i \in 1 .. Chunks |-> Send("BODY", n, NoOffer)]
                       \o <<Send("OVER", n, NoOffer)>>
  <2>3. wire' = w
    BY <1>4, <2>1 DEF PcAnswer
  <2>4. /\ Len(w) = Chunks + 2
        /\ \A i \in 1 .. Chunks + 2 :
             /\ w[i].id = n
             /\ w[i].cmd = IF i = 1 THEN "BEGIN" ELSE IF i = Chunks + 2 THEN "OVER" ELSE "BODY"
    BY <2>2, AnswerFacts
  <2> HIDE DEF w, n
  <2>5. Tidy(wire', open)
    BY <2>2, <2>3, <2>4 DEF Tidy, Lasts, n
  <2>6. UNCHANGED <<open, used, job, place, list>>
    BY <1>4 DEF PcAnswer
  <2> QED
    BY <1>0, <2>1, <2>2, <2>5, <2>6 DEF Serial
<1>5. CASE PcLeave
  <2>1. job = 0 /\ place \notin AtWork
    BY <1>0, <1>5 DEF PcLeave, Serial, AtWork
  <2> QED
    BY <1>a, <1>5, <2>1 DEF PcLeave, Serial
<1>6. CASE LosePackage
  <2>1. PICK i \in 1 .. Len(wire) : wire' = RemoveAt(wire, i)
    BY <1>6 DEF LosePackage
  <2>2. Tidy(wire', open)
    BY <1>0, <2>1, TidyRemove DEF Serial
  <2>3. asks = <<>> /\ job = 0
    BY <1>0, <2>1 DEF Serial
  <2>4. used'.sync = used.sync
    BY <1>0, <1>6 DEF LosePackage, Spend, Counters
  <2> QED
    BY <1>0, <1>6, <2>2, <2>3, <2>4 DEF LosePackage, Serial
\* A message is taken.
<1>7. ASSUME wire # <<>>, wire' = Tail(wire)
      PROVE  /\ Tidy(wire', open) /\ Msg.id \in open /\ asks = <<>> /\ job = 0
             /\ Msg.cmd \in Lasts => wire' = <<>>
  BY <1>0, <1>7, TidyTail DEF Serial, Msg
<1>8. CASE SyncFile \/ CompleteSync
  <2>1. /\ wire # <<>> /\ wire' = Tail(wire) /\ Msg.cmd \in Lasts /\ Enlist
        /\ place' \in AtWork /\ UNCHANGED <<asks, open, used>>
    BY <1>8 DEF SyncFile, CompleteSync, Taken, At, Lasts, AtWork
  <2>2. Msg.id \in open /\ asks = <<>> /\ wire' = <<>>
    BY <1>7, <2>1
  <2>3. job' = Msg.id /\ job' \in ToSet(list')
    <3>1. job' = Msg.id /\ list' = Push(list, Msg.id, SetMax)
      BY <2>1 DEF Enlist
    <3> QED
      BY <1>0, <2>2, <3>1, PushedIsIn, FileSyncAssumption
  <2> QED
    BY <1>0, <1>a, <2>1, <2>2, <2>3 DEF Serial
\* The handler goes on.
<1>9. ASSUME place \in AtWork, place' \in AtWork,
             UNCHANGED <<list, job, wire, asks, open>>, used'.sync = used.sync
      PROVE  Serial'
  BY <1>0, <1>9 DEF Serial
<1>10. CASE RemoveCfg
  BY <1>9, <1>10 DEF RemoveCfg, AtWork
<1>11. CASE DelAll
  <2>1. used'.sync = used.sync
    BY <1>0, <1>11 DEF DelAll, Spend, Counters
  <2> QED
    BY <1>9, <1>11, <2>1 DEF DelAll, AtWork
<1>12. CASE WriteFile
  <2>1. used'.sync = used.sync
    BY <1>0, <1>12 DEF WriteFile, Spend, Counters
  <2> QED
    BY <1>9, <1>12, <2>1 DEF WriteFile, AtWork
<1>13. CASE Record
  <2>1. used'.sync = used.sync
    BY <1>0, <1>13 DEF Record, Spend, Counters
  <2> QED
    BY <1>9, <1>13, <2>1 DEF Record, AtWork
<1>14. CASE NextFile
  <2>1. job # 0 /\ job \in open /\ wire = <<>> /\ asks = <<>> /\ UNCHANGED <<list, wire, open, used>>
    BY <1>0, <1>14 DEF NextFile, SerialInv, TypeInv, Control, AtWork, Serial
  <2>2. CASE place' = "finish" /\ UNCHANGED <<asks, job>>
    BY <1>9, <1>14, <2>1, <2>2 DEF NextFile, AtWork
  <2>3. CASE asks' = Append(asks, job) /\ place' = "idle" /\ job' = 0
    <3>1. asks' = <<job>>
      BY <2>1, <2>3
    <3>2. Len(asks') = 1 /\ \A i \in 1 .. Len(asks') : asks'[i] = job
      BY <3>1
    <3> QED
      BY <1>0, <2>1, <2>3, <3>2 DEF Serial, AtWork
  <2> QED
    BY <1>14, <2>2, <2>3 DEF NextFile
<1>15. CASE Finish
  <2>1. wire = <<>> /\ asks = <<>>
    BY <1>0, <1>15 DEF Finish, SerialInv, TypeInv, Control, AtWork, Serial
  <2> QED
    BY <1>0, <1>a, <1>15, <2>1 DEF Finish, AtWork, Serial
<1>16. CASE WriteName
  BY <1>0, <1>16 DEF WriteName, AtWork, Serial
<1>17. CASE SendCrash
  BY <1>a, <1>0, <1>17 DEF SendCrash, AtWork, Serial
<1>18. CASE SendBegin \/ SendBody
  <2>1. wire # <<>> /\ wire' = Tail(wire) /\ UNCHANGED <<list, place, job, asks, open, used>>
    BY <1>18 DEF SendBegin, SendBody, Taken, At
  <2> QED
    BY <1>0, <1>7, <2>1 DEF Serial
<1>19. CASE SendOver
  <2>1. /\ wire # <<>> /\ wire' = Tail(wire) /\ Msg.cmd \in Lasts /\ place = "idle"
        /\ UNCHANGED <<list, asks, open, used>>
        /\ Msg.id \in ToSet(list)
        /\ \/ place' = "write" /\ job' = Msg.id
           \/ UNCHANGED <<place, job>>
    BY <1>19 DEF SendOver, Taken, At, Lasts, Ready
  <2>2. Msg.id \in open /\ asks = <<>> /\ wire' = <<>> /\ job = 0
    BY <1>7, <2>1
  <2> QED
    BY <1>0, <1>a, <2>1, <2>2 DEF Serial, AtWork
<1>20. CASE UpdateFile
  <2>1. /\ wire # <<>> /\ wire' = Tail(wire) /\ Msg.cmd \in Lasts /\ place = "idle"
        /\ asks' = Append(asks, Msg.id) /\ UNCHANGED <<list, place, job, open, used>>
    BY <1>20 DEF UpdateFile, Taken, At, Lasts
  <2>2. Msg.id \in open /\ asks = <<>> /\ wire' = <<>> /\ job = 0
    BY <1>7, <2>1
  <2>3. asks' = <<Msg.id>>
    BY <2>1, <2>2
  <2>4. Len(asks') = 1 /\ \A i \in 1 .. Len(asks') : asks'[i] = Msg.id
    BY <2>3
  <2> QED
    BY <1>0, <1>a, <2>1, <2>2, <2>4 DEF Serial
<1>21. CASE Cut
  BY <1>a, <1>0, <1>21 DEF Cut, AtWork, Serial
<1>22. CASE Restart
  BY <1>0, <1>22 DEF Restart, AtWork, Serial
<1>23. CASE UNCHANGED vars
  BY <1>0, <1>23 DEF vars, Serial
<1> QED
  BY <1>2, <1>3, <1>4, <1>5, <1>6, <1>8, <1>10, <1>11, <1>12, <1>13, <1>14, <1>15, <1>16,
     <1>17, <1>18, <1>19, <1>20, <1>21, <1>22, <1>23 DEF Next, Thread

LEMMA SerialInit == Init => SerialInv
<1> SUFFICES ASSUME Init PROVE Serial
  BY InitType DEF SerialInv
<1> QED
  BY DEF Init, Serial, Tidy, AtWork
\* A list only loses sets, but for the one pushed.
LEMMA PushedSet ==
  ASSUME NEW S, NEW l \in Seq(S), NEW x \in S, NEW max \in Nat \ {0}
  PROVE  ToSet(Push(l, x, max)) \subseteq ToSet(l) \cup {x}
<1> DEFINE p == Push(l, x, max)
           d == Len(l) + 1 - Len(p)
<1>1. /\ p \in Seq(S) /\ d \in {0, 1} /\ Len(p) >= 1 /\ p[Len(p)] = x
      /\ \A i \in 1 .. Len(p) - 1 : p[i] = l[i + d]
  BY PushFacts
<1> HIDE DEF p
<1>2. \A i \in 1 .. Len(p) - 1 : i + d \in 1 .. Len(l)
  BY <1>1
<1>3. \A i \in 1 .. Len(p) : p[i] = x \/ \E j \in 1 .. Len(l) : p[i] = l[j]
  <2> TAKE i \in 1 .. Len(p)
  <2>1. CASE i = Len(p)
    BY <1>1, <2>1
  <2>2. CASE i # Len(p)
    <3>1. i \in 1 .. Len(p) - 1
      BY <1>1, <2>2
    <3> QED
      BY <1>1, <1>2, <3>1
  <2> QED
    BY <2>1, <2>2
<1>4. DOMAIN p = 1 .. Len(p) /\ DOMAIN l = 1 .. Len(l)
  BY <1>1
<1> QED
  BY <1>3, <1>4 DEF ToSet, p

LEMMA RemovedSet ==
  ASSUME NEW S, NEW l \in Seq(S), NEW i \in 1 .. Len(l)
  PROVE  ToSet(RemoveAt(l, i)) \subseteq ToSet(l)
<1> DEFINE r == RemoveAt(l, i)
<1>1. /\ r \in Seq(S) /\ Len(r) = Len(l) - 1 /\ Len(l) \in Nat
      /\ \A k \in 1 .. Len(r) : r[k] = IF k < i THEN l[k] ELSE l[k + 1]
  BY RemoveAtFacts
<1> HIDE DEF r
<1>2. \A k \in 1 .. Len(r) : \E j \in 1 .. Len(l) : r[k] = l[j]
  BY <1>1
<1>3. DOMAIN r = 1 .. Len(r) /\ DOMAIN l = 1 .. Len(l)
  BY <1>1
<1> QED
  BY <1>2, <1>3 DEF ToSet, r

\* The set of the n-th synchronisation gets into the list after the n-th began.
Listed == \A n \in ToSet(list) : n <= used.sync

\* The set the PC waits for, as far as the server thread still finds it.
Current(n) == n \in open /\ n \in ToSet(list)

OneInv == SerialInv /\ Listed

LEMMA OnlyCurrent ==
  ASSUME OneInv, NEW m \in open, NEW n \in open
  PROVE  m = n
BY DEF OneInv, SerialInv, Serial

LEMMA AtWorkOn ==
  ASSUME OneInv, place \in AtWork
  PROVE  Current(job) /\ job \in Ids /\ job # 0 /\ wire = <<>> /\ asks = <<>>
<1>1. job \in Ids /\ job # 0
  BY DEF OneInv, SerialInv, TypeInv, Control, Ids
<1> QED
  BY <1>1 DEF OneInv, SerialInv, Serial, Current

\* The head of what is on the way is for the current synchronisation.
LEMMA TakenOne ==
  ASSUME OneInv, wire # <<>>
  PROVE  /\ Msg \in Message /\ Msg.id \in open /\ asks = <<>> /\ job = 0
         /\ Msg.cmd \in Lasts => Tail(wire) = <<>>
<1>1. wire \in Seq(Message)
  BY DEF OneInv, SerialInv, TypeInv, TypeOK
<1> QED
  BY <1>1, TidyTail, HeadTailProperties DEF OneInv, SerialInv, Serial, Msg

LEMMA CountsGrow ==
  ASSUME TypeOK, [Next]_vars
  PROVE  used.sync \in Nat /\ used'.sync \in {used.sync, used.sync + 1}
<1>1. used \in Counters
  BY DEF TypeOK, Counters
<1>2. \A k \in {"cut", "lost", "full"} : Spend(k) => used'.sync = used.sync
  BY <1>1 DEF Spend, Counters
<1>3. Spend("sync") => used'.sync = used.sync + 1
  BY <1>1 DEF Spend, Counters
<1>4. CASE PcUpdate
  <2>1. used' = [[used EXCEPT !.update = used.update + 1] EXCEPT !.sync = used.sync + 1]
    BY <1>1, <1>4 DEF PcUpdate, Counters
  <2>2. [used EXCEPT !.update = used.update + 1] \in [{"sync", "cut", "lost", "full", "update"} -> Nat]
    BY <1>1 DEF Counters
  <2> QED
    BY <1>1, <2>1, <2>2 DEF Counters
<1>5. CASE PcBegin
  BY <1>1, <1>3, <1>5 DEF PcBegin, Counters
<1>6. CASE LosePackage \/ DelAll \/ WriteFile \/ Record \/ Cut
  <2>1. UNCHANGED used \/ Spend("lost") \/ Spend("full") \/ Spend("cut")
    BY <1>6 DEF LosePackage, DelAll, WriteFile, Record, Cut
  <2> QED
    BY <1>1, <1>2, <2>1 DEF Counters
<1>7. CASE UNCHANGED used
  BY <1>1, <1>7 DEF Counters
<1>8. CASE PcAnswer \/ PcLeave \/ SyncFile \/ CompleteSync \/ RemoveCfg \/ NextFile \/ Finish
           \/ WriteName \/ SendCrash \/ SendBegin \/ SendBody \/ SendOver \/ UpdateFile \/ Restart
           \/ UNCHANGED vars
  <2>1. UNCHANGED used
    BY <1>8 DEF PcAnswer, PcLeave, SyncFile, CompleteSync, RemoveCfg, NextFile, Finish, WriteName,
       SendCrash, SendBegin, SendBody, SendOver, UpdateFile, Restart, vars, ghosts
  <2> QED
    BY <1>7, <2>1
<1> QED
  BY <1>4, <1>5, <1>6, <1>8 DEF Next, Thread

\* How the list moves.
LEMMA ListMoves ==
  ASSUME OneInv, [Next]_vars
  PROVE  \/ SyncFile \/ CompleteSync
         \/ ToSet(list') \subseteq ToSet(list)
<1> USE DEF durable, memory, pc, ghosts
<1>0. list \in Seq(Ids)
  BY DEF OneInv, SerialInv, TypeInv, TypeOK
<1>1. CASE Finish
  BY <1>0, <1>1, RemovedSet DEF Finish
<1>2. CASE SendCrash \/ Cut
  <2>1. list' = <<>>
    BY <1>2 DEF SendCrash, Cut, MemoryLost
  <2> QED
    BY <2>1 DEF ToSet
<1>3. CASE UNCHANGED list
  BY <1>3
<1>4. CASE PcBegin \/ PcUpdate \/ PcAnswer \/ PcLeave \/ LosePackage \/ RemoveCfg \/ DelAll
           \/ NextFile \/ WriteName
  BY <1>3, <1>4 DEF PcBegin, PcUpdate, PcAnswer, PcLeave, LosePackage, RemoveCfg, DelAll, NextFile, WriteName
<1>5. CASE SendBegin \/ SendBody \/ SendOver \/ WriteFile \/ Record \/ UpdateFile \/ Restart
           \/ UNCHANGED vars
  BY <1>3, <1>5 DEF SendBegin, SendBody, SendOver, WriteFile, Record, UpdateFile, Restart, vars
<1> QED
  BY <1>1, <1>2, <1>4, <1>5 DEF Next, Thread

LEMMA OneNext == MaxOpen = 1 /\ OneInv /\ [Next]_vars => OneInv'
<1> SUFFICES ASSUME MaxOpen = 1, OneInv, [Next]_vars PROVE Listed'
  BY SerialNext DEF OneInv
<1>1. /\ used.sync \in Nat /\ used'.sync \in {used.sync, used.sync + 1}
      /\ list \in Seq(Ids) /\ open \subseteq {used.sync}
  BY CountsGrow DEF OneInv, SerialInv, TypeInv, TypeOK, Serial
<1>2. ToSet(list) \subseteq Ids
  BY <1>1 DEF ToSet
<1>3. CASE ToSet(list') \subseteq ToSet(list)
  BY <1>1, <1>2, <1>3 DEF OneInv, Listed, Ids
<1>4. CASE SyncFile \/ CompleteSync
  <2>1. wire # <<>> /\ Enlist /\ UNCHANGED used
    BY <1>4 DEF SyncFile, CompleteSync, Taken, At
  <2>2. Msg.id \in open /\ Msg.id \in Ids
    BY <2>1, TakenOne DEF Message
  <2>3. ToSet(list') \subseteq ToSet(list) \cup {Msg.id}
    BY <1>1, <2>1, <2>2, PushedSet, FileSyncAssumption DEF Enlist
  <2> QED
    BY <1>1, <2>1, <2>2, <2>3 DEF OneInv, Listed
<1> QED
  BY <1>3, <1>4, ListMoves

LEMMA OneInit == Init => OneInv
<1> SUFFICES ASSUME Init PROVE Listed
  BY SerialInit DEF OneInv
<1> QED
  BY DEF Init, Listed, ToSet

\* No synchronisation that begins has a set in the list already.
LEMMA CurrentStays ==
  ASSUME MaxOpen = 1, OneInv, [Next]_vars, ~SyncFile, ~CompleteSync, NEW n, Current(n)'
  PROVE  Current(n)
<1> USE DEF durable, memory, pc, ghosts
<1>1. n \in open' /\ n \in ToSet(list)
  BY ListMoves DEF Current
<1>2. n <= used.sync /\ n \in Nat /\ used.sync \in Nat
  <2>1. list \in Seq(Ids) /\ used.sync \in Nat
    BY CountsGrow DEF OneInv, SerialInv, TypeInv, TypeOK
  <2>2. ToSet(list) \subseteq Ids
    BY <2>1 DEF ToSet
  <2>3. n \in Nat
    BY <1>1, <2>2, FileSyncAssumption DEF Ids
  <2> QED
    BY <1>1, <2>1, <2>3 DEF OneInv, Listed
<1>3. CASE PcBegin \/ PcUpdate
  <2>1. open' = open \cup {used.sync + 1}
    BY <1>3 DEF PcBegin, PcUpdate
  <2> QED
    BY <1>1, <1>2, <2>1 DEF Current
<1>4. CASE open' \subseteq open
  BY <1>1, <1>4 DEF Current
<1>5. CASE PcAnswer \/ PcLeave \/ LosePackage \/ RemoveCfg \/ DelAll \/ NextFile \/ Finish \/ WriteName
  BY <1>4, <1>5 DEF PcAnswer, PcLeave, LosePackage, RemoveCfg, DelAll, NextFile, Finish, WriteName
<1>6. CASE SendCrash \/ SendBegin \/ SendBody \/ SendOver \/ WriteFile \/ Record \/ UpdateFile \/ Cut
           \/ Restart \/ UNCHANGED vars
  BY <1>4, <1>6 DEF SendCrash, SendBegin, SendBody, SendOver, WriteFile, Record, UpdateFile, Cut, Restart, vars
<1> QED
  BY <1>3, <1>5, <1>6 DEF Next, Thread

-----------------------------------------------------------------------------
(* The module named.                                                         *)
NameInv ==
  /\ \A n \in Ids : Current(n) => heap[n].mod = curName
  /\ place = "name" => curName \in finished
  /\ ModuleIsSynced

LEMMA SetsKeepNames ==
  ASSUME TypeInv, NextFile \/ SendBegin \/ SendBody \/ Record, NEW n \in Ids
  PROVE  heap'[n].mod = heap[n].mod /\ heap'[n].files = heap[n].files
<1>0. heap \in [Ids -> FileSet]
  BY DEF TypeInv, TypeOK
<1>1. CASE NextFile
  <2>1. job \in Ids
    BY <1>1 DEF NextFile, TypeInv, Control, AtWork
  <2>2. CASE UNCHANGED heap
    BY <2>2
  <2>3. ASSUME NEW i, heap' = [heap EXCEPT ![job].cur = i, ![job].got = 0, ![job].buffer = FALSE]
        PROVE  heap'[n].mod = heap[n].mod /\ heap'[n].files = heap[n].files
    <3>1. heap' = [heap EXCEPT ![job] = [heap[job] EXCEPT !.cur = i, !.got = 0, !.buffer = FALSE]]
      BY <1>0, <2>1, <2>3
    <3>2. [heap[job] EXCEPT !.cur = i, !.got = 0, !.buffer = FALSE].mod = heap[job].mod
          /\ [heap[job] EXCEPT !.cur = i, !.got = 0, !.buffer = FALSE].files = heap[job].files
      BY <1>0, <2>1 DEF FileSet
    <3> QED
      BY <1>0, <2>1, <3>1, <3>2
  <2> QED
    BY <1>1, <2>2, <2>3 DEF NextFile
<1>2. CASE SendBegin
  <2>1. Msg.id \in Ids /\ heap' = [heap EXCEPT ![Msg.id].got = 0, ![Msg.id].buffer = TRUE]
    BY <1>2, MsgType DEF TypeInv, SendBegin, Taken, At, Message
  <2>2. heap' = [heap EXCEPT ![Msg.id] = [heap[Msg.id] EXCEPT !.got = 0, !.buffer = TRUE]]
    BY <1>0, <2>1
  <2>3. [heap[Msg.id] EXCEPT !.got = 0, !.buffer = TRUE].mod = heap[Msg.id].mod
        /\ [heap[Msg.id] EXCEPT !.got = 0, !.buffer = TRUE].files = heap[Msg.id].files
    BY <1>0, <2>1 DEF FileSet
  <2> QED
    BY <1>0, <2>1, <2>2, <2>3
<1>3. CASE SendBody
  BY <1>0, <1>3 DEF SendBody, FileSet
<1>4. CASE Record
  BY <1>0, <1>4 DEF Record, FileSet
<1> QED
  BY <1>1, <1>2, <1>3, <1>4

LEMMA NameNext == MaxOpen = 1 /\ OneInv /\ NameInv /\ [Next]_vars => NameInv'
<1> SUFFICES ASSUME MaxOpen = 1, OneInv, NameInv, [Next]_vars PROVE NameInv'
  OBVIOUS
<1>0. /\ TypeInv /\ heap \in [Ids -> FileSet]
      /\ \A n \in Ids : Current(n) => heap[n].mod = curName
      /\ place = "name" => curName \in finished
      /\ modIni \in finished \cup {NoModule, Torn}
  BY DEF OneInv, SerialInv, TypeInv, TypeOK, NameInv, ModuleIsSynced
<1> USE DEF durable, memory, pc, ghosts
\* Steps that leave the sets with their modules.
<1>1. ASSUME ~SyncFile, ~CompleteSync, UNCHANGED curName,
             \A n \in Ids : Current(n)' => heap'[n].mod = heap[n].mod,
             place' = "name" => place = "name" \/ curName \in finished',
             finished \subseteq finished',
             modIni' = modIni \/ (place = "name" /\ modIni' = curName)
      PROVE  NameInv'
  <2>1. \A n \in Ids : Current(n)' => heap'[n].mod = curName'
    BY <1>0, <1>1, CurrentStays
  <2>2. place' = "name" => curName' \in finished'
    BY <1>0, <1>1
  <2>3. ModuleIsSynced'
    BY <1>0, <1>1 DEF ModuleIsSynced
  <2> QED
    BY <2>1, <2>2, <2>3 DEF NameInv
<1>2. CASE SyncFile \/ CompleteSync
  <2>1. wire # <<>> /\ Enlist /\ place' # "name" /\ UNCHANGED <<open, modIni, finished>>
    BY <1>2 DEF SyncFile, CompleteSync, Taken, At
  <2>2. Msg.id \in open
    BY <2>1, TakenOne
  <2>3. \A n \in Ids : Current(n)' => n = Msg.id
    BY <2>1, <2>2, OnlyCurrent DEF Current
  <2>4. \A n \in Ids : n = Msg.id => heap'[n].mod = curName'
    BY <2>1 DEF Enlist, NewSet
  <2> QED
    BY <1>0, <2>1, <2>3, <2>4 DEF NameInv, ModuleIsSynced
<1>3. CASE NextFile \/ SendBegin \/ SendBody \/ Record
  <2>1. UNCHANGED <<curName, modIni, finished>> /\ ~SyncFile /\ ~CompleteSync /\ (place' # "name" \/ UNCHANGED place)
    BY <1>3 DEF NextFile, SendBegin, SendBody, Record, SyncFile, CompleteSync, Taken, At
  <2> QED
    BY <1>0, <1>1, <1>3, <2>1, SetsKeepNames
<1>4. CASE Finish
  <2>1. Current(job) /\ job \in Ids
    BY <1>4, AtWorkOn DEF Finish, AtWork
  <2>2. curName \in finished' /\ finished \subseteq finished'
    BY <1>0, <1>4, <2>1 DEF Finish
  <2>3. \A n \in Ids : Current(n)' => heap'[n].mod = heap[n].mod
    <3>1. \A n \in Ids : Current(n)' => n # job
      BY <1>4 DEF Finish, Current
    <3> QED
      BY <1>0, <1>4, <3>1 DEF Finish
  <2> QED
    BY <1>1, <1>4, <2>2, <2>3 DEF Finish, SyncFile, CompleteSync, Taken, At
<1>5. CASE WriteName
  BY <1>0, <1>1, <1>5 DEF WriteName, SyncFile, CompleteSync, Taken, At
<1>6. CASE SendCrash
  <2>1. \A n \in Ids : ~Current(n)'
    BY <1>6 DEF SendCrash, Current
  <2> QED
    BY <1>0, <1>6, <2>1 DEF SendCrash, NameInv, ModuleIsSynced
<1>7. CASE Cut
  <2>1. \A n \in Ids : ~Current(n)'
    BY <1>7 DEF Cut, Current
  <2>2. modIni' \in finished' \cup {NoModule, Torn}
    BY <1>0, <1>7 DEF Cut
  <2> QED
    BY <1>7, <2>1, <2>2 DEF Cut, NameInv, ModuleIsSynced
<1>8. CASE UNCHANGED <<heap, curName, modIni, finished>> /\ (UNCHANGED place \/ place' # "name")
           /\ ~SyncFile /\ ~CompleteSync
  BY <1>0, <1>1, <1>8
<1>9. CASE PcBegin \/ PcUpdate \/ PcAnswer \/ PcLeave \/ LosePackage
  <2>1. UNCHANGED job
    BY <1>9 DEF PcBegin, PcUpdate, PcAnswer, PcLeave, LosePackage
  <2>2. (~SyncFile /\ ~CompleteSync) \/ SyncFile \/ CompleteSync
    OBVIOUS
  <2> QED
    BY <1>2, <1>8, <1>9, <2>2 DEF PcBegin, PcUpdate, PcAnswer, PcLeave, LosePackage
<1>10. CASE RemoveCfg \/ DelAll \/ SendOver \/ WriteFile \/ UpdateFile \/ Restart \/ UNCHANGED vars
  <2>1. (~SyncFile /\ ~CompleteSync) \/ SyncFile \/ CompleteSync
    OBVIOUS
  <2> QED
    BY <1>2, <1>8, <1>10, <2>1 DEF RemoveCfg, DelAll, SendOver, WriteFile, UpdateFile, Restart, vars
<1> QED
  BY <1>2, <1>3, <1>4, <1>5, <1>6, <1>7, <1>9, <1>10 DEF Next, Thread

\* clipg.c, clirecvcmd5srv.c: when the PC runs one synchronisation at a time,
\* module.ini names no module before its synchronisation was reported finished.
THEOREM NamedModuleIsSynced ==
  ASSUME MaxOpen = 1
  PROVE  Spec => []ModuleIsSynced
<1>1. Init => OneInv /\ NameInv
  <2> SUFFICES ASSUME Init PROVE NameInv
    BY OneInit
  <2> QED
    BY DEF Init, NameInv, ModuleIsSynced, Current
<1>2. OneInv /\ NameInv /\ [Next]_vars => (OneInv /\ NameInv)'
  BY OneNext, NameNext
<1>3. NameInv => ModuleIsSynced
  BY DEF NameInv
<1> QED
  BY <1>1, <1>2, <1>3, PTL DEF Spec

-----------------------------------------------------------------------------
(* The files of a finished synchronisation. The index of a set only passes a *)
(* file that is stored or known, and COMPLETESYNC removes before it moves.   *)
Present(e) == disk[e.name] = e.ver \/ e.name \in suspect

\* No offer holds one file in two versions.
OneVersion(l) ==
  \A i, j \in 1 .. Len(l) : l[i].name = l[j].name => l[i].ver = l[j].ver
OffersAgree == \A o \in Offers : OneVersion(o.files)

Passed(n) ==
  /\ OneVersion(heap[n].files)
  /\ \A i \in 1 .. Len(heap[n].files) : i < heap[n].cur => Present(heap[n].files[i])

DoneInv ==
  /\ \A n \in Ids : Current(n) => Passed(n)
  /\ place \in {"remove", "forget"} => heap[job].cur = 1
  /\ FinishedMeansPresent

LEMMA FileOfSet ==
  ASSUME TypeOK, NEW n \in Ids, NEW i \in 1 .. Len(heap[n].files)
  PROVE  heap[n].files[i] \in Entry /\ heap[n].files[i] \in ToSet(heap[n].files)
<1>1. heap[n].files \in Seq(Entry)
  BY DEF TypeOK, FileSet
<1> QED
  BY <1>1, ElementOfSeq DEF ToSet

\* A file that is known is present while no row is stale.
LEMMA KnownPresent ==
  ASSUME RecordInv, place \notin {"record", "forget"}, NEW e, Known(e)
  PROVE  Present(e)
<1>1. PICK i \in 1 .. Len(mem) : First(mem, e.name, i) /\ mem[i].ver = e.ver
  BY DEF Known
<1>2. Pending = {}
  BY DEF Pending
<1>3. mem[i].name = e.name
  BY <1>1 DEF First
<1>4. disk[mem[i].name] = mem[i].ver \/ mem[i].name \in suspect
  BY <1>1, <1>2 DEF RecordInv, TrueIn
<1> QED
  BY <1>1, <1>3, <1>4 DEF Present

\* No file stops to be present, the sets keep their files and their index.
LEMMA DoneKept ==
  ASSUME MaxOpen = 1, OneInv, DoneInv, [Next]_vars, ~SyncFile, ~CompleteSync,
         \A n \in Ids : Current(n)' => /\ heap'[n].files = heap[n].files
                                       /\ heap'[n].cur = heap[n].cur,
         \A e \in Entry : Present(e) => Present(e)',
         \/ UNCHANGED <<place, job, heap>>
         \/ place' \notin {"remove", "forget", "finish"}
  PROVE  DoneInv'
<1>0. TypeOK
  BY DEF OneInv, SerialInv, TypeInv
<1>1. ASSUME NEW n \in Ids, Current(n)'
      PROVE  Passed(n)'
  <2>1. Passed(n)
    BY <1>1, CurrentStays DEF DoneInv
  <2>2. \A i \in 1 .. Len(heap[n].files) : heap[n].files[i] \in Entry
    BY <1>0, FileOfSet
  <2>3. \A i \in 1 .. Len(heap[n].files) : i < heap[n].cur => Present(heap[n].files[i])'
    <3> SUFFICES ASSUME NEW i \in 1 .. Len(heap[n].files), i < heap[n].cur
                 PROVE  disk'[heap[n].files[i].name] = heap[n].files[i].ver
                        \/ heap[n].files[i].name \in suspect'
      BY <1>1 DEF Present
    <3> DEFINE e == heap[n].files[i]
    <3>1. Present(e) /\ e \in Entry
      BY <2>1, <2>2 DEF Passed
    <3> HIDE DEF e
    <3>2. disk'[e.name] = e.ver \/ e.name \in suspect'
      BY <3>1 DEF Present
    <3> QED
      BY <3>2 DEF e
  <2> QED
    BY <1>1, <2>1, <2>3 DEF Passed, Present
<1>2. CASE place' \notin {"remove", "forget", "finish"}
  BY <1>1, <1>2 DEF DoneInv, FinishedMeansPresent
<1>3. CASE UNCHANGED <<place, job, heap>>
  <2>1. FinishedMeansPresent'
    <3> SUFFICES ASSUME place = "finish", NEW e \in ToSet(heap[job].files)
                 PROVE  disk'[e.name] = e.ver \/ e.name \in suspect'
      BY <1>3 DEF FinishedMeansPresent
    <3>1. Present(e)
      BY DEF DoneInv, FinishedMeansPresent, Present
    <3>2. e \in Entry
      <4>1. job \in Ids
        BY DEF OneInv, SerialInv, TypeInv, Control, AtWork
      <4>2. heap[job].files \in Seq(Entry)
        BY <1>0, <4>1 DEF TypeOK, FileSet
      <4> QED
        BY <4>2 DEF ToSet
    <3> QED
      BY <3>1, <3>2 DEF Present
  <2> QED
    BY <1>1, <1>3, <2>1 DEF DoneInv
<1> QED
  BY <1>2, <1>3

LEMMA DoneNext ==
  MaxOpen = 1 /\ OffersAgree /\ OneInv /\ RecordInv /\ DoneInv /\ [Next]_vars => DoneInv'
<1> SUFFICES ASSUME MaxOpen = 1, OffersAgree, OneInv, RecordInv, DoneInv, [Next]_vars
             PROVE  DoneInv'
  OBVIOUS
<1> USE DEF durable, memory, pc, ghosts
<1>0. /\ TypeInv /\ heap \in [Ids -> FileSet] /\ suspect \subseteq Files
      /\ disk \in [Files -> Versions \cup {Absent, Torn}]
  BY DEF OneInv, SerialInv, TypeInv, TypeOK
\* Steps that leave the files alone, and the sets or what counts of them.
<1>1. CASE PcBegin \/ PcUpdate \/ PcAnswer \/ PcLeave \/ LosePackage \/ UNCHANGED vars
  <2>1. UNCHANGED <<disk, suspect, place, job, heap>> /\ ((~SyncFile /\ ~CompleteSync) \/ SyncFile \/ CompleteSync)
    BY <1>1 DEF PcBegin, PcUpdate, PcAnswer, PcLeave, LosePackage, vars
  <2>2. \A e \in Entry : Present(e) => Present(e)'
    BY <2>1 DEF Present
  <2>3. ~SyncFile /\ ~CompleteSync
    BY <1>1 DEF PcBegin, PcUpdate, PcAnswer, PcLeave, LosePackage, vars, SyncFile, CompleteSync, Taken, At
  <2> QED
    BY <2>1, <2>2, <2>3, DoneKept
<1>2. CASE SendCrash \/ Cut \/ Restart \/ UpdateFile \/ SendOver \/ WriteName
  <2>1. CASE SendCrash \/ Cut
    BY <2>1 DEF SendCrash, Cut, DoneInv, FinishedMeansPresent, Current
  <2>2. CASE Restart \/ UpdateFile \/ SendOver \/ WriteName
    <3>1. /\ UNCHANGED <<disk, suspect, heap>> /\ place' \notin {"remove", "forget", "finish"}
          /\ ~SyncFile /\ ~CompleteSync
      BY <2>2 DEF Restart, UpdateFile, SendOver, WriteName, SyncFile, CompleteSync, Taken, At
    <3>2. \A e \in Entry : Present(e) => Present(e)'
      BY <3>1 DEF Present
    <3> QED
      BY <3>1, <3>2, DoneKept
  <2> QED
    BY <1>2, <2>1, <2>2
<1>3. CASE SyncFile \/ CompleteSync
  <2>1. wire # <<>> /\ Enlist /\ place' # "finish" /\ UNCHANGED open
    BY <1>3 DEF SyncFile, CompleteSync, Taken, At
  <2>2. Msg.id \in open /\ Msg.id \in Ids /\ Msg.offer \in Offers \cup {NoOffer}
    BY <2>1, TakenOne DEF Message
  <2>3. \A n \in Ids : Current(n)' => n = Msg.id
    BY <2>1, <2>2, OnlyCurrent DEF Current
  <2>4. heap'[Msg.id] = NewSet(Msg.offer) /\ job' = Msg.id
    BY <2>1, <2>2 DEF Enlist
  <2>5. OneVersion(Msg.offer.files)
    <3>1. OneVersion(NoOffer.files)
      BY DEF OneVersion, NoOffer
    <3> QED
      BY <2>2, <3>1 DEF OffersAgree
  <2>6. heap'[Msg.id].files = Msg.offer.files /\ heap'[Msg.id].cur = 1
    BY <2>4 DEF NewSet
  <2>7. \A n \in Ids : n = Msg.id => Passed(n)'
    <3>1. ASSUME NEW n \in Ids, n = Msg.id
          PROVE  Passed(n)'
      <4>1. OneVersion(heap'[n].files) /\ heap'[n].cur = 1
        BY <2>5, <2>6, <3>1
      <4>2. Len(heap'[n].files) \in Nat
        BY <2>2, <2>4, <3>1, NewSetType DEF FileSet
      <4> QED
        BY <4>1, <4>2 DEF Passed
    <3> QED
      BY <3>1
  <2>8. \A n \in Ids : Current(n)' => Passed(n)'
    BY <2>3, <2>7
  <2>9. place' \in {"remove", "forget"} => heap'[job'].cur = 1
    BY <2>4, <2>6
  <2> QED
    BY <2>1, <2>8, <2>9 DEF DoneInv, FinishedMeansPresent
\* While COMPLETESYNC removes, no file is passed yet.
<1>4. CASE RemoveCfg \/ DelAll
  <2>1. /\ place \in {"remove", "forget"} /\ place' \in {"forget", "next"}
        /\ UNCHANGED <<heap, job, open, list>>
    BY <1>4 DEF RemoveCfg, DelAll
  <2>2. Current(job) /\ heap[job].cur = 1 /\ job \in open
    BY <2>1, AtWorkOn DEF DoneInv, AtWork, Current
  <2>3. ASSUME NEW n \in Ids, Current(n)'
        PROVE  Passed(n)'
    <3>1. n \in open /\ Current(n)
      BY <2>1, <2>3 DEF Current
    <3>2. n = job
      BY <2>2, <3>1, OnlyCurrent
    <3> QED
      BY <2>1, <2>2, <2>3, <3>1, <3>2 DEF DoneInv, Passed
  <2> QED
    BY <2>1, <2>2, <2>3 DEF DoneInv, FinishedMeansPresent
<1>5. CASE NextFile
  <2>0. /\ place = "next" /\ Current(job) /\ job \in Ids /\ job \in open
        /\ UNCHANGED <<disk, suspect, list, open>>
    BY <1>5, AtWorkOn DEF NextFile, AtWork, Current
  <2> DEFINE s == heap[job]
  <2>1. PICK i \in s.cur .. Len(s.files) + 1 :
          /\ \A j \in s.cur .. i - 1 : Known(s.files[j])
          /\ \/ /\ i <= Len(s.files)
                /\ heap' = [heap EXCEPT ![job].cur = i, ![job].got = 0, ![job].buffer = FALSE]
                /\ place' = "idle"
             \/ /\ i > Len(s.files)
                /\ place' = "finish" /\ UNCHANGED <<heap, job>>
    BY <1>5 DEF NextFile
  <2>2. s \in FileSet /\ s.cur \in Nat \ {0} /\ Len(s.files) \in Nat /\ Passed(job)
    BY <1>0, <2>0 DEF FileSet, DoneInv
  <2>3. \A j \in 1 .. i - 1 : Present(s.files[j])
    <3> TAKE j \in 1 .. i - 1
    <3>1. CASE j < s.cur
      BY <2>1, <2>2, <3>1 DEF Passed
    <3>2. CASE ~(j < s.cur)
      <4>1. Known(s.files[j])
        BY <2>1, <2>2, <3>2
      <4> HIDE DEF s
      <4> QED
        BY <2>0, <4>1, KnownPresent
    <3> QED
      BY <3>1, <3>2
  <2>4. ASSUME NEW n \in Ids, Current(n)'
        PROVE  n = job
    BY <2>0, <2>4, OnlyCurrent DEF Current
  <2>5. CASE i <= Len(s.files) /\ place' = "idle" /\ heap' = [heap EXCEPT ![job].cur = i, ![job].got = 0, ![job].buffer = FALSE]
    <3>1. heap'[job] = [s EXCEPT !.cur = i, !.got = 0, !.buffer = FALSE]
      BY <1>0, <2>0, <2>5
    <3>2. heap'[job].cur = i /\ heap'[job].files = s.files
      BY <2>2, <3>1 DEF FileSet
    <3>3. ASSUME NEW n \in Ids, Current(n)'
          PROVE  Passed(n)'
      <4>1. n = job
        BY <2>4, <3>3
      <4>2. OneVersion(s.files)
        BY <2>2 DEF Passed
      <4>3. \A k \in 1 .. Len(s.files) :
              k < i => disk'[s.files[k].name] = s.files[k].ver \/ s.files[k].name \in suspect'
        BY <2>0, <2>1, <2>2, <2>3 DEF Present
      <4>4. heap'[n].cur = i /\ heap'[n].files = s.files
        BY <3>2, <4>1
      <4> HIDE DEF s
      <4> QED
        BY <4>2, <4>3, <4>4 DEF Passed, Present
    <3> QED
      BY <2>5, <3>3 DEF DoneInv, FinishedMeansPresent
  <2>6. CASE i > Len(s.files) /\ place' = "finish" /\ UNCHANGED <<heap, job>>
    <3>1. \A k \in 1 .. Len(s.files) : Present(s.files[k])
      BY <2>1, <2>2, <2>3, <2>6
    <3>2. FinishedMeansPresent'
      <4>1. DOMAIN s.files = 1 .. Len(s.files)
        BY <2>2 DEF FileSet
      <4> QED
        BY <2>0, <2>6, <3>1, <4>1 DEF FinishedMeansPresent, ToSet, Present
    <3>3. Passed(job)'
      BY <2>0, <2>2, <2>6 DEF Passed, Present
    <3> QED
      BY <2>4, <2>6, <3>2, <3>3 DEF DoneInv
  <2> QED
    BY <2>1, <2>5, <2>6
<1>6. CASE Finish
  <2>1. Current(job)
    BY <1>6, AtWorkOn DEF Finish, AtWork
  <2>2. \A n \in Ids : ~Current(n)'
    BY <1>6, <2>1, OnlyCurrent DEF Finish, Current
  <2> QED
    BY <1>6, <2>2 DEF Finish, DoneInv, FinishedMeansPresent
<1>7. CASE SendBegin \/ SendBody
  <2>1. /\ UNCHANGED <<disk, suspect, place>> /\ place = "idle" /\ ~SyncFile /\ ~CompleteSync
    BY <1>7 DEF SendBegin, SendBody, SyncFile, CompleteSync, Taken, At
  <2>2. \A e \in Entry : Present(e) => Present(e)'
    BY <2>1 DEF Present
  <2>3. \A n \in Ids : heap'[n].cur = heap[n].cur
    <3>1. CASE SendBody
      BY <1>0, <3>1 DEF SendBody, FileSet
    <3>2. CASE SendBegin
      <4>1. Msg.id \in Ids /\ heap' = [heap EXCEPT ![Msg.id].got = 0, ![Msg.id].buffer = TRUE]
        BY <1>0, <3>2, MsgType DEF TypeInv, SendBegin, Taken, At, Message
      <4>2. heap' = [heap EXCEPT ![Msg.id] = [heap[Msg.id] EXCEPT !.got = 0, !.buffer = TRUE]]
        BY <1>0, <4>1
      <4>3. [heap[Msg.id] EXCEPT !.got = 0, !.buffer = TRUE].cur = heap[Msg.id].cur
        BY <1>0, <4>1 DEF FileSet
      <4> QED
        BY <1>0, <4>1, <4>2, <4>3
    <3> QED
      BY <1>7, <3>1, <3>2
  <2> QED
    BY <1>0, <1>7, <2>1, <2>2, <2>3, SetsKeepNames, DoneKept
\* A file written is the one of the set, or suspect.
<1>8. CASE WriteFile
  <2>0. /\ place = "write" /\ place' = "record" /\ UNCHANGED <<job, open, list, heap>>
        /\ Current(job) /\ job \in Ids /\ job \in open /\ CurFile \in Entry
    BY <1>0, <1>8, AtWorkOn, CurFileType DEF WriteFile, AtWork, Storing, Current
  <2>1. \/ disk' = [disk EXCEPT ![CurFile.name] = CurFile.ver] /\ UNCHANGED suspect
        \/ disk' = [disk EXCEPT ![CurFile.name] = Torn] /\ suspect' = suspect \cup {CurFile.name}
    BY <1>8 DEF WriteFile
  <2>2. \A e \in Entry : Present(e) /\ (e.name = CurFile.name => e.ver = CurFile.ver) => Present(e)'
    BY <1>0, <2>0, <2>1 DEF Present, Entry
  <2>3. Passed(job)'
    <3> DEFINE s == heap[job]
    <3>1. Passed(job) /\ s.cur \in 1 .. Len(s.files) /\ CurFile = s.files[s.cur]
      BY <1>0, <2>0 DEF DoneInv, TypeInv, Control, Storing, HasFile, CurFile, FileSet
    <3>2. \A i \in 1 .. Len(s.files) : i < s.cur => Present(s.files[i])'
      <4> SUFFICES ASSUME NEW i \in 1 .. Len(s.files), i < s.cur
                   PROVE  Present(s.files[i])'
        OBVIOUS
      <4>1. s.files[i].name = CurFile.name => s.files[i].ver = CurFile.ver
        BY <3>1 DEF Passed, OneVersion
      <4>2. Present(s.files[i]) /\ s.files[i] \in Entry
        BY <1>0, <2>0, <3>1, FileOfSet DEF Passed, TypeInv
      <4>3. Present(s.files[i])'
        <5> DEFINE e == s.files[i]
        <5>1. Present(e) /\ e \in Entry /\ (e.name = CurFile.name => e.ver = CurFile.ver)
          BY <4>1, <4>2
        <5> HIDE DEF e
        <5>2. disk'[e.name] = e.ver \/ e.name \in suspect'
          BY <2>2, <5>1 DEF Present
        <5> QED
          BY <2>0, <5>2 DEF e, Present
      <4> QED
        BY <4>3
    <3> QED
      BY <2>0, <3>1, <3>2 DEF Passed, Present
  <2>4. \A n \in Ids : Current(n)' => n = job
    BY <2>0, OnlyCurrent DEF Current
  <2> QED
    BY <2>0, <2>3, <2>4 DEF DoneInv, FinishedMeansPresent
<1>9. CASE Record
  <2>0. /\ place = "record" /\ place' = "next" /\ UNCHANGED <<disk, job, open, list>>
        /\ Current(job) /\ job \in Ids /\ job \in open /\ CurFile \in Entry
        /\ heap' = [heap EXCEPT ![job].cur = heap[job].cur + 1]
    BY <1>0, <1>9, AtWorkOn, CurFileType DEF Record, AtWork, Storing, Current
  <2>1. \/ suspect \subseteq suspect'
        \/ disk[CurFile.name] = CurFile.ver /\ suspect' = suspect \ {CurFile.name}
    BY <1>9 DEF Record, RecordDone, RecordFails
  <2>2. \A e \in Entry : Present(e) /\ (e.name = CurFile.name => e.ver = CurFile.ver) => Present(e)'
    BY <1>0, <2>0, <2>1 DEF Present, Entry
  <2>3. Present(CurFile)
    BY <2>0 DEF RecordInv, Stored, Present
  <2> DEFINE s == heap[job]
  <2>4. /\ Passed(job) /\ s.cur \in 1 .. Len(s.files) /\ CurFile = s.files[s.cur]
        /\ heap'[job].files = s.files /\ heap'[job].cur = s.cur + 1
    BY <1>0, <2>0 DEF DoneInv, TypeInv, Control, Storing, HasFile, CurFile, FileSet
  <2>5. ASSUME NEW i \in 1 .. Len(s.files), i < s.cur + 1
        PROVE  disk'[s.files[i].name] = s.files[i].ver \/ s.files[i].name \in suspect'
    <3>1. s.files[i].name = CurFile.name => s.files[i].ver = CurFile.ver
      BY <2>4 DEF Passed, OneVersion
    <3>2. s.files[i] \in Entry
      BY <1>0, <2>0, FileOfSet DEF TypeInv
    <3>3. Present(s.files[i])
      <4>1. CASE i = s.cur
        BY <2>3, <2>4, <4>1
      <4>2. CASE i # s.cur
        BY <2>4, <2>5, <4>2 DEF Passed
      <4> QED
        BY <4>1, <4>2
    <3> DEFINE e == s.files[i]
    <3>4. Present(e) /\ e \in Entry /\ (e.name = CurFile.name => e.ver = CurFile.ver)
      BY <3>1, <3>2, <3>3
    <3> HIDE DEF e
    <3>5. disk'[e.name] = e.ver \/ e.name \in suspect'
      BY <2>2, <3>4 DEF Present
    <3> QED
      BY <3>5 DEF e
  <2>6. Passed(job)'
    <3>1. OneVersion(s.files)
      BY <2>4 DEF Passed
    <3> QED
      BY <2>0, <2>4, <2>5, <3>1 DEF Passed, Present
  <2>7. \A n \in Ids : Current(n)' => n = job
    BY <2>0, OnlyCurrent DEF Current
  <2> QED
    BY <2>0, <2>6, <2>7 DEF DoneInv, FinishedMeansPresent
<1> QED
  BY <1>1, <1>2, <1>3, <1>4, <1>5, <1>6, <1>7, <1>8, <1>9 DEF Next, Thread

\* clipg.c, client_getFileFromSet: when SYNCFIN is sent, every file of the offer
\* is on the flash in the version offered, or a fault caught it, for any offers
\* that hold no file in two versions and a PC that runs one synchronisation at
\* a time.
THEOREM FinishedFilesPresent ==
  ASSUME MaxOpen = 1, OffersAgree
  PROVE  Spec => []FinishedMeansPresent
<1>1. Init => OneInv /\ RecordInv /\ DoneInv
  <2> SUFFICES ASSUME Init PROVE DoneInv
    BY OneInit, RecordInit
  <2> QED
    BY DEF Init, DoneInv, FinishedMeansPresent, Current
<1>2. OneInv /\ RecordInv /\ DoneInv /\ [Next]_vars => (OneInv /\ RecordInv /\ DoneInv)'
  BY OneNext, RecordNext, DoneNext
<1>3. DoneInv => FinishedMeansPresent
  BY DEF DoneInv
<1> QED
  BY <1>1, <1>2, <1>3, PTL DEF Spec

-----------------------------------------------------------------------------
(* The answers. What the PC sends for a file finds the set and, after BEGIN, *)
(* the buffer, because nothing else touches the list while it is on the way. *)
Harmless == spoilt = {} /\ used.update = 0

\* A message of an answer can be taken when the ones before it have been.
Fits(w, i) ==
  /\ w[i].cmd # "UPDATEFILE"
  /\ w[i].cmd \in {"BEGIN", "BODY", "OVER"} => Ready(w[i].id)
  /\ w[i].cmd = "BODY" => IF i = 1 THEN heap[w[i].id].buffer
                          ELSE w[i - 1].cmd \in {"BEGIN", "BODY"}

AnswerInv == Harmless =>
  /\ place # "crashed"
  /\ \A i \in 1 .. Len(asks) : Ready(asks[i])
  /\ \A i \in 1 .. Len(wire) : Fits(wire, i)

LEMMA HarmBefore ==
  ASSUME TypeOK, [Next]_vars, Harmless'
  PROVE  Harmless /\ ~PcUpdate /\ ~LosePackage
<1> USE DEF durable, memory, pc, ghosts
<1>1. used \in Counters
  BY DEF TypeOK, Counters
<1>2. \A k \in {"sync", "cut", "lost", "full"} : Spend(k) => used'.update = used.update
  BY <1>1 DEF Spend, Counters
<1>3. CASE PcUpdate
  <2> DEFINE u == [used EXCEPT !.update = used.update + 1]
  <2>1. used' = [u EXCEPT !.sync = used.sync + 1]
    BY <1>1, <1>3 DEF PcUpdate, Counters
  <2>2. u \in [{"sync", "cut", "lost", "full", "update"} -> Nat] /\ u.update = used.update + 1
    BY <1>1 DEF Counters
  <2>3. used'.update = u.update
    BY <2>1, <2>2
  <2> QED
    BY <1>1, <2>2, <2>3 DEF Harmless, Counters
<1>4. CASE LosePackage
  BY <1>4 DEF LosePackage, Harmless
<1>5. CASE (UNCHANGED used \/ Spend("sync") \/ Spend("full") \/ Spend("cut")) /\ UNCHANGED spoilt
           /\ ~PcUpdate /\ ~LosePackage
  BY <1>2, <1>5 DEF Harmless
<1>6. CASE PcBegin \/ DelAll \/ WriteFile \/ Record \/ Cut
  BY <1>3, <1>4, <1>5, <1>6 DEF PcBegin, DelAll, WriteFile, Record, Cut
<1>7. CASE PcAnswer \/ PcLeave \/ SyncFile \/ CompleteSync \/ RemoveCfg \/ NextFile \/ Finish
           \/ WriteName \/ SendCrash \/ SendBegin \/ SendBody \/ SendOver \/ UpdateFile \/ Restart
           \/ UNCHANGED vars
  BY <1>3, <1>4, <1>5, <1>7 DEF PcAnswer, PcLeave, SyncFile, CompleteSync, RemoveCfg, NextFile,
     Finish, WriteName, SendCrash, SendBegin, SendBody, SendOver, UpdateFile, Restart, vars
<1> QED
  BY <1>3, <1>4, <1>6, <1>7 DEF Next, Thread

\* Nothing is on the way, nothing is asked for.
LEMMA NoAnswer ==
  ASSUME wire' = <<>>, asks' = <<>>, place' # "crashed"
  PROVE  AnswerInv'
BY DEF AnswerInv

LEMMA AnswerKept ==
  ASSUME AnswerInv, Harmless' => Harmless, UNCHANGED <<wire, asks, list, heap>>,
         place' # "crashed" \/ UNCHANGED place
  PROVE  AnswerInv'
BY DEF AnswerInv, Fits, Ready

\* A part of an answer is taken: the set stays, its buffer is there.
LEMMA AnswerGoesOn ==
  ASSUME MaxOpen = 1, OneInv, AnswerInv, Harmless, wire # <<>>, wire' = Tail(wire),
         UNCHANGED <<list, asks, open>>, place' # "crashed",
         \A n \in Ids : heap'[n].files = heap[n].files /\ heap'[n].cur = heap[n].cur,
         heap'[Msg.id].buffer, Msg.cmd \in {"BEGIN", "BODY"}
  PROVE  AnswerInv'
<1>0. wire \in Seq(Message)
  BY DEF OneInv, SerialInv, TypeInv, TypeOK
<1>1. asks = <<>> /\ Msg.id \in open /\ Msg = wire[1]
  BY <1>0, TakenOne, HeadTailProperties DEF Msg
<1> DEFINE t == Tail(wire)
<1>2. /\ Len(t) = Len(wire) - 1 /\ Len(wire) \in Nat \ {0}
      /\ \A i \in 1 .. Len(t) : t[i] = wire[i + 1]
  BY <1>0, HeadTailProperties
<1> HIDE DEF t
<1>3. \A i \in 1 .. Len(t) : Fits(wire, i + 1) /\ i + 1 \in 1 .. Len(wire)
  BY <1>2 DEF AnswerInv
<1>4. \A i \in 1 .. Len(t) : t[i].id = Msg.id /\ t[i].id \in Ids
  <2>1. \A i \in 1 .. Len(wire) : wire[i].id \in open
    BY DEF OneInv, SerialInv, Serial, Tidy
  <2>2. \A i \in 1 .. Len(wire) : wire[i].id \in Ids
    <3> TAKE i \in 1 .. Len(wire)
    <3>1. wire[i] \in Message
      BY <1>0, ElementOfSeq
    <3> QED
      BY <3>1 DEF Message
  <2>3. \A i \in 1 .. Len(wire) : wire[i].id = Msg.id
    BY <1>1, <2>1, OnlyCurrent
  <2> QED
    BY <1>2, <1>3, <2>2, <2>3
<1>5. ASSUME NEW i \in 1 .. Len(t)
      PROVE  /\ t[i].cmd # "UPDATEFILE"
             /\ t[i].cmd \in {"BEGIN", "BODY", "OVER"} =>
                  t[i].id \in ToSet(list) /\ heap'[t[i].id].cur <= Len(heap'[t[i].id].files)
             /\ t[i].cmd = "BODY" => IF i = 1 THEN heap'[t[i].id].buffer
                                     ELSE t[i - 1].cmd \in {"BEGIN", "BODY"}
  <2>1. t[i] = wire[i + 1] /\ Fits(wire, i + 1)
    BY <1>2, <1>3
  <2>2. i # 1 => t[i - 1] = wire[i]
    BY <1>2
  <2>3. i + 1 # 1 /\ (i + 1) - 1 = i
    OBVIOUS
  <2>4. t[i].cmd # "UPDATEFILE"
    BY <2>1 DEF Fits
  <2>5. t[i].cmd \in {"BEGIN", "BODY", "OVER"} =>
          t[i].id \in ToSet(list) /\ heap'[t[i].id].cur <= Len(heap'[t[i].id].files)
    BY <1>4, <2>1 DEF Fits, Ready, HasFile
  <2>6. t[i].cmd = "BODY" /\ i # 1 => wire[i].cmd \in {"BEGIN", "BODY"}
    BY <2>1, <2>3 DEF Fits
  <2> QED
    BY <1>4, <2>2, <2>4, <2>5, <2>6
<1>6. \A i \in 1 .. Len(wire') : Fits(wire, i)'
  BY <1>5 DEF Fits, Ready, HasFile, t
<1> QED
  BY <1>1, <1>6 DEF AnswerInv

LEMMA AnswerNext ==
  MaxOpen = 1 /\ OneInv /\ AnswerInv /\ [Next]_vars => AnswerInv'
<1> SUFFICES ASSUME MaxOpen = 1, OneInv, AnswerInv, [Next]_vars, Harmless'
             PROVE  AnswerInv'
  BY DEF AnswerInv
<1> USE DEF durable, memory, pc, ghosts
<1>0. /\ TypeInv /\ heap \in [Ids -> FileSet] /\ wire \in Seq(Message) /\ asks \in Seq(Ids)
      /\ Harmless /\ ~PcUpdate /\ ~LosePackage
  BY HarmBefore DEF OneInv, SerialInv, TypeInv, TypeOK
<1>1. CASE PcBegin
  <2>1. PICK o \in Offers, c \in {"SYNCFILE", "COMPLETESYNC"} :
          wire' = Append(wire, Send(c, used.sync + 1, o))
    BY <1>1 DEF PcBegin
  <2>2. wire = <<>> /\ asks = <<>>
    BY <1>1, NothingOpen DEF PcBegin, OneInv
  <2>3. wire' = <<Send(c, used.sync + 1, o)>> /\ Send(c, used.sync + 1, o).cmd = c
    BY <2>1, <2>2 DEF Send
  <2>4. Len(wire') = 1 /\ wire'[1].cmd \in {"SYNCFILE", "COMPLETESYNC"}
    BY <2>3
  <2>5. asks' = <<>> /\ place' # "crashed"
    BY <1>1, <2>2 DEF PcBegin
  <2> QED
    BY <2>4, <2>5 DEF AnswerInv, Fits
<1>2. CASE PcAnswer
  <2>1. /\ asks # <<>> /\ wire = <<>> /\ Len(asks) = 1 /\ Head(asks) = asks[1] /\ Head(asks) \in Ids
        /\ Tail(asks) \in Seq(Ids) /\ Len(Tail(asks)) = 0
    BY <1>0, <1>2, HeadTailProperties DEF PcAnswer, OneInv, SerialInv, Serial
  <2>2. asks' = <<>> /\ UNCHANGED <<list, heap, place>>
    BY <1>2, <2>1, EmptySeq DEF PcAnswer
  <2> DEFINE n == Head(asks)
             w == <<>> \o <<Send("BEGIN", n, NoOffer)>>
                       \o [i \in 1 .. Chunks |-> Send("BODY", n, NoOffer)]
                       \o <<Send("OVER", n, NoOffer)>>
  <2>3. wire' = w
    BY <1>2, <2>1 DEF PcAnswer
  <2>4. /\ Len(w) = Chunks + 2
        /\ \A i \in 1 .. Chunks + 2 :
             /\ w[i].id = n
             /\ w[i].cmd = IF i = 1 THEN "BEGIN" ELSE IF i = Chunks + 2 THEN "OVER" ELSE "BODY"
    BY <2>1, AnswerFacts
  <2>5. Ready(n) /\ place # "crashed"
    BY <1>0, <2>1 DEF AnswerInv
  <2> HIDE DEF w, n
  <2>6. \A i \in 1 .. Len(w) : Fits(w, i)
    <3> TAKE i \in 1 .. Len(w)
    <3>1. w[i].cmd \in {"BEGIN", "BODY", "OVER"} /\ w[i].id = n
      BY <2>4
    <3>2. w[i].cmd = "BODY" => i # 1 /\ i - 1 \in 1 .. Chunks + 1
      <4>1. Chunks \in Nat /\ i \in 1 .. Chunks + 2
        BY <2>4, FileSyncAssumption
      <4>2. w[i].cmd = "BODY" => i # 1
        BY <2>4, <4>1
      <4> QED
        BY <4>1, <4>2
    <3>3. w[i].cmd = "BODY" => w[i - 1].cmd \in {"BEGIN", "BODY"}
      BY <2>4, <3>2, FileSyncAssumption
    <3> QED
      BY <2>5, <3>1, <3>2, <3>3 DEF Fits
  <2>7. \A i \in 1 .. Len(wire') : Fits(wire, i)'
    BY <2>2, <2>3, <2>6 DEF Fits, Ready
  <2> QED
    BY <2>2, <2>5, <2>7 DEF AnswerInv
<1>3. CASE PcLeave \/ Cut
  BY <1>3, NoAnswer DEF PcLeave, Cut
<1>4. CASE SyncFile \/ CompleteSync
  <2>1. wire # <<>> /\ wire' = Tail(wire) /\ Msg.cmd \in Lasts /\ UNCHANGED asks /\ place' # "crashed"
    BY <1>4 DEF SyncFile, CompleteSync, Taken, At, Lasts
  <2> QED
    BY <2>1, TakenOne, NoAnswer
<1>5. CASE RemoveCfg \/ DelAll \/ WriteFile \/ Record \/ Finish
  <2>1. place \in AtWork /\ UNCHANGED <<wire, asks>> /\ place' # "crashed"
    BY <1>5 DEF RemoveCfg, DelAll, WriteFile, Record, Finish, AtWork
  <2> QED
    BY <2>1, AtWorkOn, NoAnswer
<1>6. CASE WriteName \/ Restart \/ UNCHANGED vars
  BY <1>0, <1>6, AnswerKept DEF WriteName, Restart, vars
<1>7. CASE NextFile
  <2>1. job \in Ids /\ job \in ToSet(list) /\ wire = <<>> /\ asks = <<>> /\ UNCHANGED <<wire, list>>
    BY <1>7, AtWorkOn DEF NextFile, AtWork, Current
  <2>2. CASE UNCHANGED <<asks>> /\ place' = "finish"
    BY <2>1, <2>2, NoAnswer
  <2>3. ASSUME NEW i, i <= Len(heap[job].files), asks' = Append(asks, job), place' = "idle",
               heap' = [heap EXCEPT ![job].cur = i, ![job].got = 0, ![job].buffer = FALSE]
        PROVE  AnswerInv'
    <3>1. heap'[job] = [heap[job] EXCEPT !.cur = i, !.got = 0, !.buffer = FALSE]
      BY <1>0, <2>1, <2>3
    <3>2. heap'[job].cur = i /\ heap'[job].files = heap[job].files
      BY <1>0, <2>1, <3>1 DEF FileSet
    <3>3. asks' = <<job>>
      BY <2>1, <2>3
    <3>4. Len(asks') = 1 /\ asks'[1] = job
      BY <3>3
    <3>5. job \in ToSet(list') /\ heap'[job].cur <= Len(heap'[job].files)
      BY <2>1, <2>3, <3>2
    <3>6. \A k \in 1 .. Len(asks') : Ready(asks[k])'
      BY <3>4, <3>5 DEF Ready, HasFile
    <3> QED
      BY <2>1, <2>3, <3>6 DEF AnswerInv
  <2> QED
    BY <1>7, <2>2, <2>3 DEF NextFile
\* The head of an answer finds its set, and a part the buffer.
<1>8. CASE SendCrash
  <2>1. wire # <<>> /\ Msg.cmd \in {"BEGIN", "BODY", "OVER"}
        /\ (Ready(Msg.id) => Msg.cmd = "BODY" /\ ~heap[Msg.id].buffer)
    BY <1>8 DEF SendCrash, At
  <2>2. Msg = wire[1] /\ 1 \in 1 .. Len(wire)
    BY <1>0, <2>1, HeadTailProperties DEF Msg
  <2>3. Fits(wire, 1)
    BY <1>0, <2>2 DEF AnswerInv
  <2> QED
    BY <2>1, <2>2, <2>3 DEF Fits
<1>9. CASE SendBegin \/ SendBody
  <2>1. /\ wire # <<>> /\ wire' = Tail(wire) /\ UNCHANGED <<list, asks, open>> /\ place' # "crashed"
        /\ Msg.cmd \in {"BEGIN", "BODY"}
    BY <1>9 DEF SendBegin, SendBody, Taken, At
  <2>2. Msg.id \in Ids
    BY <1>0, <2>1, MsgType DEF TypeInv, Message
  <2>3. (\A n \in Ids : heap'[n].cur = heap[n].cur) /\ heap'[Msg.id].buffer
    <3>1. CASE SendBody
      BY <1>0, <2>2, <3>1 DEF SendBody, FileSet
    <3>2. CASE SendBegin
      <4>1. heap' = [heap EXCEPT ![Msg.id] = [heap[Msg.id] EXCEPT !.got = 0, !.buffer = TRUE]]
        BY <1>0, <2>2, <3>2 DEF SendBegin
      <4>2. /\ [heap[Msg.id] EXCEPT !.got = 0, !.buffer = TRUE].cur = heap[Msg.id].cur
            /\ [heap[Msg.id] EXCEPT !.got = 0, !.buffer = TRUE].buffer = TRUE
        BY <1>0, <2>2 DEF FileSet
      <4> QED
        BY <1>0, <2>2, <4>1, <4>2
    <3> QED
      BY <1>9, <3>1, <3>2
  <2> QED
    BY <1>0, <1>9, <2>1, <2>3, SetsKeepNames, AnswerGoesOn
<1>10. CASE SendOver
  <2>1. wire # <<>> /\ wire' = Tail(wire) /\ Msg.cmd \in Lasts /\ UNCHANGED asks /\ place' # "crashed"
    BY <1>10 DEF SendOver, Taken, At, Lasts
  <2> QED
    BY <2>1, TakenOne, NoAnswer
<1>11. CASE UpdateFile
  <2>1. wire # <<>> /\ Msg.cmd = "UPDATEFILE"
    BY <1>11 DEF UpdateFile, Taken, At
  <2>2. Msg = wire[1] /\ 1 \in 1 .. Len(wire)
    BY <1>0, <2>1, HeadTailProperties DEF Msg
  <2> QED
    BY <1>0, <2>1, <2>2 DEF AnswerInv, Fits
<1> QED
  BY <1>0, <1>1, <1>2, <1>3, <1>4, <1>5, <1>6, <1>7, <1>8, <1>9, <1>10, <1>11 DEF Next, Thread

\* clirecvcmd5srv.c, SENDFILE: the set of an answer and its buffer, which the
\* handler uses without a test, are there unless a package was lost or the PC
\* sent UPDATEFILE, for a PC that runs one synchronisation at a time, however
\* often it left or the power went.
THEOREM AnswersFindTheirSet ==
  ASSUME MaxOpen = 1
  PROVE  Spec => []AnswerFindsSet
<1>1. Init => OneInv /\ AnswerInv
  <2> SUFFICES ASSUME Init PROVE AnswerInv
    BY OneInit
  <2> QED
    BY DEF Init, AnswerInv
<1>2. OneInv /\ AnswerInv /\ [Next]_vars => (OneInv /\ AnswerInv)'
  BY OneNext, AnswerNext
<1>3. OneInv /\ AnswerInv => AnswerFindsSet
  <2> SUFFICES ASSUME OneInv, AnswerInv, place = "crashed", spoilt = {}
               PROVE  used.update > 0
    BY DEF AnswerFindsSet
  <2>1. used.update # 0
    BY DEF AnswerInv, Harmless
  <2>2. used.update \in Nat
    BY DEF OneInv, SerialInv, TypeInv, TypeOK
  <2> QED
    BY <2>1, <2>2
<1> QED
  BY <1>1, <1>2, <1>3, PTL DEF Spec
=============================================================================
