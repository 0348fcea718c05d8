----------------------------- MODULE PackSocket -----------------------------
(***************************************************************************)
(* The receiving half of packsocket.c: the byte FIFO into which            *)
(* server_start copies what recv returns, and the list of package          *)
(* fragments from which parseSocketCmd rebuilds the messages of the PC.    *)
(*                                                                         *)
(* A byte is its position in the stream of bytes received since the        *)
(* program started: the FIFO and the list are never reset, so the streams  *)
(* of successive connections follow one another.  pkgs holds the packages  *)
(* of that stream that are not consumed yet, list the fragments that are,  *)
(* both by their place in it: fragments are only appended, at the end of   *)
(* the list, so that their order in it is that of their places.  The       *)
(* payload is left out; no payload is taken to contain the sync mark.      *)
(***************************************************************************)
EXTENDS Integers, FiniteSets, Sequences

CONSTANTS
  Cmds,       \* commands of the PC
  Lasts,      \* values of lastNo: number of packages of a message, less one
  HeadLen,    \* bytes of the header (16)
  Trail,      \* bytes of the crc (4)
  Sizes,      \* sizes of the packages of the PC, header and crc included
  MaxSize,    \* the largest of them
  MaxLen,     \* FIFO_MAX_LEN
  RecvMax,    \* most bytes one recv returns (FIFO_MAX_LEN/2)
  Window,     \* bound: bytes on their way
  Messages,   \* bound: messages the PC sends
  Corrupts,   \* bound: packages whose crc is wrong
  Cuts        \* bound: disconnections

ASSUME LengthAssumption ==
  /\ HeadLen \in Nat \ {0} /\ Trail \in Nat \ {0}
  /\ MaxLen \in Nat /\ RecvMax \in Nat /\ MaxSize \in Nat
  /\ \A s \in Sizes : s \in Nat /\ s >= HeadLen + Trail /\ s <= MaxSize
  /\ RecvMax > 0 /\ MaxSize > 0
  /\ HeadLen + Trail <= MaxSize
  /\ MaxSize + RecvMax <= MaxLen + 1
ASSUME BoundAssumption ==
  Window \in Nat /\ Messages \in Nat /\ Corrupts \in Nat /\ Cuts \in Nat
ASSUME LastAssumption == Lasts \subseteq Nat

VARIABLES
  \* the PC and the network
  pkgs,       \* packages on their way or in the FIFO
  sending,    \* message the PC is in the middle of, or Nothing
  msgs,       \* messages begun
  put,        \* position of the last byte sent
  recvd,      \* position of the last byte that recv returned
  corrupts,   \* packages corrupted so far
  cuts,       \* disconnections so far
  \* cmd_fifo_t
  ring, read, write, len,
  \* the server thread and its fragment list
  phase,      \* "recv" or "parse"
  list,       \* fragments gstRecvSocketCmdList reaches
  torn,       \* a node of the list points to one that was freed
  \* what can be said of the run
  out,        \* messages returned by parseSocketCmd
  dropped,    \* a chunk did not fit and was dropped
  damaged     \* commands of which a package was lost or corrupted

senderVars == <<sending, msgs, put, corrupts, cuts>>
netVars == <<pkgs, senderVars>>
fifoVars == <<ring, read, write, len>>
listVars == <<list, torn, out>>
packVars == <<netVars, recvd, fifoVars, phase, listVars, dropped, damaged>>

Nothing == [cmd |-> "none"]
Slots == 0 .. MaxLen - 1
Fragment == [msg : Nat, cmd : Cmds, cur : Nat, last : Nat]
Node == [msg : Nat, cmd : Cmds, cur : Nat, last : Nat, start : Nat]
Package == [msg : Nat, cmd : Cmds, cur : Nat, last : Nat, start : Nat,
            end : Nat, size : Nat, bad : BOOLEAN]

PackInit ==
  /\ pkgs = {} /\ sending = Nothing /\ msgs = 0 /\ put = 0 /\ recvd = 0
  /\ corrupts = 0 /\ cuts = 0
  /\ ring = [i \in Slots |-> 0] /\ read = 0 /\ write = 0 /\ len = 0
  /\ phase = "recv" /\ list = {} /\ torn = FALSE /\ out = <<>>
  /\ dropped = FALSE /\ damaged = {}

-----------------------------------------------------------------------------
(* The PC.  It sends the packages of a message one after the other, as this *)
(* program's own sender does; two messages are never interleaved.          *)

Upcoming ==
  IF sending = Nothing
    THEN {[msg |-> msgs + 1, cmd |-> c, cur |-> 0, last |-> l] :
             c \in Cmds, l \in Lasts}
    ELSE {sending}

\* Only a package with a payload has a crc.
SendPackage ==
  \E f \in Upcoming, s \in Sizes, b \in BOOLEAN :
    /\ f.msg <= Messages
    /\ put + s - recvd <= Window
    /\ b => corrupts < Corrupts /\ s > HeadLen + Trail
    /\ pkgs' = pkgs \union
         {[msg |-> f.msg, cmd |-> f.cmd, cur |-> f.cur, last |-> f.last,
           start |-> put + 1, end |-> put + s, size |-> s, bad |-> b]}
    /\ sending' = IF f.cur = f.last THEN Nothing
                                    ELSE [f EXCEPT !.cur = f.cur + 1]
    /\ msgs' = f.msg
    /\ put' = put + s
    /\ corrupts' = IF b THEN corrupts + 1 ELSE corrupts
    /\ damaged' = IF b THEN damaged \union {f.cmd} ELSE damaged
    /\ UNCHANGED <<recvd, cuts, fifoVars, phase, listVars, dropped>>

\* Bytes behind position recvd are lost: of these packages only the bytes up
\* to there, if any, are left.
Shortened(lost) ==
  (pkgs \ lost) \union {[k EXCEPT !.end = recvd] : k \in {l \in lost : l.start <= recvd}}

\* The connection ends: recv returns 0, and the bytes on their way are lost.
\* The next one continues where the received bytes end.
Cut ==
  /\ phase = "recv" /\ cuts < Cuts
  /\ cuts' = cuts + 1
  /\ LET lost == {k \in pkgs : k.end > recvd}
     IN /\ pkgs' = Shortened(lost)
        /\ damaged' = damaged \union {k.cmd : k \in lost}
                        \union (IF sending = Nothing THEN {} ELSE {sending.cmd})
  /\ sending' = Nothing
  /\ put' = recvd
  /\ UNCHANGED <<msgs, corrupts, recvd, fifoVars, phase, listVars, dropped>>

-----------------------------------------------------------------------------
(* The FIFO.                                                               *)

\* write_cmd_fifo: n bytes, from position recvd + 1 of the stream, go to the
\* slots from write on, in one piece or in two.
Fits(n) == len + n <= MaxLen

\* Mutant: the test for the end of the buffer is off by one.
InTwoLate(n) == write >= read /\ write + n > MaxLen
InTwo(n) == write >= read /\ write + n >= MaxLen
WriteFifo(n) ==
  /\ ring' = IF InTwo(n)
               THEN [i \in Slots |->
                       IF i >= write THEN recvd + 1 + i - write
                       ELSE IF i < write + n - MaxLen
                              THEN recvd + 1 + i + MaxLen - write
                              ELSE ring[i]]
               ELSE [i \in Slots |->
                       IF i >= write /\ i < write + n
                         THEN recvd + 1 + i - write ELSE ring[i]]
  /\ write' = IF InTwo(n) THEN write + n - MaxLen ELSE write + n
  /\ len' = len + n
  /\ UNCHANGED read

\* A chunk that does not fit is dropped, with the packages it is part of.
DropChunk(n) ==
  LET lost == {k \in pkgs : k.start <= recvd + n /\ k.end > recvd}
  IN /\ dropped' = TRUE
     /\ pkgs' = Shortened(lost)
     /\ damaged' = damaged \union {k.cmd : k \in lost}

\* recv and recvSocketCmd.
Recv ==
  /\ phase = "recv"
  /\ \E n \in 1 .. RecvMax :
       /\ recvd + n <= put
       /\ recvd' = recvd + n
       /\ \/ Fits(n) /\ WriteFifo(n) /\ UNCHANGED <<pkgs, damaged, dropped>>
          \/ ~Fits(n) /\ DropChunk(n) /\ UNCHANGED fifoVars
  /\ phase' = "parse"
  /\ UNCHANGED <<senderVars, listVars>>

\* What the bytes at the read index are: the header of a package, the first
\* bytes of a header that was cut, or no header at all.
AtHead == {k \in pkgs : k.start = ring[read]}
HeaderWhole(k) == k.end - k.start + 1 >= HeadLen
InSync == len > 0 => \E k \in AtHead : HeaderWhole(k)

\* read_cmd_fifo.
ReadFifo(n) ==
  /\ read' = (read + n) % MaxLen
  /\ len' = len - n
  /\ UNCHANGED <<ring, write>>

-----------------------------------------------------------------------------
(* The fragment list.                                                      *)

Of(l, c) == {f \in l : f.cmd = c}
First(l) == CHOOSE f \in l : \A g \in l : f.start <= g.start

\* Mutant: one package too many is waited for.
CompleteLate(l, c) ==
  LET mine == Of(l, c) IN mine # {} /\ Cardinality(mine) > First(mine).last + 1

\* _checkRecvList2: as many fragments as the first of them announces.
Complete(l, c) ==
  LET mine == Of(l, c) IN mine # {} /\ Cardinality(mine) > First(mine).last

\* Mutant: the last kept node keeps its next pointer at the tail as well.
TearsAtTail(l, c) ==
  \E f, g \in l : f.cmd # c /\ g.cmd = c /\ f.start < g.start

\* _destoryRecvList2 unlinks at the head and at the tail only: a kept node
\* followed by a freed one, with another kept node behind, points to freed
\* memory from then on.
Tears(l, c) ==
  \E f, g, h \in l :
    /\ f.cmd # c /\ g.cmd = c /\ h.cmd # c
    /\ f.start < g.start /\ g.start < h.start
Destroy(l, c) ==
  /\ torn' = Tears(l, c)
  /\ list' = l \ Of(l, c)

\* Mutant: the fragments of every command are joined.
AssembleAll(l, c) ==
  IF Complete(l, c)
    THEN /\ Destroy(l, c)
         /\ out' = Append(out, [cmd |-> c, parts |-> l])
    ELSE /\ list' = l
         /\ UNCHANGED <<torn, out>>

\* The end of the loop body of parseSocketCmd: what is complete is joined,
\* in the order of arrival, and returned; else the next package is tried.
Assemble(l, c) ==
  IF Complete(l, c)
    THEN /\ Destroy(l, c)
         /\ out' = Append(out, [cmd |-> c, parts |-> Of(l, c)])
    ELSE /\ list' = l
         /\ UNCHANGED <<torn, out>>

\* The packages whose first byte is among the next n bytes of the FIFO.
Consumed(n) == {k \in pkgs : k.start <= ring[(read + n - 1) % MaxLen]}

\* A package that is all there.
TakeWhole ==
  /\ phase = "parse" /\ ~torn /\ len >= HeadLen + Trail
  /\ \E k \in AtHead :
       /\ k.end = k.start + k.size - 1
       /\ len >= k.size
       /\ ReadFifo(k.size)
       /\ LET f == [msg |-> k.msg, cmd |-> k.cmd, cur |-> k.cur, last |-> k.last,
                    start |-> k.start]
          IN Assemble(IF k.bad THEN list ELSE list \union {f}, k.cmd)
       /\ pkgs' = pkgs \ Consumed(k.size)
  /\ UNCHANGED <<senderVars, recvd, phase, dropped, damaged>>

\* A package that a disconnection or a dropped chunk cut short takes what followed for its own
\* bytes.  Its crc is then a chance value: right, 0 or wrong.  When the
\* header itself was cut every field is a chance value.
TakeMixed ==
  /\ phase = "parse" /\ ~torn /\ len >= HeadLen + Trail
  /\ \E k \in AtHead, s \in Sizes, c \in Cmds, l \in Lasts, ok \in BOOLEAN :
       /\ k.end < k.start + k.size - 1
       /\ HeaderWhole(k) => s = k.size /\ c = k.cmd /\ l = k.last
       /\ len >= s
       /\ ReadFifo(s)
       /\ LET f == [msg |-> 0, cmd |-> c, cur |-> k.cur, last |-> l,
                    start |-> k.start]
          IN Assemble(IF ok THEN list \union {f} ELSE list, c)
       /\ pkgs' = pkgs \ Consumed(s)
       /\ damaged' = damaged \union {c} \union {j.cmd : j \in Consumed(s)}
  /\ UNCHANGED <<senderVars, recvd, phase, dropped>>

\* Mutant: one call of parseSocketCmd for each recv.
ParseEndsEarly ==
  /\ phase = "parse" /\ ~torn
  /\ phase' = "recv"
  /\ UNCHANGED <<netVars, recvd, fifoVars, listVars, dropped, damaged>>

\* read_cmd_try_read fails: too few bytes, or no sync mark, and
\* parseSocketCmd returns NULL.  A cut header may announce any length.
ParseEnds ==
  /\ phase = "parse" /\ ~torn
  /\ \/ len < HeadLen + Trail
     \/ \A k \in AtHead : HeaderWhole(k) => len < k.size
  /\ phase' = "recv"
  /\ UNCHANGED <<netVars, recvd, fifoVars, listVars, dropped, damaged>>

PackNext == SendPackage \/ Cut \/ Recv \/ TakeWhole \/ TakeMixed \/ ParseEnds
PackSpec == PackInit /\ [][PackNext]_packVars

-----------------------------------------------------------------------------
PackTypeOK ==
  /\ pkgs \subseteq Package
  /\ sending = Nothing \/ sending \in Fragment
  /\ msgs \in Nat /\ put \in Nat /\ recvd \in Nat
  /\ corrupts \in Nat /\ cuts \in Nat
  /\ ring \in [Slots -> Nat]
  /\ read \in Slots /\ write \in Slots /\ len \in 0 .. MaxLen
  /\ phase \in {"recv", "parse"}
  /\ list \subseteq Node /\ torn \in BOOLEAN
  /\ out \in Seq([cmd : Cmds, parts : SUBSET Node])
  /\ dropped \in BOOLEAN /\ damaged \subseteq Cmds

\* The FIFO holds, from the read index on and around the end of the buffer,
\* the bytes of the stream that were received last and in their order, until
\* a chunk is dropped (the index arithmetic of write_cmd_fifo and
\* read_cmd_fifo).
RingHoldsStream ==
  /\ write = (read + len) % MaxLen
  /\ ~dropped => \A i \in 0 .. len - 1 :
                   ring[(read + i) % MaxLen] = recvd - len + 1 + i

\* A chunk of recv never finds the FIFO too full (recvSocketCmd's "buffer
\* too small!") as long as a header is at the read index: what
\* parseSocketCmd leaves behind is less than a package.
RoomWhileInSync == phase = "recv" /\ InSync => len + RecvMax <= MaxLen

\* A command none of whose packages was lost or corrupted is rebuilt from
\* the packages of one message, all of them and in order, and its messages
\* come in the order they were sent, whatever the other commands left in
\* the shared list.
Whole(m) ==
  /\ {f.cur : f \in m.parts} = 0 .. First(m.parts).last
  /\ \A f, g \in m.parts : f.msg = g.msg /\ (f.start < g.start <=> f.cur < g.cur)
UndamagedIntact ==
  \A i \in DOMAIN out : out[i].cmd \notin damaged =>
    /\ Whole(out[i])
    /\ \A j \in 1 .. i - 1 : out[j].cmd = out[i].cmd =>
         \A f \in out[j].parts, g \in out[i].parts : f.msg < g.msg

\* The list is not torn by messages sent one after the other unless the
\* command whose fragments are freed and one that is kept both have lost
\* packages; three must have when no message has more than two packages, so
\* that a command keeps one fragment at most.
TornTakesDamage ==
  torn => /\ Cardinality(damaged) >= 2
          /\ Lasts \subseteq {0, 1} => Cardinality(damaged) >= 3

\* Without a lost or corrupted package every message of the PC has been
\* returned by parseSocketCmd, whole and in the order of sending, when the
\* server thread waits for data and none is on its way.
AllDelivered ==
  phase = "recv" /\ recvd = put /\ sending = Nothing /\ damaged = {} =>
    /\ Len(out) = msgs
    /\ \A m \in DOMAIN out : Whole(out[m]) /\ \A f \in out[m].parts : f.msg = m
=============================================================================
