------------------------- MODULE ConnectionProofs --------------------------
(***************************************************************************)
(* Theorems of the connection to the PC, in three parts.                   *)
(*                                                                         *)
(* Its bytes: the FIFO of packsocket.c for every size of buffer, chunk and *)
(* package that LengthAssumption allows holds the last bytes of the stream *)
(* in order, and a chunk finds room as long as a header is at the read     *)
(* index.                                                                  *)
(*                                                                         *)
(* Its messages: what is rebuilt from the one list in which parseSocketCmd *)
(* collects the packages of all commands.  Packages in the FIFO and nodes of *)
(* the list are fragments of messages, in one order of places.  A fragment *)
(* is sound while its command lost nothing; the invariant follows the sound *)
(* ones: with one, those sent before it in its message are there, and those *)
(* sent after it come before any fragment of another command.              *)
(*                                                                         *)
(* Its sockets: the threads of client.c, for any number of descriptors,    *)
(* any limit and any number of times the PC leaves.  Four threads read and *)
(* write send_fd and client_socket without a lock, and the kernel gives a  *)
(* closed number to the next connection, so a stale number may name a      *)
(* connection of the other thread.  The invariant therefore follows the    *)
(* connections by the thread that opened them: one that is open is still   *)
(* in the variable of its thread, which is at a place where it will close  *)
(* it, or the guard or the heartbeat overwrote that variable.              *)
(***************************************************************************)
EXTENDS PackSocket, Link, WellFoundedInduction, FiniteSetTheorems, FunctionTheorems,
        TLAPS

\* Indices of the ring: a sum below twice the size comes round at most once.
LEMMA ModBelow == \A x, m \in Nat : m > 0 /\ x < m => x % m = x
  BY SMT
LEMMA ModAround == \A x, m \in Nat : m > 0 /\ m <= x /\ x < m + m => x % m = x - m
  BY SMT
LEMMA ModRange == \A x \in Int, m \in Nat \ {0} : x % m \in 0 .. m - 1
  BY SMT

LEMMA Sizes4 ==
  /\ MaxLen \in Nat /\ MaxLen > 0 /\ RecvMax \in Nat /\ MaxSize \in Nat
  /\ HeadLen \in Nat /\ Trail \in Nat /\ HeadLen > 0 /\ Trail > 0
  /\ HeadLen + Trail <= MaxSize /\ MaxSize + RecvMax <= MaxLen + 1
  /\ RecvMax <= MaxLen
  /\ \A s \in Sizes : s \in Nat /\ s > 0 /\ s <= MaxSize
  BY LengthAssumption

-----------------------------------------------------------------------------
(* The indices, the bytes and the packages. *)

Indices ==
  /\ ring \in [Slots -> Nat]
  /\ read \in Slots /\ write \in Slots /\ len \in 0 .. MaxLen
  /\ recvd \in Nat /\ put \in Nat /\ recvd <= put
  /\ write = (read + len) % MaxLen

\* No byte of the buffer is newer than what was received.
NoneAhead == \A i \in Slots : ring[i] <= recvd

Packages ==
  \A k \in pkgs : k \in Package /\ k.size \in Sizes

SenderTyped == msgs \in Nat /\ (sending = Nothing \/ sending \in Fragment)

\* What parseSocketCmd leaves is less than the package at the read index,
\* unless there is no header.
Remainder == phase = "recv" => \A k \in AtHead : HeaderWhole(k) => len < k.size

FifoInv == Indices /\ NoneAhead /\ Packages /\ SenderTyped /\ RingHoldsStream /\ Remainder

LEMMA InitFifo == PackInit => FifoInv
  <1> SUFFICES ASSUME PackInit PROVE FifoInv OBVIOUS
  <1> USE Sizes4 DEF PackInit, Slots
  <1>1. Indices
    <2>1. (0 + 0) % MaxLen = 0 BY ModBelow
    <2> QED BY <2>1 DEF Indices
  <1>2. NoneAhead BY DEF NoneAhead
  <1>3. Packages BY DEF Packages
  <1>6. SenderTyped BY DEF SenderTyped
  <1>4. RingHoldsStream BY <1>1 DEF RingHoldsStream, Indices
  <1>5. Remainder BY DEF Remainder, AtHead
  <1> QED BY <1>1, <1>2, <1>3, <1>4, <1>5, <1>6 DEF FifoInv

-----------------------------------------------------------------------------
(* recvSocketCmd. *)

\* Where the byte i places behind the read index is.
LEMMA Place ==
  ASSUME Indices, NEW i \in Nat, i <= MaxLen
  PROVE  (read + i) % MaxLen = IF read + i < MaxLen THEN read + i
                                                    ELSE read + i - MaxLen
  BY Sizes4, ModBelow, ModAround DEF Indices, Slots

LEMMA WriteAt ==
  ASSUME Indices
  PROVE  write = IF read + len < MaxLen THEN read + len ELSE read + len - MaxLen
  BY Place, Sizes4 DEF Indices

\* What write_cmd_fifo puts there: the bytes that were in the FIFO stay at
\* their places, the new ones follow.
LEMMA WrittenAt ==
  ASSUME Indices, NEW n \in 1 .. RecvMax, Fits(n), WriteFifo(n),
         NEW i \in 0 .. len + n - 1
  PROVE  ring'[(read + i) % MaxLen] =
           IF i < len THEN ring[(read + i) % MaxLen] ELSE recvd + 1 + (i - len)
  <1> USE Sizes4
  <1> DEFINE p == IF read + i < MaxLen THEN read + i ELSE read + i - MaxLen
  <1>0. n \in Nat /\ n > 0 /\ len + n <= MaxLen BY DEF Fits
  <1>1. write = IF read + len < MaxLen THEN read + len ELSE read + len - MaxLen
    BY WriteAt
  <1>2. read \in Nat /\ len \in Nat /\ write \in Nat /\ recvd \in Nat
        /\ read < MaxLen /\ write < MaxLen
    BY DEF Indices, Slots
  <1>3. i \in Nat /\ i < len + n /\ i <= MaxLen BY <1>0, <1>2
  <1>4. (read + i) % MaxLen = p BY <1>3, Place
  <1>5. p \in Slots /\ p \in Nat BY <1>3, <1>0, <1>2 DEF Slots
  <1>6. CASE i < len
    <2>1. CASE InTwo(n)
      <3>1. ~(p >= write) /\ ~(p < write + n - MaxLen)
        BY <2>1, <1>3, <1>5, <1>6, <1>0, <1>1, <1>2 DEF InTwo
      <3>2. ring'[p] = ring[p] BY <2>1, <3>1, <1>5 DEF WriteFifo
      <3> QED BY <3>2, <1>4, <1>6
    <2>2. CASE ~InTwo(n)
      <3>1. ~(p >= write /\ p < write + n)
        BY <2>2, <1>3, <1>5, <1>6, <1>0, <1>1, <1>2 DEF InTwo
      <3>2. ring'[p] = ring[p] BY <2>2, <3>1, <1>5 DEF WriteFifo
      <3> QED BY <3>2, <1>4, <1>6
    <2> QED BY <2>1, <2>2
  <1>7. CASE ~(i < len)
    <2>1. CASE InTwo(n)
      <3>1. CASE p >= write
        <4>1. ring'[p] = recvd + 1 + p - write BY <2>1, <3>1, <1>5 DEF WriteFifo
        <4>2. p - write = i - len
          BY <2>1, <3>1, <1>3, <1>5, <1>7, <1>0, <1>1, <1>2 DEF InTwo
        <4> QED BY <4>1, <4>2, <1>3, <1>4, <1>5, <1>7, <1>2
      <3>2. CASE ~(p >= write)
        <4>1. p < write + n - MaxLen /\ p + MaxLen - write = i - len
          BY <2>1, <3>2, <1>3, <1>5, <1>7, <1>0, <1>1, <1>2 DEF InTwo
        <4>2. ring'[p] = recvd + 1 + p + MaxLen - write
          BY <2>1, <3>2, <4>1, <1>5 DEF WriteFifo
        <4> QED BY <4>1, <4>2, <1>3, <1>4, <1>5, <1>7, <1>2
      <3> QED BY <3>1, <3>2
    <2>2. CASE ~InTwo(n)
      <3>1. p >= write /\ p < write + n /\ p - write = i - len
        BY <2>2, <1>3, <1>5, <1>7, <1>0, <1>1, <1>2 DEF InTwo
      <3>2. ring'[p] = recvd + 1 + p - write BY <2>2, <3>1, <1>5 DEF WriteFifo
      <3> QED BY <3>1, <3>2, <1>3, <1>4, <1>5, <1>7, <1>2
    <2> QED BY <2>1, <2>2
  <1> QED BY <1>6, <1>7

LEMMA Written ==
  ASSUME FifoInv, NEW n \in 1 .. RecvMax, Fits(n), WriteFifo(n),
         recvd' = recvd + n, recvd + n <= put, put' = put, dropped' = dropped
  PROVE  Indices' /\ NoneAhead' /\ RingHoldsStream'
  <1> USE Sizes4 DEF FifoInv
  <1>0. n \in Nat /\ n > 0 /\ len + n <= MaxLen BY DEF Fits
  <1>1. write = IF read + len < MaxLen THEN read + len ELSE read + len - MaxLen
    BY WriteAt
  <1>2. read \in Nat /\ len \in Nat /\ write \in Nat /\ recvd \in Nat
        /\ read < MaxLen /\ write < MaxLen
    BY DEF Indices, Slots
  <1>3. /\ read' = read /\ len' = len + n
        /\ write' = IF InTwo(n) THEN write + n - MaxLen ELSE write + n
    BY DEF WriteFifo
  <1>4. write' \in Slots
    BY <1>0, <1>1, <1>2, <1>3 DEF InTwo, Slots
  <1>5. (read + (len + n)) % MaxLen = IF read + (len + n) < MaxLen THEN read + (len + n)
                                      ELSE read + (len + n) - MaxLen
    BY Place, <1>0, <1>2
  <1>6. write' = (read' + len') % MaxLen
    BY <1>0, <1>1, <1>2, <1>3, <1>5 DEF InTwo
  <1>7. ring' \in [Slots -> Nat]
    <2>1. CASE InTwo(n) BY <2>1, <1>0, <1>2 DEF WriteFifo, InTwo, Slots, Indices
    <2>2. CASE ~InTwo(n) BY <2>2, <1>0, <1>2 DEF WriteFifo, InTwo, Slots, Indices
    <2> QED BY <2>1, <2>2
  <1>8. Indices'
    BY <1>0, <1>2, <1>3, <1>4, <1>6, <1>7 DEF Indices, Slots
  <1>9. NoneAhead'
    <2>1. CASE InTwo(n)
      BY <2>1, <1>0, <1>2 DEF WriteFifo, InTwo, Slots, Indices, NoneAhead
    <2>2. CASE ~InTwo(n)
      BY <2>2, <1>0, <1>2 DEF WriteFifo, InTwo, Slots, Indices, NoneAhead
    <2> QED BY <2>1, <2>2
  <1>10. ASSUME ~dropped, NEW i \in 0 .. len + n - 1
         PROVE  ring'[(read + i) % MaxLen] = recvd + n - (len + n) + 1 + i
    <2>1. ring'[(read + i) % MaxLen] =
            IF i < len THEN ring[(read + i) % MaxLen] ELSE recvd + 1 + (i - len)
      BY WrittenAt
    <2>2. CASE i < len
      <3>1. ring[(read + i) % MaxLen] = recvd - len + 1 + i
        BY <2>2, <1>2, <1>10 DEF RingHoldsStream
      <3> QED BY <2>1, <2>2, <3>1, <1>0, <1>2
    <2>3. CASE ~(i < len) BY <2>1, <2>3, <1>0, <1>2
    <2> QED BY <2>2, <2>3
  <1>11. RingHoldsStream'
    BY <1>2, <1>3, <1>6, <1>10 DEF RingHoldsStream
  <1> QED BY <1>8, <1>9, <1>11

-----------------------------------------------------------------------------
(* read_cmd_fifo. *)

\* The byte i places behind the new read index was n places further.
LEMMA TakenAt ==
  ASSUME Indices, NEW n \in Nat, n <= len, ReadFifo(n), NEW i \in Nat, n + i <= len
  PROVE  (read' + i) % MaxLen = (read + (n + i)) % MaxLen
  <1> USE Sizes4
  <1>1. read \in Nat /\ len \in Nat /\ read < MaxLen /\ len <= MaxLen
    BY DEF Indices, Slots
  <1>2. read' = IF read + n < MaxLen THEN read + n ELSE read + n - MaxLen
    BY <1>1, Place DEF ReadFifo
  <1>3. (read + (n + i)) % MaxLen = IF read + (n + i) < MaxLen THEN read + (n + i)
                                    ELSE read + (n + i) - MaxLen
    BY <1>1, Place
  <1>4. PICK r \in Nat : r = read' BY <1>1, <1>2
  <1>5. r < MaxLen /\ i <= MaxLen BY <1>1, <1>2, <1>4
  <1>6. (r + i) % MaxLen = IF r + i < MaxLen THEN r + i ELSE r + i - MaxLen
    BY <1>5, ModBelow, ModAround
  <1> QED BY <1>1, <1>2, <1>3, <1>4, <1>6

LEMMA Taken ==
  ASSUME FifoInv, NEW n \in Nat, n <= len, ReadFifo(n),
         recvd' = recvd, put' = put, dropped' = dropped
  PROVE  Indices' /\ NoneAhead' /\ RingHoldsStream'
  <1> USE Sizes4 DEF FifoInv
  <1>1. read \in Nat /\ len \in Nat /\ recvd \in Nat /\ read < MaxLen /\ len <= MaxLen
    BY DEF Indices, Slots
  <1>2. read' = (read + n) % MaxLen /\ len' = len - n /\ ring' = ring /\ write' = write
    BY DEF ReadFifo
  <1>3. read' = IF read + n < MaxLen THEN read + n ELSE read + n - MaxLen
    BY <1>1, <1>2, Place
  <1>4. read' \in Slots BY <1>1, <1>3 DEF Slots
  <1>5. ASSUME NEW i \in Nat, n + i <= len
        PROVE  (read' + i) % MaxLen = (read + (n + i)) % MaxLen
    BY <1>5, TakenAt DEF FifoInv
  <1>6. write' = (read' + len') % MaxLen
    <2>1. (read' + (len - n)) % MaxLen = (read + (n + (len - n))) % MaxLen
      BY <1>1, <1>5
    <2>2. n + (len - n) = len BY <1>1
    <2> QED BY <2>1, <2>2, <1>2 DEF Indices
  <1>7. Indices'
    BY <1>1, <1>2, <1>4, <1>6 DEF Indices
  <1>8. NoneAhead'
    BY <1>2 DEF NoneAhead
  <1>9. ASSUME ~dropped, NEW i \in 0 .. len - n - 1
        PROVE  ring[(read' + i) % MaxLen] = recvd - (len - n) + 1 + i
    <2>1. (read' + i) % MaxLen = (read + (n + i)) % MaxLen BY <1>1, <1>5, <1>9
    <2>2. ring[(read + (n + i)) % MaxLen] = recvd - len + 1 + (n + i)
      <3>1. n + i \in 0 .. len - 1 BY <1>1, <1>9
      <3> QED BY <3>1, <1>9 DEF RingHoldsStream
    <2> QED BY <2>1, <2>2, <1>1
  <1>10. RingHoldsStream'
    BY <1>2, <1>6, <1>9 DEF RingHoldsStream
  <1> QED BY <1>7, <1>8, <1>10

\* A step that leaves the FIFO alone.
LEMMA Untouched ==
  ASSUME FifoInv, UNCHANGED <<fifoVars, recvd, dropped>>, put' \in Nat, recvd <= put'
  PROVE  Indices' /\ NoneAhead' /\ RingHoldsStream'
  BY DEF FifoInv, Indices, NoneAhead, RingHoldsStream, fifoVars, Slots

\* A package whose end is lost keeps its place and its announced size.
LEMMA Shorten ==
  ASSUME FifoInv, NEW lost \in SUBSET pkgs, \A k \in lost : k.end > recvd,
         pkgs' = Shortened(lost)
  PROVE  /\ Packages'
         /\ \A j \in pkgs' : \E k \in pkgs :
              /\ k.start = j.start /\ k.size = j.size /\ j.end <= k.end
              /\ {j.start, j.end, k.end} \subseteq Nat
  <1>1. recvd \in Nat /\ \A k \in pkgs : k \in Package /\ k.size \in Sizes
    BY DEF FifoInv, Indices, Packages
  <1>2. ASSUME NEW k \in lost
        PROVE  LET j == [k EXCEPT !.end = recvd]
               IN /\ j \in Package /\ j.size = k.size
                  /\ j.start = k.start /\ j.end = recvd /\ recvd <= k.end
    BY <1>1, <1>2 DEF Package
  <1>3. ASSUME NEW j \in pkgs'
        PROVE  /\ j \in Package /\ j.size \in Sizes
               /\ \E k \in pkgs : k.start = j.start /\ k.size = j.size /\ j.end <= k.end
                                  /\ {j.start, j.end, k.end} \subseteq Nat
    <2>1. CASE j \in pkgs BY <2>1, <1>1 DEF Package
    <2>2. CASE \E k \in lost : j = [k EXCEPT !.end = recvd]
      <3>1. PICK k \in lost : j = [k EXCEPT !.end = recvd] BY <2>2
      <3>2. /\ j \in Package /\ j.size = k.size
            /\ j.start = k.start /\ j.end = recvd /\ recvd <= k.end
        BY <3>1, <1>2
      <3>3. k \in pkgs /\ k \in Package /\ k.size \in Sizes BY <1>1
      <3> QED BY <3>2, <3>3 DEF Package
    <2> QED BY <2>1, <2>2, <1>3 DEF Shortened
  <1> QED BY <1>3 DEF Packages

-----------------------------------------------------------------------------
(* One step per action. *)

LEMMA StepFifo == FifoInv /\ [PackNext]_packVars => FifoInv'
  <1> SUFFICES ASSUME FifoInv, [PackNext]_packVars PROVE FifoInv' OBVIOUS
  <1> USE Sizes4
  <1>t. recvd \in Nat /\ put \in Nat /\ recvd <= put /\ len \in Nat /\ len <= MaxLen
        /\ read \in Slots /\ ring[read] \in Nat /\ ring[read] <= recvd
    BY DEF FifoInv, Indices, NoneAhead
  <1>1. CASE SendPackage
    <2>1. PICK f \in Upcoming, s \in Sizes, b \in BOOLEAN :
            /\ pkgs' = pkgs \union
                 {[msg |-> f.msg, cmd |-> f.cmd, cur |-> f.cur, last |-> f.last,
                   start |-> put + 1, end |-> put + s, size |-> s, bad |-> b]}
            /\ put' = put + s /\ msgs' = f.msg
            /\ sending' = IF f.cur = f.last THEN Nothing
                                            ELSE [f EXCEPT !.cur = f.cur + 1]
      BY <1>1 DEF SendPackage
    <2>2. UNCHANGED <<recvd, fifoVars, phase, dropped>> BY <1>1 DEF SendPackage
    <2>3. Indices' /\ NoneAhead' /\ RingHoldsStream'
      BY <2>1, <2>2, <1>t, Untouched
    <2>7. f \in Fragment
      BY LastAssumption DEF FifoInv, SenderTyped, Upcoming, Fragment
    <2>8. SenderTyped' BY <2>1, <2>7 DEF SenderTyped, Fragment
    <2>4. Packages'
      BY <2>1, <2>7, <1>t DEF FifoInv, Packages, Package, Fragment
    <2>5. AtHead' = AtHead
      BY <2>1, <2>2, <1>t DEF AtHead, fifoVars
    <2>6. Remainder'
      BY <2>2, <2>5 DEF FifoInv, Remainder, HeaderWhole, fifoVars
    <2> QED BY <2>3, <2>4, <2>6, <2>8 DEF FifoInv
  <1>2. CASE Cut
    <2> DEFINE lost == {k \in pkgs : k.end > recvd}
    <2>1. pkgs' = Shortened(lost) /\ put' = recvd BY <1>2 DEF Cut
    <2>2. UNCHANGED <<recvd, fifoVars, phase, dropped>> BY <1>2 DEF Cut
    <2>3. Indices' /\ NoneAhead' /\ RingHoldsStream'
      BY <2>1, <2>2, <1>t, Untouched
    <2>4. lost \in SUBSET pkgs /\ \A k \in lost : k.end > recvd OBVIOUS
    <2>5. /\ Packages'
          /\ \A j \in pkgs' : \E k \in pkgs :
               /\ k.start = j.start /\ k.size = j.size /\ j.end <= k.end
               /\ {j.start, j.end, k.end} \subseteq Nat
      <3> HIDE DEF lost
      <3> QED BY <2>1, <2>4, Shorten
    <2>8. SenderTyped' BY <1>2 DEF Cut, FifoInv, SenderTyped
    <2>6. ASSUME NEW j \in AtHead', HeaderWhole(j)'
          PROVE  \E k \in AtHead : HeaderWhole(k) /\ k.size = j.size
      <3>1. j \in pkgs' /\ j.start = ring[read] BY <2>2 DEF AtHead, fifoVars
      <3>2. PICK k \in pkgs :
               /\ k.start = j.start /\ k.size = j.size /\ j.end <= k.end
               /\ {j.start, j.end, k.end} \subseteq Nat
        BY <3>1, <2>5
      <3>3. k \in AtHead BY <3>1, <3>2 DEF AtHead
      <3>4. HeaderWhole(k) BY <2>6, <3>2 DEF HeaderWhole
      <3> QED BY <3>2, <3>3, <3>4
    <2>7. Remainder'
      BY <2>2, <2>6 DEF FifoInv, Remainder, fifoVars
    <2> QED BY <2>3, <2>5, <2>7, <2>8 DEF FifoInv
  <1>3. CASE Recv
    <2>1. UNCHANGED senderVars /\ phase' = "parse" BY <1>3 DEF Recv
    <2>2. put' = put /\ SenderTyped' BY <2>1 DEF FifoInv, SenderTyped, senderVars
    <2>3. Remainder' BY <2>1 DEF Remainder
    <2>4. PICK n \in 1 .. RecvMax :
            /\ recvd + n <= put /\ recvd' = recvd + n
            /\ \/ Fits(n) /\ WriteFifo(n) /\ UNCHANGED <<pkgs, damaged, dropped>>
               \/ ~Fits(n) /\ DropChunk(n) /\ UNCHANGED fifoVars
      BY <1>3 DEF Recv
    <2>5. CASE Fits(n)
      <3>1. Indices' /\ NoneAhead' /\ RingHoldsStream'
        BY <2>2, <2>4, <2>5, Written
      <3>2. Packages' BY <2>4, <2>5 DEF FifoInv, Packages
      <3> QED BY <3>1, <3>2, <2>2, <2>3 DEF FifoInv
    <2>6. CASE ~Fits(n)
      <3> DEFINE lost == {k \in pkgs : k.start <= recvd + n /\ k.end > recvd}
      <3>1. dropped' /\ UNCHANGED fifoVars /\ pkgs' = Shortened(lost)
        BY <2>4, <2>6 DEF DropChunk
      <3>2. Indices' /\ NoneAhead' /\ RingHoldsStream'
        BY <3>1, <2>2, <2>4, <1>t DEF FifoInv, Indices, NoneAhead, RingHoldsStream, fifoVars, Slots
      <3>3. lost \in SUBSET pkgs /\ \A k \in lost : k.end > recvd OBVIOUS
      <3>4. Packages'
        <4> HIDE DEF lost
        <4> QED BY <3>1, <3>3, Shorten
      <3> QED BY <3>2, <3>4, <2>2, <2>3 DEF FifoInv
    <2> QED BY <2>5, <2>6
  <1>4. CASE TakeWhole
    <2>1. PICK k \in AtHead :
            /\ len >= k.size /\ ReadFifo(k.size)
            /\ pkgs' = pkgs \ Consumed(k.size)
      BY <1>4 DEF TakeWhole
    <2>2. UNCHANGED <<sending, msgs, put, recvd, phase, dropped>> /\ phase = "parse"
      BY <1>4 DEF TakeWhole, senderVars
    <2>3. k.size \in Nat BY <2>1 DEF FifoInv, Packages, AtHead
    <2>4. Indices' /\ NoneAhead' /\ RingHoldsStream' BY <2>1, <2>2, <2>3, Taken
    <2>5. Packages' /\ SenderTyped' BY <2>1, <2>2 DEF FifoInv, Packages, SenderTyped
    <2>6. Remainder' BY <2>2 DEF Remainder
    <2> QED BY <2>4, <2>5, <2>6 DEF FifoInv
  <1>5. CASE TakeMixed
    <2>1. PICK s \in Sizes :
            len >= s /\ ReadFifo(s) /\ pkgs' = pkgs \ Consumed(s)
      BY <1>5 DEF TakeMixed
    <2>2. UNCHANGED <<sending, msgs, put, recvd, phase, dropped>> /\ phase = "parse"
      BY <1>5 DEF TakeMixed, senderVars
    <2>3. s \in Nat OBVIOUS
    <2>4. Indices' /\ NoneAhead' /\ RingHoldsStream' BY <2>1, <2>2, <2>3, Taken
    <2>5. Packages' /\ SenderTyped' BY <2>1, <2>2 DEF FifoInv, Packages, SenderTyped
    <2>6. Remainder' BY <2>2 DEF Remainder
    <2> QED BY <2>4, <2>5, <2>6 DEF FifoInv
  <1>6. CASE ParseEnds
    <2>1. UNCHANGED <<netVars, recvd, fifoVars, dropped>> BY <1>6 DEF ParseEnds
    <2>2. Indices' /\ NoneAhead' /\ RingHoldsStream'
      BY <2>1, <1>t, Untouched DEF netVars, senderVars
    <2>3. Packages' /\ SenderTyped' BY <2>1 DEF FifoInv, Packages, SenderTyped, netVars, senderVars
    <2>4. \A k \in AtHead : HeaderWhole(k) => len < k.size
      <3>1. \A k \in AtHead : k.size \in Nat /\ k.size >= HeadLen + Trail
        BY LengthAssumption DEF FifoInv, Packages, AtHead
      <3> QED BY <3>1, <1>6, <1>t DEF ParseEnds
    <2>5. Remainder'
      BY <2>1, <2>4 DEF Remainder, AtHead, HeaderWhole, fifoVars, netVars, senderVars
    <2> QED BY <2>2, <2>3, <2>5 DEF FifoInv
  <1>7. CASE UNCHANGED packVars
    <2>1. UNCHANGED <<netVars, recvd, fifoVars, phase, dropped>> BY <1>7 DEF packVars
    <2>2. Indices' /\ NoneAhead' /\ RingHoldsStream'
      BY <2>1, <1>t, Untouched DEF netVars, senderVars
    <2>3. Packages' /\ SenderTyped' /\ Remainder'
      BY <2>1 DEF FifoInv, Packages, SenderTyped, Remainder, AtHead, HeaderWhole, fifoVars, netVars, senderVars
    <2> QED BY <2>2, <2>3 DEF FifoInv
  <1> QED BY <1>1, <1>2, <1>3, <1>4, <1>5, <1>6, <1>7 DEF PackNext

THEOREM FifoInvariant == PackSpec => []FifoInv
  <1> QED BY InitFifo, StepFifo, PTL DEF PackSpec

\* For every size of buffer, chunk and package: what is read from the FIFO
\* is the received stream, in order, as long as no chunk was dropped
\* (write_cmd_fifo, read_cmd_fifo).
THEOREM StreamIsKept == PackSpec => []RingHoldsStream
  <1>1. FifoInv => RingHoldsStream BY DEF FifoInv
  <1> QED BY <1>1, FifoInvariant, PTL

\* For every such size: "buffer too small!" of recvSocketCmd needs a lost
\* header.  With one at the read index the largest chunk fits.
THEOREM ChunksFit == PackSpec => []RoomWhileInSync
  <1>1. FifoInv => RoomWhileInSync
    <2> SUFFICES ASSUME FifoInv, phase = "recv", InSync PROVE len + RecvMax <= MaxLen
      BY DEF RoomWhileInSync
    <2>1. len \in Nat BY DEF FifoInv, Indices
    <2>2. CASE len = 0 BY <2>2, Sizes4
    <2>3. CASE len > 0
      <3>2. PICK k \in AtHead : HeaderWhole(k) BY <2>3 DEF InSync
      <3>3. k.size \in Nat /\ k.size <= MaxSize
        BY <3>2, Sizes4 DEF AtHead, FifoInv, Packages
      <3>1. len < MaxSize BY <3>2, <3>3, <2>1, Sizes4 DEF FifoInv, Remainder
      <3> QED BY <2>1, <3>1, Sizes4
    <2> QED BY <2>1, <2>2, <2>3
  <1> QED BY <1>1, FifoInvariant, PTL

-----------------------------------------------------------------------------
(* The packages in the stream. *)

\* The byte i places behind the read index.
Byte(i) == ring[(read + i) % MaxLen]

\* All bytes of the package were sent and none was lost.
Unbroken(k) == k.end = k.start + k.size - 1

\* The bytes in the FIFO are in the order of the stream.
Rising == \A i, j \in 0 .. len - 1 : i < j => Byte(i) < Byte(j)

\* Packages follow one another; one that is broken or bad has damaged its
\* command.
Apart ==
  \A k \in pkgs :
    /\ k.start > 0 /\ k.start <= k.end /\ k.end <= put
    /\ k.end <= k.start + k.size - 1
    /\ k.cmd \notin damaged => Unbroken(k) /\ ~k.bad
    /\ \A j \in pkgs : j # k => j.end < k.start \/ k.end < j.start

\* An unbroken package is in the FIFO without a gap, from its first byte on
\* and as far as it was received.
Gapless ==
  \A k \in pkgs : Unbroken(k) =>
    /\ k.start <= recvd => \E i \in 0 .. len - 1 : Byte(i) = k.start
    /\ \A i \in 0 .. len - 1 : Byte(i) = k.start =>
         /\ \A d \in 0 .. k.size - 1 : i + d < len => Byte(i + d) = k.start + d
         /\ i + k.size > len => Byte(len - 1) = recvd

StreamInv == Rising /\ Apart /\ Gapless /\ IsFiniteSet(pkgs) /\ IsFiniteSet(damaged)

\* What the PC sent and parseSocketCmd has not joined yet.
Fragments == list \union pkgs
Sound == {e \in Fragments : e.cmd \notin damaged}

\* The list is behind the stream.
ListBehind ==
  /\ \A f \in list : /\ f.start <= recvd /\ f.last \in Lasts
                     /\ \A k \in pkgs : f.start < k.start
  /\ \A f, g \in list : f.start = g.start => f = g
  /\ \A k \in pkgs : k.last \in Lasts

\* Sound fragments are in the order of sending.
InOrder ==
  \A e, g \in Sound :
    /\ e.start < g.start => e.msg < g.msg \/ (e.msg = g.msg /\ e.cur < g.cur)
    /\ e.msg = g.msg => e.cmd = g.cmd /\ e.last = g.last

\* With a sound fragment, those that the PC sent before it in the same
\* message are there.
NoneMissing ==
  \A e \in Sound :
    /\ e.cur <= e.last /\ e.msg <= msgs
    /\ \A n \in Nat : n < e.cur => \E g \in Sound : g.msg = e.msg /\ g.cur = n

\* No message of a sound command is complete in the list.
Incomplete ==
  \A f \in list : f.cmd \notin damaged =>
    /\ f.cur < f.last
    /\ \A g \in list : g.cmd = f.cmd => g.msg = f.msg

\* The rest of the message of a sound fragment is there or being sent, and
\* comes before every fragment of another command that is behind it.
RestFollows ==
  \A e \in Sound :
    /\ \/ \E g \in Sound : g.msg = e.msg /\ g.cur = g.last
       \/ sending # Nothing /\ sending.msg = e.msg
    /\ \A h \in Fragments : h.cmd # e.cmd /\ e.start < h.start =>
         \E g \in Sound : g.msg = e.msg /\ g.cur = g.last /\ g.start < h.start

\* Where the PC is in its message.
SenderPlace ==
  sending # Nothing =>
    /\ sending.msg = msgs /\ sending.cur <= sending.last /\ sending.last \in Lasts
    /\ \A e \in Sound : e.msg = msgs =>
         e.cmd = sending.cmd /\ e.cur < sending.cur /\ e.last = sending.last
    /\ sending.cmd \notin damaged =>
         \A n \in Nat : n < sending.cur => \E g \in Sound : g.msg = msgs /\ g.cur = n

\* What was returned is older than what is still there.
Returned ==
  \A i \in DOMAIN out : out[i].cmd \notin damaged =>
    \A f \in out[i].parts :
      /\ f.msg <= msgs
      /\ \A e \in Sound : e.cmd = out[i].cmd => f.msg < e.msg
      /\ sending # Nothing /\ sending.cmd = out[i].cmd => f.msg < sending.msg

\* What torn takes.
Single == Lasts \subseteq {0, 1} => \A f, g \in list : f.cmd = g.cmd => f = g
TornCosts ==
  torn => \E c, d \in damaged :
            /\ c # d
            /\ Lasts \subseteq {0, 1} => \E e \in damaged : e # c /\ e # d

\* Without damage nothing is missing between the messages returned and those begun.
Tiled ==
  damaged = {} =>
    \A p \in Nat : (recvd < p /\ p <= put) \/ (\E i \in 0 .. len - 1 : Byte(i) = p) =>
      \E k \in pkgs : k.start <= p /\ p <= k.end
Numbered ==
  damaged = {} =>
    /\ Len(out) <= msgs
    /\ \A i \in DOMAIN out : \A f \in out[i].parts : f.msg = i
    /\ \A e \in Fragments : e.msg > Len(out)
    /\ sending # Nothing => sending.msg > Len(out)
    /\ \A m \in Len(out) + 1 .. msgs :
         (\E e \in Fragments : e.msg = m) \/ (sending # Nothing /\ sending.msg = m)

ListTypes ==
  /\ list \subseteq Node /\ damaged \subseteq Cmds
  /\ out \in Seq([cmd : Cmds, parts : SUBSET Node])

FragInv == InOrder /\ NoneMissing /\ RestFollows /\ SenderPlace

\* The same fragment, on its way or in the list.
Alike(e, g) ==
  e.msg = g.msg /\ e.cmd = g.cmd /\ e.cur = g.cur /\ e.last = g.last /\ e.start = g.start

\* A step in which nothing is sent, and the sound fragments that go are
\* those of whole messages.
Thins ==
  /\ msgs' = msgs /\ damaged \subseteq damaged'
  /\ sending' = sending \/ (sending' = Nothing /\ sending.cmd \in damaged')
  /\ \A e \in Sound' : \E g \in Sound : Alike(e, g)
  /\ \A e \in Sound', g \in Sound : g.msg = e.msg => \E d \in Sound' : Alike(d, g)
  /\ sending' # Nothing /\ sending.cmd \notin damaged' =>
       \A g \in Sound : g.msg = msgs => \E d \in Sound' : Alike(d, g)
  /\ \A h \in Fragments', e \in Sound' : h.cmd # e.cmd =>
       \E g \in Fragments : g.cmd # e.cmd /\ g.start = h.start

ListInv ==
  ListTypes /\ ListBehind /\ Incomplete /\ Single /\ TornCosts /\ Returned /\ UndamagedIntact

\* A step after which every sound message of out was there before.
OutStays ==
  \A i \in DOMAIN out' : out'[i].cmd \notin damaged' =>
    i \in DOMAIN out /\ out'[i] = out[i]

\* A step that takes n bytes, for a package of command c, the list being l
\* before it is looked through.
Takes(k, n, c, l) ==
  /\ k \in AtHead /\ n \in Nat /\ n > 0 /\ n <= len /\ c \in Cmds
  /\ ReadFifo(n) /\ pkgs' = pkgs \ Consumed(n) /\ Assemble(l, c)
  /\ \/ l = list
     \/ \E f \in Node : /\ l = list \union {f} /\ f.start = k.start
                        /\ f.cmd = c /\ f.last \in Lasts
  /\ UNCHANGED <<sending, msgs, put, recvd>>
  /\ damaged \subseteq damaged' /\ damaged' \subseteq Cmds
  /\ k.cmd # c => c \in damaged' /\ k.cmd \in damaged'

\* A step that sends p, the next package of f.
Sends(f, s, b, p) ==
  /\ pkgs' = pkgs \union {p} /\ put' = put + s /\ msgs' = f.msg
  /\ p.msg = f.msg /\ p.cmd = f.cmd /\ p.cur = f.cur /\ p.last = f.last
  /\ p.start = put + 1 /\ p.end = put + s /\ p.size = s /\ p.bad = b
  /\ sending' = IF f.cur = f.last THEN Nothing ELSE [f EXCEPT !.cur = f.cur + 1]
  /\ damaged' = IF b THEN damaged \union {f.cmd} ELSE damaged

\* The FIFO holds bytes that were received.
LEMMA AtType ==
  ASSUME FifoInv, NEW i \in Nat
  PROVE  Byte(i) \in Nat /\ Byte(i) <= recvd
  <1>1. (read + i) % MaxLen \in Slots
    BY ModRange, Sizes4 DEF FifoInv, Indices, Slots
  <1> QED BY <1>1 DEF Byte, FifoInv, Indices, NoneAhead

LEMMA PackageType ==
  ASSUME FifoInv, NEW k \in pkgs
  PROVE  /\ k.start \in Nat /\ k.end \in Nat /\ k.size \in Nat /\ k.size > 0
         /\ k.msg \in Nat /\ k.cur \in Nat /\ k.last \in Nat /\ k.cmd \in Cmds
         /\ k.bad \in BOOLEAN /\ k.size >= HeadLen
  BY Sizes4, LengthAssumption DEF FifoInv, Packages, Package

\* The read index is at the package that is next.
LEMMA AtZero == FifoInv => Byte(0) = ring[read]
  BY ModBelow, Sizes4 DEF FifoInv, Indices, Slots, Byte

-----------------------------------------------------------------------------
(* The stream, one step per action. *)

LEMMA InitStream == PackInit => StreamInv
  <1>1. IsFiniteSet({}) BY FS_EmptySet
  <1> QED BY <1>1 DEF PackInit, StreamInv, Rising, Apart, Gapless

\* A step that leaves the FIFO and the packages alone.
LEMMA StreamStays ==
  ASSUME FifoInv, StreamInv, UNCHANGED <<fifoVars, recvd, pkgs, damaged, put>>
  PROVE  StreamInv'
  BY DEF fifoVars, StreamInv, Rising, Apart, Gapless, Byte, Unbroken

\* SendPackage, as a package p of s bytes that is the next of f.
LEMMA Sent ==
  ASSUME SendPackage
  PROVE  \E f \in Upcoming, s \in Sizes, b \in BOOLEAN, p \in pkgs' : Sends(f, s, b, p)
  <1>1. PICK f \in Upcoming, s \in Sizes, b \in BOOLEAN :
          /\ pkgs' = pkgs \union
               {[msg |-> f.msg, cmd |-> f.cmd, cur |-> f.cur, last |-> f.last,
                 start |-> put + 1, end |-> put + s, size |-> s, bad |-> b]}
          /\ sending' = IF f.cur = f.last THEN Nothing
                                          ELSE [f EXCEPT !.cur = f.cur + 1]
          /\ msgs' = f.msg /\ put' = put + s
          /\ damaged' = IF b THEN damaged \union {f.cmd} ELSE damaged
    BY DEF SendPackage
  <1> DEFINE p == [msg |-> f.msg, cmd |-> f.cmd, cur |-> f.cur, last |-> f.last,
                   start |-> put + 1, end |-> put + s, size |-> s, bad |-> b]
  <1>2. /\ p.msg = f.msg /\ p.cmd = f.cmd /\ p.cur = f.cur /\ p.last = f.last
        /\ p.start = put + 1 /\ p.end = put + s /\ p.size = s /\ p.bad = b
    OBVIOUS
  <1>3. pkgs' = pkgs \union {p} /\ p \in pkgs' BY <1>1
  <1> HIDE DEF p
  <1> QED BY <1>1, <1>2, <1>3 DEF Sends

\* A new package is behind all others; its bytes are yet to come.
LEMMA StreamSend ==
  ASSUME FifoInv, StreamInv, SendPackage
  PROVE  StreamInv'
  <1>0. PICK f \in Upcoming, s \in Sizes, b \in BOOLEAN, p \in pkgs' : Sends(f, s, b, p)
    BY Sent
  <1>1. /\ put' = put + s
        /\ damaged' = IF b THEN damaged \union {f.cmd} ELSE damaged
    BY <1>0 DEF Sends
  <1>2. UNCHANGED <<recvd, fifoVars>> BY DEF SendPackage
  <1>3. p.start = put + 1 /\ p.end = put + s /\ p.size = s /\ p.bad = b /\ p.cmd = f.cmd
    BY <1>0 DEF Sends
  <1>4. pkgs' = pkgs \union {p} BY <1>0 DEF Sends
  <1>5. recvd \in Nat /\ put \in Nat /\ recvd <= put /\ s \in Nat /\ s > 0
    BY Sizes4 DEF FifoInv, Indices
  <1>6. \A k \in pkgs : k.start \in Nat /\ k.end \in Nat /\ k.size \in Nat /\ k.end <= put
    BY PackageType DEF StreamInv, Apart
  <1>7. len' = len /\ recvd' = recvd /\ \A i : Byte(i)' = Byte(i)
    BY <1>2 DEF fifoVars, Byte
  <1>8. Rising' BY <1>7 DEF StreamInv, Rising
  <1>9. Apart'
    <2>1. damaged \subseteq damaged' BY <1>1
    <2>2. ASSUME NEW k \in pkgs
          PROVE  /\ k.start > 0 /\ k.start <= k.end /\ k.end <= put'
                 /\ k.end <= k.start + k.size - 1
                 /\ k.cmd \notin damaged' => Unbroken(k) /\ ~k.bad
                 /\ \A j \in pkgs' : j # k => j.end < k.start \/ k.end < j.start
      <3>1. k.end <= put' BY <1>1, <1>5, <1>6
      <3>2. ASSUME NEW j \in pkgs', j # k PROVE j.end < k.start \/ k.end < j.start
        <4>1. CASE j = p BY <4>1, <1>3, <1>5, <1>6
        <4>2. CASE j \in pkgs BY <4>2, <3>2 DEF StreamInv, Apart
        <4> QED BY <4>1, <4>2, <1>4
      <3> QED BY <3>1, <3>2, <2>1 DEF StreamInv, Apart
    <2>3. /\ p.start > 0 /\ p.start <= p.end /\ p.end <= put'
          /\ p.end <= p.start + p.size - 1
      BY <1>1, <1>3, <1>5
    <2>4. p.cmd \notin damaged' => Unbroken(p) /\ ~p.bad
      BY <1>1, <1>3, <1>5 DEF Unbroken
    <2>5. ASSUME NEW j \in pkgs', j # p PROVE j.end < p.start \/ p.end < j.start
      BY <2>5, <1>3, <1>4, <1>5, <1>6
    <2>6. ASSUME NEW k \in pkgs'
          PROVE  /\ k.start > 0 /\ k.start <= k.end /\ k.end <= put'
                 /\ k.end <= k.start + k.size - 1
                 /\ k.cmd \notin damaged' => Unbroken(k) /\ ~k.bad
                 /\ \A j \in pkgs' : j # k => j.end < k.start \/ k.end < j.start
      <3>1. CASE k \in pkgs BY <3>1, <2>2
      <3>2. CASE k = p BY <3>2, <2>3, <2>4, <2>5
      <3> QED BY <3>1, <3>2, <1>4
    <2> QED BY <2>6 DEF Apart, Unbroken
  <1>10. Gapless'
    <2>1. ASSUME NEW k \in pkgs', Unbroken(k)
          PROVE  /\ k.start <= recvd => \E i \in 0 .. len - 1 : Byte(i) = k.start
                 /\ \A i \in 0 .. len - 1 : Byte(i) = k.start =>
                      /\ \A d \in 0 .. k.size - 1 : i + d < len => Byte(i + d) = k.start + d
                      /\ i + k.size > len => Byte(len - 1) = recvd
      <3>1. CASE k \in pkgs BY <3>1, <2>1 DEF StreamInv, Gapless
      <3>2. CASE k = p
        <4>1. k.start > recvd BY <3>2, <1>3, <1>5
        <4>2. len \in Nat BY DEF FifoInv, Indices
        <4>3. \A i \in 0 .. len - 1 : Byte(i) # k.start
          BY <4>1, <4>2, <3>2, <1>3, <1>5, AtType
        <4> QED BY <4>1, <4>3, <3>2, <1>3, <1>5
      <3> QED BY <3>1, <3>2, <1>4
    <2> QED BY <2>1, <1>7 DEF Gapless, Unbroken
  <1>11. IsFiniteSet(pkgs') /\ IsFiniteSet(damaged')
    <2>1. \A S, x : IsFiniteSet(S) => IsFiniteSet(S \union {x}) BY FS_AddElement
    <2>2. IsFiniteSet(pkgs) /\ IsFiniteSet(damaged) BY DEF StreamInv
    <2> QED BY <1>1, <1>4, <2>1, <2>2
  <1> QED BY <1>8, <1>9, <1>10, <1>11 DEF StreamInv

\* Commands of finitely many packages are finitely many.
LEMMA ImageIsFinite ==
  ASSUME NEW S, IsFiniteSet(S), NEW f
  PROVE  IsFiniteSet({f[x] : x \in S})
  <1> DEFINE T == {f[x] : x \in S}
             g == [x \in S |-> f[x]]
  <1>1. g \in Surjection(S, T) BY DEF Surjection
  <1> HIDE DEF g, T
  <1>2. IsFiniteSet(T) BY <1>1, FS_Surjection
  <1> QED BY <1>2 DEF T

\* What is left of a package whose end is lost.
LEMMA Left ==
  ASSUME FifoInv, StreamInv, NEW lost \in SUBSET pkgs, \A k \in lost : k.end > recvd,
         pkgs' = Shortened(lost), NEW j \in pkgs'
  PROVE  \/ j \in pkgs \ lost
         \/ \E k \in lost :
              /\ k.start <= recvd /\ j = [k EXCEPT !.end = recvd]
              /\ j.msg = k.msg /\ j.cmd = k.cmd /\ j.cur = k.cur /\ j.last = k.last
              /\ j.start = k.start /\ j.end = recvd /\ j.size = k.size /\ j.bad = k.bad
              /\ ~Unbroken(j)
  <1>1. CASE j \in pkgs \ lost BY <1>1
  <1>2. CASE \E k \in lost : k.start <= recvd /\ j = [k EXCEPT !.end = recvd]
    <2>1. PICK k \in lost : k.start <= recvd /\ j = [k EXCEPT !.end = recvd] BY <1>2
    <2>2. k \in Package BY DEF FifoInv, Packages
    <2>3. /\ j.msg = k.msg /\ j.cmd = k.cmd /\ j.cur = k.cur /\ j.last = k.last
          /\ j.start = k.start /\ j.end = recvd /\ j.size = k.size /\ j.bad = k.bad
      BY <2>1, <2>2 DEF Package
    <2>4. k.end > recvd /\ k.end <= k.start + k.size - 1 BY DEF StreamInv, Apart
    <2>5. k.start \in Nat /\ k.size \in Nat /\ k.end \in Nat /\ recvd \in Nat
      BY PackageType DEF FifoInv, Indices
    <2>6. ~Unbroken(j) BY <2>3, <2>4, <2>5 DEF Unbroken
    <2> QED BY <2>1, <2>3, <2>6
  <1> QED BY <1>1, <1>2 DEF Shortened

\* What is left is as far apart, and its commands are damaged.
LEMMA LeftApart ==
  ASSUME FifoInv, StreamInv, NEW lost \in SUBSET pkgs, \A k \in lost : k.end > recvd,
         pkgs' = Shortened(lost), damaged \union {k.cmd : k \in lost} \subseteq damaged',
         put' \in Nat, recvd <= put', \A k \in pkgs \ lost : k.end <= put'
  PROVE  Apart' /\ IsFiniteSet(pkgs')
  <1>1. ASSUME NEW j \in pkgs'
        PROVE  /\ j.start > 0 /\ j.start <= j.end /\ j.end <= put'
               /\ j.end <= j.start + j.size - 1
               /\ j.cmd \notin damaged' => Unbroken(j) /\ ~j.bad
               /\ \E k \in pkgs : /\ k.start = j.start /\ j.end <= k.end
                                  /\ (k \in lost => j = [k EXCEPT !.end = recvd])
                                  /\ (k \notin lost => j = k)
    <2>1. CASE j \in pkgs \ lost
      <3>1. j.end \in Nat BY <2>1, PackageType
      <3> QED BY <2>1, <3>1 DEF StreamInv, Apart
    <2>2. CASE ~(j \in pkgs \ lost)
      <3>1. PICK k \in lost :
              /\ k.start <= recvd /\ j = [k EXCEPT !.end = recvd]
              /\ j.cmd = k.cmd /\ j.start = k.start /\ j.end = recvd /\ j.size = k.size
        BY <2>2, <1>1, Left
      <3>2. k.start > 0 /\ k.end > recvd /\ k.end <= k.start + k.size - 1
        BY DEF StreamInv, Apart
      <3>3. k.start \in Nat /\ k.size \in Nat /\ k.end \in Nat /\ recvd \in Nat
        BY PackageType DEF FifoInv, Indices
      <3>4. j.cmd \in damaged' BY <3>1
      <3> QED BY <3>1, <3>2, <3>3, <3>4
    <2> QED BY <2>1, <2>2
  <1>2. ASSUME NEW j \in pkgs', NEW i \in pkgs', i # j
        PROVE  i.end < j.start \/ j.end < i.start
    <2>1. PICK k \in pkgs : /\ k.start = j.start /\ j.end <= k.end
                            /\ (k \in lost => j = [k EXCEPT !.end = recvd])
                            /\ (k \notin lost => j = k)
      BY <1>1
    <2>2. PICK l \in pkgs : /\ l.start = i.start /\ i.end <= l.end
                            /\ (l \in lost => i = [l EXCEPT !.end = recvd])
                            /\ (l \notin lost => i = l)
      BY <1>1
    <2>3. k # l BY <2>1, <2>2, <1>2
    <2>4. l.end < k.start \/ k.end < l.start BY <2>3 DEF StreamInv, Apart
    <2>5. k.start \in Nat /\ k.end \in Nat /\ l.start \in Nat /\ l.end \in Nat
      BY PackageType
    <2>6. j.end \in Nat /\ i.end \in Nat
      <3>1. \A x \in pkgs' : x.end \in Nat
        BY Shorten DEF Packages, Package
      <3> QED BY <3>1
    <2> QED BY <2>1, <2>2, <2>4, <2>5, <2>6
  <1>3. Apart' BY <1>1, <1>2 DEF Apart, Unbroken
  <1>4. IsFiniteSet(pkgs')
    <2> DEFINE short == [l \in lost |-> [l EXCEPT !.end = recvd]]
               cut == {l \in lost : l.start <= recvd}
    <2>1. IsFiniteSet(pkgs \ lost) /\ IsFiniteSet(cut)
      BY FS_Subset DEF StreamInv
    <2>2. IsFiniteSet({short[l] : l \in cut})
      <3> HIDE DEF cut, short
      <3> QED BY <2>1, ImageIsFinite
    <2>3. pkgs' = (pkgs \ lost) \union {short[l] : l \in cut} BY DEF Shortened
    <2> HIDE DEF short, cut
    <2> QED BY <2>1, <2>2, <2>3, FS_Union
  <1> QED BY <1>3, <1>4

\* What a package cut short leaves out of Gapless is broken.
LEMMA LeftUnbroken ==
  ASSUME FifoInv, StreamInv, NEW lost \in SUBSET pkgs, \A k \in lost : k.end > recvd,
         pkgs' = Shortened(lost), NEW j \in pkgs', Unbroken(j)
  PROVE  j \in pkgs \ lost
  BY Left

\* A disconnection loses the bytes on their way.
LEMMA StreamCut ==
  ASSUME FifoInv, StreamInv, Cut
  PROVE  StreamInv'
  <1> DEFINE lost == {k \in pkgs : k.end > recvd}
             mid == IF sending = Nothing THEN {} ELSE {sending.cmd}
  <1>1. pkgs' = Shortened(lost) /\ put' = recvd /\ UNCHANGED <<recvd, fifoVars>>
    BY DEF Cut
  <1>2. damaged' = damaged \union {k.cmd : k \in lost} \union mid
    BY DEF Cut
  <1>3. lost \in SUBSET pkgs /\ \A k \in lost : k.end > recvd OBVIOUS
  <1>4. recvd \in Nat /\ len \in Nat BY DEF FifoInv, Indices
  <1>5. \A k \in pkgs \ lost : k.end <= recvd BY <1>4, PackageType
  <1>6. IsFiniteSet(mid)
    <2>1. IsFiniteSet({}) /\ IsFiniteSet({sending.cmd}) BY FS_EmptySet, FS_Singleton
    <2> QED BY <2>1
  <1> HIDE DEF lost, mid
  <1>7. Apart' /\ IsFiniteSet(pkgs') BY <1>1, <1>2, <1>3, <1>4, <1>5, LeftApart
  <1>8. IsFiniteSet(damaged')
    <2> DEFINE cmd == [k \in lost |-> k.cmd]
    <2>1. IsFiniteSet(lost) /\ IsFiniteSet(damaged) BY <1>3, FS_Subset DEF StreamInv
    <2>2. IsFiniteSet({cmd[k] : k \in lost})
      <3> HIDE DEF cmd
      <3> QED BY <2>1, ImageIsFinite
    <2>3. damaged' = (damaged \union {cmd[k] : k \in lost}) \union mid BY <1>2
    <2> HIDE DEF cmd
    <2> QED BY <1>6, <2>1, <2>2, <2>3, FS_Union
  <1>9. len' = len /\ recvd' = recvd /\ \A i : Byte(i)' = Byte(i)
    BY <1>1 DEF fifoVars, Byte
  <1>10. Rising' BY <1>9 DEF StreamInv, Rising
  <1>11. Gapless'
    <2>1. ASSUME NEW j \in pkgs', Unbroken(j) PROVE j \in pkgs
      BY <2>1, <1>1, <1>3, LeftUnbroken
    <2> QED BY <2>1, <1>9 DEF StreamInv, Gapless, Unbroken
  <1> QED BY <1>7, <1>8, <1>10, <1>11 DEF StreamInv

\* The new bytes continue those that were there.
LEMMA StreamWrite ==
  ASSUME FifoInv, StreamInv, NEW n \in 1 .. RecvMax, Fits(n), WriteFifo(n),
         recvd' = recvd + n, UNCHANGED <<pkgs, put, damaged>>
  PROVE  StreamInv'
  <1>1. recvd \in Nat /\ len \in Nat /\ n \in Nat /\ n > 0
    BY Sizes4 DEF FifoInv, Indices
  <1>2. len' = len + n /\ read' = read BY DEF WriteFifo
  <1>3. ASSUME NEW i \in 0 .. len + n - 1
        PROVE  Byte(i)' = IF i < len THEN Byte(i) ELSE recvd + 1 + (i - len)
    BY <1>2, WrittenAt DEF FifoInv, Byte
  <1>4. \A i \in Nat : Byte(i) \in Nat /\ Byte(i) <= recvd BY AtType
  <1>5. Rising'
    <2>1. ASSUME NEW i \in 0 .. len + n - 1, NEW j \in 0 .. len + n - 1, i < j
          PROVE  Byte(i)' < Byte(j)'
      <3>1. CASE j < len
        <4>1. Byte(i) < Byte(j) BY <2>1, <3>1, <1>1 DEF StreamInv, Rising
        <4> QED BY <4>1, <2>1, <3>1, <1>1, <1>3
      <3>2. CASE ~(j < len)
        <4>1. Byte(j)' = recvd + 1 + (j - len) BY <3>2, <1>3
        <4>2. CASE i < len
          <5>1. Byte(i)' = Byte(i) /\ Byte(i) \in Nat /\ Byte(i) <= recvd
            BY <4>2, <1>1, <1>3, <1>4
          <5> QED BY <4>1, <5>1, <3>2, <1>1
        <4>3. CASE ~(i < len)
          <5>1. Byte(i)' = recvd + 1 + (i - len) BY <4>3, <1>3
          <5> QED BY <4>1, <5>1, <2>1, <1>1
        <4> QED BY <4>2, <4>3
      <3> QED BY <3>1, <3>2
    <2>2. \A i, j \in 0 .. len' - 1 : i < j => Byte(i)' < Byte(j)' BY <2>1, <1>1, <1>2
    <2> QED BY <2>2 DEF Rising
  <1>6. Apart' BY DEF StreamInv, Apart, Unbroken
  <1>7. ASSUME NEW k \in pkgs, Unbroken(k), k.start <= recvd + n
        PROVE  \E i \in 0 .. len + n - 1 : Byte(i)' = k.start
    <2>1. k.start \in Nat BY PackageType
    <2>2. CASE k.start <= recvd
      <3>1. PICK i \in 0 .. len - 1 : Byte(i) = k.start
        BY <2>2, <1>7 DEF StreamInv, Gapless
      <3>2. i \in 0 .. len + n - 1 /\ Byte(i)' = k.start BY <3>1, <1>1, <1>3
      <3> QED BY <3>2
    <2>3. CASE ~(k.start <= recvd)
      <3>0. len + (k.start - recvd - 1) \in 0 .. len + n - 1
        BY <2>1, <2>3, <1>1, <1>7
      <3>1. PICK i \in 0 .. len + n - 1 : i = len + (k.start - recvd - 1) BY <3>0
      <3>2. recvd + 1 + (i - len) = k.start /\ ~(i < len) BY <3>1, <2>1, <2>3, <1>1
      <3>3. Byte(i)' = k.start BY <3>2, <1>3
      <3> QED BY <3>3
    <2> QED BY <2>2, <2>3
  <1>8. ASSUME NEW k \in pkgs, Unbroken(k), NEW i \in 0 .. len + n - 1,
               Byte(i)' = k.start, NEW d \in 0 .. k.size - 1, i + d < len + n
        PROVE  Byte(i + d)' = k.start + d
    <2>1. k.start \in Nat /\ k.size \in Nat BY PackageType
    <2>2. d \in Nat /\ i \in Nat /\ d < k.size BY <2>1, <1>1
    <2>3. Byte(i + d)' = IF i + d < len THEN Byte(i + d) ELSE recvd + 1 + (i + d - len)
      BY <2>2, <1>1, <1>3, <1>8
    <2>4. CASE i < len
      <3>1. Byte(i) = k.start BY <2>4, <1>3, <1>8
      <3>2. /\ \A e \in 0 .. k.size - 1 : i + e < len => Byte(i + e) = k.start + e
            /\ i + k.size > len => Byte(len - 1) = recvd
        BY <3>1, <2>2, <2>4, <1>1, <1>8 DEF StreamInv, Gapless
      <3>3. CASE i + d < len BY <3>2, <3>3, <2>3
      <3>4. CASE ~(i + d < len)
        <4>1. Byte(len - 1) = recvd BY <3>2, <3>4, <2>1, <2>2, <1>1
        <4>2. len - 1 - i \in 0 .. k.size - 1 BY <3>4, <2>1, <2>2, <2>4, <1>1
        <4>3. i + (len - 1 - i) = len - 1 BY <2>2, <1>1
        <4>4. recvd = k.start + (len - 1 - i) BY <4>1, <4>2, <4>3, <3>2, <1>1
        <4> QED BY <4>4, <3>4, <2>1, <2>2, <2>3, <1>1
      <3> QED BY <3>3, <3>4
    <2>5. CASE ~(i < len)
      <3>1. k.start = recvd + 1 + (i - len) BY <2>5, <1>3, <1>8
      <3> QED BY <3>1, <2>2, <2>3, <2>5, <1>1
    <2> QED BY <2>4, <2>5
  <1>9. Byte(len - 1)' = recvd'
    <2>1. PICK z \in 0 .. len + n - 1 : z = len + n - 1 BY <1>1
    <2>2. Byte(z)' = recvd + 1 + (z - len) BY <2>1, <1>1, <1>3
    <2>3. Byte(z)' = recvd' BY <2>1, <2>2, <1>1
    <2>4. z = len' - 1 BY <2>1, <1>1, <1>2
    <2> QED BY <2>3, <2>4 DEF Byte
  <1>10. Gapless'
    <2>1. ASSUME NEW k \in pkgs, Unbroken(k)
          PROVE  /\ k.start <= recvd' => \E i \in 0 .. len' - 1 : Byte(i)' = k.start
                 /\ \A i \in 0 .. len' - 1 : Byte(i)' = k.start =>
                      /\ \A d \in 0 .. k.size - 1 : i + d < len' => Byte(i + d)' = k.start + d
                      /\ i + k.size > len' => Byte(len - 1)' = recvd'
      BY <2>1, <1>1, <1>2, <1>7, <1>8, <1>9
    <2> QED BY <2>1 DEF Gapless, Unbroken
  <1> QED BY <1>5, <1>6, <1>10 DEF StreamInv

\* A chunk that is dropped damages the packages it is part of.
LEMMA StreamDrop ==
  ASSUME FifoInv, StreamInv, NEW n \in 1 .. RecvMax, DropChunk(n),
         recvd' = recvd + n, UNCHANGED <<fifoVars, put>>
  PROVE  StreamInv'
  <1> DEFINE lost == {k \in pkgs : k.start <= recvd + n /\ k.end > recvd}
  <1>1. pkgs' = Shortened(lost) /\ damaged' = damaged \union {k.cmd : k \in lost}
    BY DEF DropChunk
  <1>2. lost \in SUBSET pkgs /\ \A k \in lost : k.end > recvd OBVIOUS
  <1>3. recvd \in Nat /\ len \in Nat /\ put \in Nat /\ recvd <= put /\ n \in Nat
    BY Sizes4 DEF FifoInv, Indices
  <1>4. \A k \in pkgs \ lost : k.start <= recvd + n => k.end <= recvd
    BY <1>3, PackageType
  <1>5. \A k \in pkgs : k.start \in Nat /\ k.end \in Nat /\ k.size \in Nat
                        /\ k.start <= k.end /\ k.end <= put
    BY PackageType DEF StreamInv, Apart
  <1> HIDE DEF lost
  <1>6. Apart' /\ IsFiniteSet(pkgs') BY <1>1, <1>2, <1>3, <1>5, LeftApart
  <1>7. IsFiniteSet(damaged')
    <2> DEFINE cmd == [k \in lost |-> k.cmd]
    <2>1. IsFiniteSet(lost) /\ IsFiniteSet(damaged) BY <1>2, FS_Subset DEF StreamInv
    <2>2. IsFiniteSet({cmd[k] : k \in lost})
      <3> HIDE DEF cmd
      <3> QED BY <2>1, ImageIsFinite
    <2>3. damaged' = damaged \union {cmd[k] : k \in lost} BY <1>1
    <2> HIDE DEF cmd
    <2> QED BY <2>1, <2>2, <2>3, FS_Union
  <1>8. len' = len /\ \A i : Byte(i)' = Byte(i) BY DEF fifoVars, Byte
  <1>9. Rising' BY <1>8 DEF StreamInv, Rising
  <1>10. ASSUME NEW j \in pkgs', Unbroken(j)
         PROVE  /\ j.start <= recvd + n => \E i \in 0 .. len - 1 : Byte(i) = j.start
                /\ \A i \in 0 .. len - 1 : Byte(i) = j.start =>
                     /\ \A d \in 0 .. j.size - 1 : i + d < len => Byte(i + d) = j.start + d
                     /\ ~(i + j.size > len)
    <2>1. j \in pkgs \ lost BY <1>1, <1>2, <1>10, LeftUnbroken
    <2>2. j.start \in Nat /\ j.end \in Nat /\ j.size \in Nat /\ j.start <= j.end
      BY <2>1, <1>5
    <2>3. j.start <= recvd + n => j.start <= recvd BY <2>1, <2>2, <1>3, <1>4
    <2>4. ASSUME NEW i \in 0 .. len - 1, Byte(i) = j.start, i + j.size > len PROVE FALSE
      <3>1. i \in Nat /\ i < len BY <1>3
      <3>2. /\ \A e \in 0 .. j.size - 1 : i + e < len => Byte(i + e) = j.start + e
            /\ Byte(len - 1) = recvd
        BY <2>1, <2>4, <1>10 DEF StreamInv, Gapless
      <3>3. len - 1 - i \in 0 .. j.size - 1 /\ i + (len - 1 - i) = len - 1
        BY <3>1, <2>2, <2>4, <1>3
      <3>4. recvd = j.start + (len - 1 - i) BY <3>2, <3>3, <1>3
      <3>5. j.end = j.start + j.size - 1 BY <1>10 DEF Unbroken
      <3>6. j.start <= recvd + n /\ j.end > recvd BY <3>1, <3>4, <3>5, <2>2, <2>4, <1>3
      <3> QED BY <3>6, <2>1, <2>2, <1>3, <1>4
    <2> QED BY <2>1, <2>3, <2>4, <1>10 DEF StreamInv, Gapless
  <1>11. Gapless' BY <1>8, <1>10 DEF Gapless, Unbroken
  <1> QED BY <1>6, <1>7, <1>9, <1>11 DEF StreamInv

\* Consumed, by the last byte taken.
LEMMA ConsumedUpTo ==
  ASSUME FifoInv, NEW n \in Nat, n > 0
  PROVE  Consumed(n) = {k \in pkgs : k.start <= Byte(n - 1)}
  <1>1. read \in Nat BY DEF FifoInv, Indices, Slots
  <1>2. read + n - 1 = read + (n - 1) BY <1>1
  <1> QED BY <1>2 DEF Consumed, Byte

\* What is taken is the front of the FIFO and what begins there.
LEMMA StreamTake ==
  ASSUME FifoInv, StreamInv, NEW n \in Nat, n > 0, n <= len, ReadFifo(n),
         pkgs' = pkgs \ Consumed(n), UNCHANGED <<recvd, put>>,
         damaged \subseteq damaged', IsFiniteSet(damaged')
  PROVE  StreamInv'
  <1>1. len \in Nat /\ recvd \in Nat BY DEF FifoInv, Indices
  <1>2. len' = len - n /\ recvd' = recvd BY DEF ReadFifo
  <1>3. ASSUME NEW i \in Nat, n + i <= len PROVE Byte(i)' = Byte(n + i)
    BY <1>3, TakenAt DEF FifoInv, Byte, ReadFifo
  <1>4. Rising'
    <2>1. ASSUME NEW i \in 0 .. len - n - 1, NEW j \in 0 .. len - n - 1, i < j
          PROVE  Byte(i)' < Byte(j)'
      <3>1. Byte(i)' = Byte(n + i) /\ Byte(j)' = Byte(n + j) BY <1>1, <1>3
      <3>2. n + i \in 0 .. len - 1 /\ n + j \in 0 .. len - 1 /\ n + i < n + j
        BY <2>1, <1>1
      <3> QED BY <3>1, <3>2 DEF StreamInv, Rising
    <2>2. \A i, j \in 0 .. len' - 1 : i < j => Byte(i)' < Byte(j)' BY <2>1, <1>1, <1>2
    <2> QED BY <2>2 DEF Rising
  <1>5. \A k \in pkgs' : k \in pkgs /\ k.start \in Nat /\ k.size \in Nat
                         /\ k.start > Byte(n - 1)
    <2>1. Byte(n - 1) \in Nat BY AtType
    <2> QED BY <2>1, ConsumedUpTo, PackageType
  <1>6. Apart' /\ IsFiniteSet(pkgs')
    <2>1. Apart' BY <1>5 DEF StreamInv, Apart, Unbroken
    <2> QED BY <2>1, FS_Subset DEF StreamInv
  <1>7. ASSUME NEW k \in pkgs', Unbroken(k), k.start <= recvd
        PROVE  \E i \in 0 .. len - n - 1 : Byte(i)' = k.start
    <2>1. PICK i \in 0 .. len - 1 : Byte(i) = k.start
      BY <1>5, <1>7 DEF StreamInv, Gapless
    <2>2. i >= n
      <3> SUFFICES ASSUME i < n PROVE FALSE BY <1>1
      <3>1. i \in Nat /\ i <= n - 1 /\ n - 1 \in 0 .. len - 1 BY <1>1
      <3>2. i < n - 1 => Byte(i) < Byte(n - 1) BY <3>1 DEF StreamInv, Rising
      <3>3. Byte(i) \in Nat /\ Byte(n - 1) \in Nat BY <3>1, AtType
      <3>4. i = n - 1 => Byte(i) = Byte(n - 1) OBVIOUS
      <3> QED BY <3>1, <3>2, <3>3, <3>4, <2>1, <1>5
    <2>3. i - n \in 0 .. len - n - 1 /\ n + (i - n) = i BY <2>2, <1>1
    <2>4. PICK z \in 0 .. len - n - 1 : n + z = i BY <2>3
    <2>5. Byte(z)' = Byte(i) BY <2>4, <1>1, <1>3
    <2> QED BY <2>1, <2>5
  <1>8. ASSUME NEW k \in pkgs', Unbroken(k), NEW i \in 0 .. len - n - 1,
               Byte(i)' = k.start
        PROVE  /\ \A d \in 0 .. k.size - 1 : i + d < len - n => Byte(i + d)' = k.start + d
               /\ i + k.size > len - n => Byte(len - 1)' = recvd
    <2>1. k.size \in Nat /\ n + i \in 0 .. len - 1 /\ i \in Nat BY <1>1, <1>5
    <2>2. Byte(n + i) = k.start BY <2>1, <1>1, <1>3, <1>8
    <2>3. /\ \A d \in 0 .. k.size - 1 : n + i + d < len => Byte(n + i + d) = k.start + d
          /\ n + i + k.size > len => Byte(len - 1) = recvd
      BY <2>1, <2>2, <1>5, <1>8 DEF StreamInv, Gapless
    <2>4. ASSUME NEW d \in 0 .. k.size - 1, i + d < len - n
          PROVE  Byte(i + d)' = k.start + d
      <3>1. i + d \in Nat /\ n + (i + d) = n + i + d /\ n + i + d < len
        BY <2>1, <2>4, <1>1
      <3>2. Byte(i + d)' = Byte(n + (i + d)) BY <3>1, <1>1, <1>3
      <3> QED BY <3>1, <3>2, <2>3
    <2>5. ASSUME i + k.size > len - n PROVE Byte(len - 1)' = recvd
      <3>1. Byte(len - 1) = recvd BY <2>1, <2>3, <2>5, <1>1
      <3>2. PICK z \in Nat : z = len - n - 1 BY <1>1
      <3>3. Byte(z)' = Byte(n + z) BY <3>2, <1>1, <1>3
      <3>4. n + z = len - 1 /\ z = len' - 1 BY <3>2, <1>1, <1>2
      <3>5. Byte(z)' = recvd BY <3>1, <3>3, <3>4
      <3> QED BY <3>4, <3>5 DEF Byte
    <2> QED BY <2>4, <2>5
  <1>9. Gapless'
    <2>1. ASSUME NEW k \in pkgs', Unbroken(k)
          PROVE  /\ k.start <= recvd' => \E i \in 0 .. len' - 1 : Byte(i)' = k.start
                 /\ \A i \in 0 .. len' - 1 : Byte(i)' = k.start =>
                      /\ \A d \in 0 .. k.size - 1 : i + d < len' => Byte(i + d)' = k.start + d
                      /\ i + k.size > len' => Byte(len - 1)' = recvd'
      BY <2>1, <1>1, <1>2, <1>7, <1>8
    <2> QED BY <2>1 DEF Gapless, Unbroken
  <1> QED BY <1>4, <1>6, <1>9 DEF StreamInv

\* The package at the read index is the first that is unbroken, and taking
\* it whole takes no other unbroken one.
LEMMA HeadFirst ==
  ASSUME FifoInv, StreamInv, len > 0, NEW k \in AtHead, NEW j \in pkgs, Unbroken(j), j # k
  PROVE  k.start < j.start
  <1>1. len \in Nat /\ recvd \in Nat BY DEF FifoInv, Indices
  <1>2. k \in pkgs /\ k.start = Byte(0) BY AtZero DEF AtHead
  <1>3. k.start \in Nat /\ k.end \in Nat /\ j.start \in Nat /\ j.end \in Nat
        /\ k.start <= k.end /\ j.start <= j.end
    BY <1>2, PackageType DEF StreamInv, Apart
  <1>4. k.start <= recvd BY <1>2, AtType
  <1>5. j.start # k.start
    <2>1. j.end < k.start \/ k.end < j.start BY <1>2 DEF StreamInv, Apart
    <2> QED BY <2>1, <1>3
  <1>6. CASE j.start <= recvd
    <2>1. PICK i \in 0 .. len - 1 : Byte(i) = j.start BY <1>6 DEF StreamInv, Gapless
    <2>2. i # 0 BY <2>1, <1>2, <1>5
    <2>3. 0 \in 0 .. len - 1 /\ 0 < i BY <2>2, <1>1
    <2>4. Byte(0) < Byte(i) BY <2>3 DEF StreamInv, Rising
    <2> QED BY <2>1, <2>4, <1>2
  <1>7. CASE ~(j.start <= recvd) BY <1>7, <1>1, <1>3, <1>4
  <1> QED BY <1>6, <1>7

\* A whole package takes its own bytes and no others.
LEMMA TakesOne ==
  ASSUME FifoInv, StreamInv, NEW k \in AtHead, Unbroken(k), len >= k.size,
         NEW j \in Consumed(k.size), Unbroken(j)
  PROVE  j = k
  <1>1. len \in Nat /\ k \in pkgs /\ k.start = Byte(0)
    BY AtZero DEF FifoInv, Indices, AtHead
  <1>2. k.size \in Nat /\ k.size > 0 /\ k.start \in Nat BY <1>1, PackageType
  <1>3. j \in pkgs /\ j.start <= Byte(k.size - 1)
    BY <1>2, ConsumedUpTo
  <1>4. j.start \in Nat /\ j.end \in Nat /\ j.start <= j.end
    BY <1>3, PackageType DEF StreamInv, Apart
  <1>5. Byte(k.size - 1) = k.end
    <2>1. 0 \in 0 .. len - 1 /\ k.size - 1 \in 0 .. k.size - 1 /\ 0 + (k.size - 1) < len
          /\ 0 + (k.size - 1) = k.size - 1
      BY <1>1, <1>2
    <2>2. Byte(0 + (k.size - 1)) = k.start + (k.size - 1)
      BY <2>1, <1>1 DEF StreamInv, Gapless
    <2> QED BY <2>1, <2>2, <1>2 DEF Unbroken
  <1> SUFFICES ASSUME j # k PROVE FALSE OBVIOUS
  <1>6. k.start < j.start BY <1>1, <1>2, <1>3, HeadFirst
  <1>7. j.end < k.start \/ k.end < j.start BY <1>1, <1>3 DEF StreamInv, Apart
  <1>8. k.end \in Nat BY <1>1, PackageType
  <1> QED BY <1>2, <1>3, <1>4, <1>5, <1>6, <1>7, <1>8

LEMMA StepStream == FifoInv /\ StreamInv /\ [PackNext]_packVars => StreamInv'
  <1> SUFFICES ASSUME FifoInv, StreamInv, [PackNext]_packVars PROVE StreamInv' OBVIOUS
  <1>1. CASE SendPackage BY <1>1, StreamSend
  <1>2. CASE Cut BY <1>2, StreamCut
  <1>3. CASE Recv
    <2>1. put' = put BY <1>3 DEF Recv, senderVars
    <2>2. PICK n \in 1 .. RecvMax :
            /\ recvd' = recvd + n
            /\ \/ Fits(n) /\ WriteFifo(n) /\ UNCHANGED <<pkgs, damaged, dropped>>
               \/ ~Fits(n) /\ DropChunk(n) /\ UNCHANGED fifoVars
      BY <1>3 DEF Recv
    <2>3. CASE Fits(n) BY <2>1, <2>2, <2>3, StreamWrite
    <2>4. CASE ~Fits(n) BY <2>1, <2>2, <2>4, StreamDrop
    <2> QED BY <2>3, <2>4
  <1>4. CASE TakeWhole
    <2>1. PICK k \in AtHead :
            len >= k.size /\ ReadFifo(k.size) /\ pkgs' = pkgs \ Consumed(k.size)
      BY <1>4 DEF TakeWhole
    <2>2. UNCHANGED <<recvd, put, damaged>> BY <1>4 DEF TakeWhole, senderVars
    <2>3. k.size \in Nat /\ k.size > 0 /\ len \in Nat
      BY PackageType DEF AtHead, FifoInv, Indices
    <2> QED BY <2>1, <2>2, <2>3, StreamTake DEF StreamInv
  <1>5. CASE TakeMixed
    <2>1. PICK s \in Sizes, c \in Cmds :
            /\ len >= s /\ ReadFifo(s) /\ pkgs' = pkgs \ Consumed(s)
            /\ damaged' = damaged \union {c} \union {j.cmd : j \in Consumed(s)}
      BY <1>5 DEF TakeMixed
    <2>2. UNCHANGED <<recvd, put>> BY <1>5 DEF TakeMixed, senderVars
    <2>3. s \in Nat /\ s > 0 /\ len \in Nat BY Sizes4 DEF FifoInv, Indices
    <2>4. IsFiniteSet(damaged')
      <3> DEFINE cmd == [k \in Consumed(s) |-> k.cmd]
      <3>1. Consumed(s) \subseteq pkgs BY DEF Consumed
      <3>2. IsFiniteSet(Consumed(s)) /\ IsFiniteSet(damaged)
        BY <3>1, FS_Subset DEF StreamInv
      <3>3. IsFiniteSet({cmd[k] : k \in Consumed(s)})
        <4> HIDE DEF cmd
        <4> QED BY <3>2, ImageIsFinite
      <3>4. damaged' = (damaged \union {c}) \union {cmd[k] : k \in Consumed(s)}
        BY <2>1
      <3>5. IsFiniteSet({c}) BY FS_Singleton
      <3> HIDE DEF cmd
      <3> QED BY <3>2, <3>3, <3>4, <3>5, FS_Union
    <2> QED BY <2>1, <2>2, <2>3, <2>4, StreamTake
  <1>6. CASE ParseEnds
    BY <1>6, StreamStays DEF ParseEnds, netVars, senderVars
  <1>7. CASE UNCHANGED packVars
    BY <1>7, StreamStays DEF packVars, netVars, senderVars
  <1> QED BY <1>1, <1>2, <1>3, <1>4, <1>5, <1>6, <1>7 DEF PackNext

-----------------------------------------------------------------------------
(* The fragments. *)

LEMMA FragmentType ==
  ASSUME FifoInv, ListTypes, NEW e \in Fragments
  PROVE  /\ e.msg \in Nat /\ e.cur \in Nat /\ e.last \in Nat /\ e.start \in Nat
         /\ e.cmd \in Cmds
  BY PackageType DEF Fragments, ListTypes, Node

LEMMA SenderType ==
  ASSUME FifoInv, sending # Nothing
  PROVE  /\ sending.msg \in Nat /\ sending.cur \in Nat /\ sending.last \in Nat
         /\ sending.cmd \in Cmds /\ sending \in Fragment
  BY DEF FifoInv, SenderTyped, Fragment

\* The order of the fragments survives such a step.
LEMMA ThinKeeps ==
  ASSUME FifoInv, ListTypes, FragInv, Thins
  PROVE  FragInv'
  <1>1. msgs \in Nat BY DEF FifoInv, SenderTyped
  <1>2. \A e \in Sound : /\ e.msg \in Nat /\ e.cur \in Nat /\ e.last \in Nat
                         /\ e.start \in Nat
    BY FragmentType DEF Sound
  <1>3. ASSUME NEW e \in Sound' PROVE \E g \in Sound : Alike(e, g)
    BY DEF Thins
  <1>4. ASSUME NEW e \in Sound', NEW g \in Sound, g.msg = e.msg
        PROVE  \E d \in Sound' : Alike(d, g)
    BY <1>4 DEF Thins
  <1>5. InOrder'
    <2>1. ASSUME NEW e \in Sound', NEW g \in Sound'
          PROVE  /\ e.start < g.start => e.msg < g.msg \/ (e.msg = g.msg /\ e.cur < g.cur)
                 /\ e.msg = g.msg => e.cmd = g.cmd /\ e.last = g.last
      <3>1. PICK x \in Sound : Alike(e, x) BY <1>3
      <3>2. PICK y \in Sound : Alike(g, y) BY <1>3
      <3>3. /\ x.start < y.start => x.msg < y.msg \/ (x.msg = y.msg /\ x.cur < y.cur)
            /\ x.msg = y.msg => x.cmd = y.cmd /\ x.last = y.last
        BY DEF FragInv, InOrder
      <3> QED BY <3>1, <3>2, <3>3 DEF Alike
    <2> QED BY <2>1 DEF InOrder
  <1>6. NoneMissing'
    <2>1. ASSUME NEW e \in Sound'
          PROVE  /\ e.cur <= e.last /\ e.msg <= msgs'
                 /\ \A n \in Nat : n < e.cur => \E g \in Sound' : g.msg = e.msg /\ g.cur = n
      <3>1. PICK x \in Sound : Alike(e, x) BY <1>3
      <3>2. /\ x.cur <= x.last /\ x.msg <= msgs
            /\ \A n \in Nat : n < x.cur => \E g \in Sound : g.msg = x.msg /\ g.cur = n
        BY DEF FragInv, NoneMissing
      <3>3. msgs' = msgs BY DEF Thins
      <3>4. ASSUME NEW n \in Nat, n < e.cur
            PROVE  \E g \in Sound' : g.msg = e.msg /\ g.cur = n
        <4>1. PICK y \in Sound : y.msg = x.msg /\ y.cur = n
          BY <3>1, <3>2, <3>4 DEF Alike
        <4>2. PICK d \in Sound' : Alike(d, y) BY <4>1, <3>1, <1>4 DEF Alike
        <4> QED BY <4>1, <4>2, <3>1 DEF Alike
      <3> QED BY <3>1, <3>2, <3>3, <3>4 DEF Alike
    <2> QED BY <2>1 DEF NoneMissing
  <1>7. RestFollows'
    <2>1. ASSUME NEW e \in Sound'
          PROVE  \/ \E g \in Sound' : g.msg = e.msg /\ g.cur = g.last
                 \/ sending' # Nothing /\ sending'.msg = e.msg
      <3>1. PICK x \in Sound : Alike(e, x) BY <1>3
      <3>2. \/ \E g \in Sound : g.msg = x.msg /\ g.cur = g.last
            \/ sending # Nothing /\ sending.msg = x.msg
        BY DEF FragInv, RestFollows
      <3>3. CASE \E g \in Sound : g.msg = x.msg /\ g.cur = g.last
        <4>1. PICK y \in Sound : y.msg = x.msg /\ y.cur = y.last BY <3>3
        <4>2. PICK d \in Sound' : Alike(d, y) BY <4>1, <3>1, <1>4 DEF Alike
        <4> QED BY <4>1, <4>2, <3>1 DEF Alike
      <3>4. CASE sending # Nothing /\ sending.msg = x.msg
        <4>1. x.cmd = sending.cmd BY <3>4 DEF FragInv, SenderPlace
        <4>2. e.cmd \notin damaged' BY DEF Sound
        <4>3. sending' = sending BY <4>1, <4>2, <3>1 DEF Thins, Alike
        <4> QED BY <4>3, <3>1, <3>4 DEF Alike
      <3> QED BY <3>2, <3>3, <3>4
    <2>2. ASSUME NEW e \in Sound', NEW h \in Fragments', h.cmd # e.cmd, e.start < h.start
          PROVE  \E g \in Sound' : g.msg = e.msg /\ g.cur = g.last /\ g.start < h.start
      <3>1. PICK x \in Sound : Alike(e, x) BY <1>3
      <3>2. PICK y \in Fragments : y.cmd # e.cmd /\ y.start = h.start BY <2>2 DEF Thins
      <3>3. PICK z \in Sound : z.msg = x.msg /\ z.cur = z.last /\ z.start < y.start
        BY <3>1, <3>2, <2>2 DEF FragInv, RestFollows, Alike
      <3>4. PICK d \in Sound' : Alike(d, z) BY <3>1, <3>3, <1>4 DEF Alike
      <3> QED BY <3>1, <3>2, <3>3, <3>4 DEF Alike
    <2> QED BY <2>1, <2>2 DEF RestFollows
  <1>8. SenderPlace'
    <2> SUFFICES ASSUME sending' # Nothing
                 PROVE  /\ sending'.msg = msgs' /\ sending'.cur <= sending'.last
                        /\ sending'.last \in Lasts
                        /\ \A e \in Sound' : e.msg = msgs' =>
                             /\ e.cmd = sending'.cmd /\ e.cur < sending'.cur
                             /\ e.last = sending'.last
                        /\ sending'.cmd \notin damaged' =>
                             \A n \in Nat : n < sending'.cur =>
                               \E g \in Sound' : g.msg = msgs' /\ g.cur = n
      BY DEF SenderPlace
    <2>1. sending' = sending /\ msgs' = msgs BY DEF Thins
    <2>2. sending.msg = msgs /\ sending.cur <= sending.last /\ sending.last \in Lasts
      BY <2>1 DEF FragInv, SenderPlace
    <2>3. ASSUME NEW e \in Sound', e.msg = msgs
          PROVE  e.cmd = sending.cmd /\ e.cur < sending.cur /\ e.last = sending.last
      <3>1. PICK x \in Sound : Alike(e, x) BY <1>3
      <3>2. x.cmd = sending.cmd /\ x.cur < sending.cur /\ x.last = sending.last
        BY <3>1, <2>1, <2>3 DEF FragInv, SenderPlace, Alike
      <3> QED BY <3>1, <3>2 DEF Alike
    <2>4. ASSUME sending.cmd \notin damaged', NEW n \in Nat, n < sending.cur
          PROVE  \E g \in Sound' : g.msg = msgs /\ g.cur = n
      <3>1. sending.cmd \notin damaged BY <2>4 DEF Thins
      <3>2. PICK y \in Sound : y.msg = msgs /\ y.cur = n
        BY <3>1, <2>1, <2>4 DEF FragInv, SenderPlace
      <3>3. PICK d \in Sound' : Alike(d, y) BY <3>2, <2>1, <2>4 DEF Thins
      <3> QED BY <3>2, <3>3 DEF Alike
    <2> QED BY <2>1, <2>2, <2>3, <2>4
  <1> QED BY <1>5, <1>6, <1>7, <1>8 DEF FragInv

\* Where a package begins.
LEMMA StartsBehind ==
  ASSUME FifoInv, ListTypes, StreamInv, ListBehind, NEW e \in Fragments
  PROVE  e.start <= put
  <1>1. recvd \in Nat /\ put \in Nat /\ recvd <= put BY DEF FifoInv, Indices
  <1>2. CASE e \in list BY <1>1, <1>2, FragmentType DEF ListBehind
  <1>3. CASE e \in pkgs
    <2>1. e.start \in Nat /\ e.end \in Nat /\ e.start <= e.end /\ e.end <= put
      BY <1>3, PackageType DEF StreamInv, Apart
    <2> QED BY <2>1, <1>1
  <1> QED BY <1>2, <1>3 DEF Fragments

\* What the PC sends next is behind everything that is sound.
LEMMA NextPackage ==
  ASSUME FifoInv, ListTypes, FragInv, NEW f \in Upcoming
  PROVE  /\ f \in Fragment /\ f.msg \in Nat /\ f.cur \in Nat /\ f.last \in Nat
         /\ f.last \in Lasts /\ f.cur <= f.last /\ msgs <= f.msg
         /\ \A e \in Sound : e.msg < f.msg \/
              (e.msg = f.msg /\ e.cur < f.cur /\ e.cmd = f.cmd /\ e.last = f.last)
         /\ f.cmd \notin damaged =>
              \A n \in Nat : n < f.cur => \E g \in Sound : g.msg = f.msg /\ g.cur = n
         /\ sending # Nothing => f = sending
  <1>1. msgs \in Nat BY DEF FifoInv, SenderTyped
  <1>2. \A e \in Sound : e.msg \in Nat /\ e.msg <= msgs
    BY FragmentType DEF Sound, FragInv, NoneMissing
  <1>3. CASE sending = Nothing
    <2>1. PICK c \in Cmds, l \in Lasts :
            f = [msg |-> msgs + 1, cmd |-> c, cur |-> 0, last |-> l]
      BY <1>3 DEF Upcoming
    <2>2. f.msg = msgs + 1 /\ f.cur = 0 /\ f.last = l /\ f.cmd = c /\ l \in Nat
      BY <2>1, LastAssumption
    <2>3. f \in Fragment BY <2>1, <2>2, <1>1 DEF Fragment
    <2> QED BY <2>2, <2>3, <1>1, <1>2, <1>3
  <1>4. CASE sending # Nothing
    <2>1. f = sending BY <1>4 DEF Upcoming
    <2>2. /\ f.msg \in Nat /\ f.cur \in Nat /\ f.last \in Nat /\ f \in Fragment
      BY <1>4, <2>1, SenderType
    <2>3. /\ f.msg = msgs /\ f.cur <= f.last /\ f.last \in Lasts
          /\ \A e \in Sound : e.msg = msgs =>
               e.cmd = f.cmd /\ e.cur < f.cur /\ e.last = f.last
          /\ f.cmd \notin damaged =>
               \A n \in Nat : n < f.cur => \E g \in Sound : g.msg = msgs /\ g.cur = n
      BY <1>4, <2>1 DEF FragInv, SenderPlace
    <2> QED BY <2>1, <2>2, <2>3, <1>1, <1>2
  <1> QED BY <1>3, <1>4

\* What is sent comes behind, and is the next part of its message.
LEMMA SendKeeps ==
  ASSUME FifoInv, ListTypes, StreamInv, ListBehind, FragInv, SendPackage
  PROVE  FragInv'
  <1>0. PICK f \in Upcoming, s \in Sizes, b \in BOOLEAN, p \in pkgs' : Sends(f, s, b, p)
    BY Sent
  <1>1. /\ sending' = IF f.cur = f.last THEN Nothing
                                        ELSE [f EXCEPT !.cur = f.cur + 1]
        /\ msgs' = f.msg
        /\ damaged' = IF b THEN damaged \union {f.cmd} ELSE damaged
    BY <1>0 DEF Sends
  <1>2. p.msg = f.msg /\ p.cmd = f.cmd /\ p.cur = f.cur /\ p.last = f.last
        /\ p.start = put + 1
    BY <1>0 DEF Sends
  <1>3. pkgs' = pkgs \union {p} BY <1>0 DEF Sends
  <1>4. list' = list BY DEF SendPackage, listVars
  <1>5. /\ f \in Fragment /\ f.msg \in Nat /\ f.cur \in Nat /\ f.last \in Nat
        /\ f.last \in Lasts /\ f.cur <= f.last /\ msgs <= f.msg
        /\ \A e \in Sound : e.msg < f.msg \/
             (e.msg = f.msg /\ e.cur < f.cur /\ e.cmd = f.cmd /\ e.last = f.last)
        /\ f.cmd \notin damaged =>
             \A n \in Nat : n < f.cur => \E g \in Sound : g.msg = f.msg /\ g.cur = n
        /\ sending # Nothing => f = sending
    BY NextPackage
  <1>6. msgs \in Nat /\ put \in Nat BY DEF FifoInv, SenderTyped, Indices
  <1>7. \A e \in Fragments : /\ e.msg \in Nat /\ e.cur \in Nat /\ e.last \in Nat
                             /\ e.start \in Nat /\ e.start < put + 1
    BY <1>6, FragmentType, StartsBehind
  <1>8. Fragments' = Fragments \union {p} BY <1>3, <1>4 DEF Fragments
  <1>9. ASSUME NEW e \in Sound'
        PROVE  e \in Sound \/ (e = p /\ f.cmd \notin damaged)
    BY <1>1, <1>2, <1>8 DEF Sound
  <1>10. ASSUME NEW e \in Sound', NEW g \in Sound, g.cmd = e.cmd PROVE g \in Sound'
    BY <1>8, <1>10 DEF Sound
  <1>11. f.cmd \notin damaged' => p \in Sound' BY <1>2, <1>8 DEF Sound
  <1>12. InOrder /\ NoneMissing /\ RestFollows /\ SenderPlace BY DEF FragInv
  <1>13. \A e \in Sound : e \in Fragments BY DEF Sound
  <1>14. InOrder'
    <2>1. ASSUME NEW e \in Sound', NEW g \in Sound'
          PROVE  /\ e.start < g.start => e.msg < g.msg \/ (e.msg = g.msg /\ e.cur < g.cur)
                 /\ e.msg = g.msg => e.cmd = g.cmd /\ e.last = g.last
      <3>1. CASE e \in Sound /\ g \in Sound BY <3>1, <1>12 DEF InOrder
      <3>2. CASE e \in Sound /\ g = p BY <3>2, <1>2, <1>5, <1>7, <1>13
      <3>3. CASE e = p /\ g \in Sound BY <3>3, <1>2, <1>5, <1>6, <1>7, <1>13
      <3>4. CASE e = p /\ g = p BY <3>4, <1>2, <1>6
      <3> QED BY <3>1, <3>2, <3>3, <3>4, <1>9
    <2> QED BY <2>1 DEF InOrder
  <1>15. NoneMissing'
    <2>1. ASSUME NEW e \in Sound'
          PROVE  /\ e.cur <= e.last /\ e.msg <= msgs'
                 /\ \A n \in Nat : n < e.cur => \E g \in Sound' : g.msg = e.msg /\ g.cur = n
      <3>1. CASE e \in Sound
        <4>1. e.cur <= e.last /\ e.msg <= msgs BY <3>1, <1>12 DEF NoneMissing
        <4>2. ASSUME NEW n \in Nat, n < e.cur
              PROVE  \E g \in Sound' : g.msg = e.msg /\ g.cur = n
          <5>1. PICK g \in Sound : g.msg = e.msg /\ g.cur = n
            BY <3>1, <4>2, <1>12 DEF NoneMissing
          <5>2. g \in Sound' BY <3>1, <5>1, <1>10, <1>12 DEF InOrder
          <5> QED BY <5>1, <5>2
        <4> QED BY <3>1, <4>1, <4>2, <1>1, <1>5, <1>6, <1>7, <1>13
      <3>2. CASE e = p /\ f.cmd \notin damaged
        <4>1. ASSUME NEW n \in Nat, n < f.cur
              PROVE  \E g \in Sound' : g.msg = f.msg /\ g.cur = n
          <5>1. PICK g \in Sound : g.msg = f.msg /\ g.cur = n
            BY <3>2, <4>1, <1>5
          <5>2. g.cmd = f.cmd BY <5>1, <1>5
          <5>3. g \in Sound' BY <5>2, <3>2, <1>2, <1>10
          <5> QED BY <5>1, <5>3
        <4> QED BY <4>1, <3>2, <1>1, <1>2, <1>5
      <3> QED BY <3>1, <3>2, <1>9
    <2> QED BY <2>1 DEF NoneMissing
  <1>16. ASSUME NEW e \in Sound', e \in Sound
         PROVE  \/ \E g \in Sound : g \in Sound' /\ g.msg = e.msg /\ g.cur = g.last
                \/ sending # Nothing /\ f = sending /\ sending.msg = e.msg /\ f.cmd = e.cmd
    <2>1. CASE \E g \in Sound : g.msg = e.msg /\ g.cur = g.last
      <3>1. PICK g \in Sound : g.msg = e.msg /\ g.cur = g.last BY <2>1
      <3>2. g \in Sound' BY <3>1, <1>10, <1>12, <1>16 DEF InOrder
      <3> QED BY <3>1, <3>2
    <2>2. CASE sending # Nothing /\ sending.msg = e.msg
      <3>1. e.cmd = sending.cmd BY <2>2, <1>12, <1>16 DEF SenderPlace
      <3> QED BY <2>2, <3>1, <1>5
    <2> QED BY <2>1, <2>2, <1>12, <1>16 DEF RestFollows
  <1>17. f.cur # f.last => sending' # Nothing /\ sending'.msg = f.msg
         /\ sending'.cmd = f.cmd /\ sending'.cur = f.cur + 1 /\ sending'.last = f.last
    <2>1. ASSUME f.cur # f.last
          PROVE  /\ sending' \in Fragment /\ sending'.msg = f.msg /\ sending'.cmd = f.cmd
                 /\ sending'.cur = f.cur + 1 /\ sending'.last = f.last
      BY <2>1, <1>1, <1>5 DEF Fragment
    <2>2. Nothing \notin Fragment
      <3>1. \A x \in Fragment : DOMAIN x = {"msg", "cmd", "cur", "last"} BY DEF Fragment
      <3>2. "msg" \notin DOMAIN Nothing BY DEF Nothing
      <3> QED BY <3>1, <3>2
    <2> QED BY <2>1, <2>2
  <1>18. RestFollows'
    <2>1. ASSUME NEW e \in Sound'
          PROVE  \/ \E g \in Sound' : g.msg = e.msg /\ g.cur = g.last
                 \/ sending' # Nothing /\ sending'.msg = e.msg
      <3>1. CASE e.msg = f.msg /\ e.cmd = f.cmd
        <4>1. p \in Sound' BY <3>1, <1>11 DEF Sound
        <4> QED BY <3>1, <4>1, <1>2, <1>17
      <3>2. CASE ~(e.msg = f.msg /\ e.cmd = f.cmd)
        <4>1. e \in Sound BY <3>2, <1>2, <1>9
        <4> QED BY <3>2, <4>1, <1>16
      <3> QED BY <3>1, <3>2
    <2>2. ASSUME NEW e \in Sound', NEW h \in Fragments', h.cmd # e.cmd, e.start < h.start
          PROVE  \E g \in Sound' : g.msg = e.msg /\ g.cur = g.last /\ g.start < h.start
      <3>1. e \in Sound
        <4> SUFFICES ASSUME e = p PROVE FALSE BY <1>9
        <4>1. h \in Fragments /\ h.start < put + 1 /\ h.start \in Nat
          BY <2>2, <1>7, <1>8
        <4> QED BY <4>1, <2>2, <1>2, <1>6
      <3>2. CASE h \in Fragments
        <4>1. PICK g \in Sound : g.msg = e.msg /\ g.cur = g.last /\ g.start < h.start
          BY <3>1, <3>2, <2>2, <1>12 DEF RestFollows
        <4>2. g \in Sound' BY <4>1, <3>1, <1>10, <1>12 DEF InOrder
        <4> QED BY <4>1, <4>2
      <3>3. CASE h = p
        <4>1. PICK g \in Sound : g \in Sound' /\ g.msg = e.msg /\ g.cur = g.last
          BY <3>1, <3>3, <2>2, <1>2, <1>16
        <4> QED BY <4>1, <3>3, <1>2, <1>7, <1>13
      <3> QED BY <3>2, <3>3, <1>8
    <2> QED BY <2>1, <2>2 DEF RestFollows
  <1>19. SenderPlace'
    <2> SUFFICES ASSUME sending' # Nothing
                 PROVE  /\ sending'.msg = msgs' /\ sending'.cur <= sending'.last
                        /\ sending'.last \in Lasts
                        /\ \A e \in Sound' : e.msg = msgs' =>
                             /\ e.cmd = sending'.cmd /\ e.cur < sending'.cur
                             /\ e.last = sending'.last
                        /\ sending'.cmd \notin damaged' =>
                             \A n \in Nat : n < sending'.cur =>
                               \E g \in Sound' : g.msg = msgs' /\ g.cur = n
      BY DEF SenderPlace
    <2>1. f.cur # f.last BY <1>1
    <2>2. /\ sending'.msg = f.msg /\ sending'.cmd = f.cmd /\ sending'.cur = f.cur + 1
          /\ sending'.last = f.last /\ msgs' = f.msg
      BY <2>1, <1>1, <1>17
    <2>3. f.cur + 1 <= f.last BY <2>1, <1>5
    <2>4. ASSUME NEW e \in Sound', e.msg = f.msg
          PROVE  e.cmd = f.cmd /\ e.cur < f.cur + 1 /\ e.last = f.last
      <3>1. CASE e \in Sound BY <3>1, <2>4, <1>5, <1>7, <1>13
      <3>2. CASE e = p BY <3>2, <1>2, <1>5
      <3> QED BY <3>1, <3>2, <1>9
    <2>5. ASSUME f.cmd \notin damaged', NEW n \in Nat, n < f.cur + 1
          PROVE  \E g \in Sound' : g.msg = f.msg /\ g.cur = n
      <3>1. p \in Sound' BY <2>5, <1>11
      <3>2. CASE n = f.cur BY <3>1, <3>2, <1>2
      <3>3. CASE n < f.cur
        <4>1. f.cmd \notin damaged BY <2>5, <1>1
        <4>2. PICK g \in Sound : g.msg = f.msg /\ g.cur = n BY <4>1, <3>3, <1>5
        <4>3. g.cmd = p.cmd BY <4>2, <1>2, <1>5
        <4> QED BY <3>1, <4>2, <4>3, <1>10
      <3> QED BY <3>2, <3>3, <2>5, <1>5
    <2> QED BY <2>2, <2>3, <2>4, <2>5, <1>5
  <1> QED BY <1>14, <1>15, <1>18, <1>19 DEF FragInv

LEMMA OutType ==
  ASSUME ListTypes, NEW i \in DOMAIN out
  PROVE  i \in Nat /\ i > 0 /\ out[i].cmd \in Cmds /\ out[i].parts \subseteq Node
  <1> DEFINE Message == [cmd : Cmds, parts : SUBSET Node]
  <1>1. \A m \in Message : m.cmd \in Cmds /\ m.parts \subseteq Node OBVIOUS
  <1>2. out \in Seq(Message) BY DEF ListTypes
  <1> HIDE DEF Message
  <1>3. DOMAIN out = 1 .. Len(out) /\ Len(out) \in Nat BY <1>2
  <1>4. out[i] \in Message BY <1>2, <1>3
  <1> QED BY <1>1, <1>3, <1>4

\* Lost bytes only damage commands.
LEMMA LossThins ==
  ASSUME FifoInv, StreamInv, FragInv, NEW lost \in SUBSET pkgs,
         \A k \in lost : k.end > recvd, pkgs' = Shortened(lost), list' = list,
         damaged \union {k.cmd : k \in lost} \subseteq damaged', msgs' = msgs,
         sending' = sending \/ (sending' = Nothing /\ sending.cmd \in damaged')
  PROVE  Thins
  <1>1. ASSUME NEW e \in Sound' PROVE e \in Sound
    <2>1. e \in Fragments' /\ e.cmd \notin damaged' BY DEF Sound
    <2>2. CASE e \in list BY <2>1, <2>2 DEF Sound, Fragments
    <2>3. CASE e \in pkgs'
      <3>1. e \in pkgs \ lost BY <2>1, <2>3, Left
      <3> QED BY <2>1, <3>1 DEF Sound, Fragments
    <2> QED BY <2>1, <2>2, <2>3 DEF Fragments
  <1>2. ASSUME NEW g \in Sound, g.cmd \notin damaged' PROVE g \in Sound'
    <2>1. g \in list \/ g \in pkgs BY DEF Sound, Fragments
    <2>2. g \notin lost BY <1>2
    <2> QED BY <2>1, <2>2, <1>2 DEF Sound, Fragments, Shortened
  <1>3. ASSUME NEW e \in Sound', NEW g \in Sound, g.msg = e.msg PROVE g \in Sound'
    <2>1. g.cmd = e.cmd BY <1>1, <1>3 DEF FragInv, InOrder
    <2>2. e.cmd \notin damaged' BY DEF Sound
    <2> QED BY <2>1, <2>2, <1>2
  <1>4. ASSUME sending' # Nothing, sending.cmd \notin damaged',
               NEW g \in Sound, g.msg = msgs
        PROVE  g \in Sound'
    <2>1. sending # Nothing BY <1>4
    <2>2. g.cmd = sending.cmd BY <2>1, <1>4 DEF FragInv, SenderPlace
    <2> QED BY <2>2, <1>2, <1>4
  <1>5. ASSUME NEW h \in Fragments'
        PROVE  \E g \in Fragments : g.cmd = h.cmd /\ g.start = h.start
    <2>1. CASE h \in list BY <2>1 DEF Fragments
    <2>2. CASE h \in pkgs'
      <3>1. CASE h \in pkgs \ lost BY <3>1 DEF Fragments
      <3>2. CASE ~(h \in pkgs \ lost)
        <4>1. PICK k \in lost : h.cmd = k.cmd /\ h.start = k.start BY <2>2, <3>2, Left
        <4>2. k \in Fragments BY DEF Fragments
        <4> QED BY <4>1, <4>2
      <3> QED BY <3>1, <3>2
    <2> QED BY <2>1, <2>2 DEF Fragments
  <1>6. \A e : Alike(e, e) BY DEF Alike
  <1>7. ASSUME NEW h \in Fragments', NEW e \in Sound', h.cmd # e.cmd
        PROVE  \E g \in Fragments : g.cmd # e.cmd /\ g.start = h.start
    BY <1>5, <1>7
  <1> QED BY <1>1, <1>3, <1>4, <1>6, <1>7 DEF Thins

LEMMA StayThins ==
  ASSUME UNCHANGED <<pkgs, list, msgs, sending, damaged>>
  PROVE  Thins
  <1>1. Sound' = Sound /\ Fragments' = Fragments BY DEF Sound, Fragments
  <1>2. \A e : Alike(e, e) BY DEF Alike
  <1> QED BY <1>1, <1>2 DEF Thins

\* What was returned of a sound command stays older than the rest.
LEMMA OldReturned ==
  ASSUME ListInv, Thins, NEW i \in DOMAIN out, out[i].cmd \notin damaged',
         NEW f \in out[i].parts
  PROVE  /\ f.msg <= msgs'
         /\ \A e \in Sound' : e.cmd = out[i].cmd => f.msg < e.msg
         /\ sending' # Nothing /\ sending'.cmd = out[i].cmd => f.msg < sending'.msg
  <1>1. out[i].cmd \notin damaged BY DEF Thins
  <1>2. /\ f.msg <= msgs
        /\ \A e \in Sound : e.cmd = out[i].cmd => f.msg < e.msg
        /\ sending # Nothing /\ sending.cmd = out[i].cmd => f.msg < sending.msg
    BY <1>1 DEF ListInv, Returned
  <1>3. ASSUME NEW e \in Sound', e.cmd = out[i].cmd PROVE f.msg < e.msg
    <2>1. PICK g \in Sound : Alike(e, g) BY DEF Thins
    <2> QED BY <2>1, <1>2, <1>3 DEF Alike
  <1> QED BY <1>2, <1>3 DEF Thins

\* What was returned stays as it is, unless its command is damaged.
LEMMA OutKeeps ==
  ASSUME FifoInv, ListInv, Thins, OutStays, out' \in Seq([cmd : Cmds, parts : SUBSET Node])
  PROVE  Returned' /\ UndamagedIntact'
  <1>1. ASSUME NEW i \in DOMAIN out', out'[i].cmd \notin damaged'
        PROVE  i \in DOMAIN out /\ out'[i] = out[i] /\ out[i].cmd \notin damaged
    BY <1>1 DEF OutStays, Thins
  <1>2. Returned'
    <2>1. ASSUME NEW i \in DOMAIN out', out'[i].cmd \notin damaged', NEW f \in out'[i].parts
          PROVE  /\ f.msg <= msgs'
                 /\ \A e \in Sound' : e.cmd = out'[i].cmd => f.msg < e.msg
                 /\ sending' # Nothing /\ sending'.cmd = out'[i].cmd => f.msg < sending'.msg
      BY <2>1, <1>1, OldReturned
    <2> QED BY <2>1 DEF Returned
  <1>3. UndamagedIntact'
    <2>1. ASSUME NEW i \in DOMAIN out', out'[i].cmd \notin damaged'
          PROVE  /\ Whole(out'[i])
                 /\ \A j \in 1 .. i - 1 : out'[j].cmd = out'[i].cmd =>
                      \A f \in out'[j].parts, g \in out'[i].parts : f.msg < g.msg
      <3>1. i \in DOMAIN out /\ out'[i] = out[i] /\ out[i].cmd \notin damaged BY <1>1, <2>1
      <3>2. /\ Whole(out[i])
            /\ \A j \in 1 .. i - 1 : out[j].cmd = out[i].cmd =>
                 \A f \in out[j].parts, g \in out[i].parts : f.msg < g.msg
        BY <3>1 DEF ListInv, UndamagedIntact
      <3>3. \A j \in 1 .. i - 1 : j \in DOMAIN out'
        <4>1. DOMAIN out' = 1 .. Len(out') /\ Len(out') \in Nat OBVIOUS
        <4> QED BY <4>1
      <3> QED BY <3>1, <3>2, <3>3, <2>1, <1>1
    <2> QED BY <2>1 DEF UndamagedIntact, Whole, First
  <1> QED BY <1>2, <1>3

\* A step that leaves the list alone and sends nothing.
LEMMA ListKept ==
  ASSUME FifoInv, ListInv, Thins, UNCHANGED listVars, damaged' \subseteq Cmds,
         recvd' \in Nat, recvd <= recvd',
         \A j \in pkgs' : \E k \in pkgs : k.start = j.start /\ k.last = j.last
  PROVE  ListInv'
  <1>1. list' = list /\ out' = out /\ torn' = torn /\ damaged \subseteq damaged'
    BY DEF listVars, Thins
  <1>2. ListTypes' BY <1>1 DEF ListInv, ListTypes
  <1>3. recvd \in Nat /\ \A f \in list : f.start \in Nat /\ f.start <= recvd
    BY DEF FifoInv, Indices, ListInv, ListBehind, ListTypes, Node
  <1>4. ListBehind'
    <2>1. \A f \in list : f.start <= recvd' BY <1>3
    <2>2. \A f \in list, j \in pkgs' : f.start < j.start BY DEF ListInv, ListBehind
    <2>3. \A j \in pkgs' : j.last \in Lasts BY DEF ListInv, ListBehind
    <2> QED BY <1>1, <2>1, <2>2, <2>3 DEF ListInv, ListBehind
  <1>5. Incomplete' /\ Single' /\ TornCosts'
    BY <1>1 DEF ListInv, Incomplete, Single, TornCosts
  <1>6. OutStays BY <1>1 DEF OutStays
  <1>7. out' \in Seq([cmd : Cmds, parts : SUBSET Node]) BY <1>1 DEF ListInv, ListTypes
  <1>8. Returned' /\ UndamagedIntact' BY <1>6, <1>7, OutKeeps
  <1> QED BY <1>2, <1>4, <1>5, <1>8 DEF ListInv

\* Sending does not touch the list.
LEMMA ListSend ==
  ASSUME FifoInv, StreamInv, ListInv, FragInv, SendPackage
  PROVE  ListInv'
  <1>0. PICK f \in Upcoming, s \in Sizes, b \in BOOLEAN, p \in pkgs' : Sends(f, s, b, p)
    BY Sent
  <1>1. /\ sending' = IF f.cur = f.last THEN Nothing
                                        ELSE [f EXCEPT !.cur = f.cur + 1]
        /\ msgs' = f.msg
        /\ damaged' = IF b THEN damaged \union {f.cmd} ELSE damaged
    BY <1>0 DEF Sends
  <1>2. p.msg = f.msg /\ p.cmd = f.cmd /\ p.last = f.last /\ p.start = put + 1
    BY <1>0 DEF Sends
  <1>3. pkgs' = pkgs \union {p} BY <1>0 DEF Sends
  <1>4. list' = list /\ out' = out /\ torn' = torn /\ recvd' = recvd
    BY DEF SendPackage, listVars
  <1>5. /\ f \in Fragment /\ f.msg \in Nat /\ f.last \in Lasts /\ msgs <= f.msg
        /\ sending # Nothing => f = sending
    BY NextPackage DEF ListInv
  <1>6. damaged \subseteq damaged' /\ f.cmd \in Cmds /\ damaged' \subseteq Cmds
    BY <1>1, <1>5 DEF Fragment, ListInv, ListTypes
  <1>7. recvd \in Nat /\ put \in Nat /\ recvd <= put /\ msgs \in Nat
    BY DEF FifoInv, Indices, SenderTyped
  <1>8. ListTypes' BY <1>4, <1>6 DEF ListInv, ListTypes
  <1>9. ListBehind'
    <2>1. \A g \in list : g.start \in Nat /\ g.start <= recvd
      BY DEF ListInv, ListBehind, ListTypes, Node
    <2>2. \A g \in list : g.start < p.start BY <2>1, <1>2, <1>7
    <2> QED BY <2>2, <1>2, <1>3, <1>4, <1>5 DEF ListInv, ListBehind
  <1>10. Incomplete' /\ Single' /\ TornCosts'
    BY <1>4, <1>6 DEF ListInv, Incomplete, Single, TornCosts
  <1>11. UndamagedIntact'
    <2>1. ASSUME NEW i \in DOMAIN out', out'[i].cmd \notin damaged'
          PROVE  /\ Whole(out'[i])
                 /\ \A j \in 1 .. i - 1 : out'[j].cmd = out'[i].cmd =>
                      \A g \in out'[j].parts, h \in out'[i].parts : g.msg < h.msg
      BY <1>4, <1>6, <2>1 DEF ListInv, UndamagedIntact
    <2> QED BY <2>1 DEF UndamagedIntact, Whole, First
  <1>12. ASSUME NEW i \in DOMAIN out, out[i].cmd \notin damaged', NEW h \in out[i].parts
         PROVE  /\ h.msg <= msgs'
                /\ \A e \in Sound' : e.cmd = out[i].cmd => h.msg < e.msg
                /\ sending' # Nothing /\ sending'.cmd = out[i].cmd => h.msg < sending'.msg
    <2>1. /\ h.msg <= msgs
          /\ \A e \in Sound : e.cmd = out[i].cmd => h.msg < e.msg
          /\ sending # Nothing /\ sending.cmd = out[i].cmd => h.msg < sending.msg
      BY <1>6, <1>12 DEF ListInv, Returned
    <2>2. h.msg \in Nat
      <3>1. out[i].parts \subseteq Node BY OutType DEF ListInv
      <3> QED BY <3>1, <1>12 DEF Node
    <2>3. f.cmd = out[i].cmd => h.msg < f.msg
      <3>1. CASE sending = Nothing
        <4>1. f.msg = msgs + 1 BY <3>1 DEF Upcoming
        <4> QED BY <4>1, <2>1, <2>2, <1>7
      <3>2. CASE sending # Nothing BY <3>2, <2>1, <1>5
      <3> QED BY <3>1, <3>2
    <2>4. ASSUME NEW e \in Sound', e.cmd = out[i].cmd PROVE h.msg < e.msg
      <3>1. e = p \/ e \in Sound
        BY <1>3, <1>4, <1>6 DEF Sound, Fragments
      <3> QED BY <3>1, <2>1, <2>3, <2>4, <1>2
    <2>5. sending' # Nothing => sending'.cmd = f.cmd /\ sending'.msg = f.msg
      BY <1>1, <1>5 DEF Fragment
    <2> QED BY <2>1, <2>2, <2>3, <2>4, <2>5, <1>1, <1>5, <1>7
  <1>13. Returned' BY <1>4, <1>12 DEF Returned
  <1> QED BY <1>8, <1>9, <1>10, <1>11, <1>13 DEF ListInv

-----------------------------------------------------------------------------
(* parseSocketCmd takes a package. *)

\* A fragment in the list that one of another command has overtaken lost
\* packages: the PC sends a message without a break.
LEMMA Overtaken ==
  ASSUME FifoInv, StreamInv, ListInv, FragInv, len > 0, NEW x \in list,
         NEW y \in list \union AtHead, y.cmd # x.cmd, x.start < y.start
  PROVE  x.cmd \in damaged
  <1> SUFFICES ASSUME x.cmd \notin damaged PROVE FALSE OBVIOUS
  <1>1. x \in Sound BY DEF Sound, Fragments
  <1>2. y \in Fragments BY DEF Fragments, AtHead
  <1>3. PICK z \in Sound : z.msg = x.msg /\ z.cur = z.last /\ z.start < y.start
    BY <1>1, <1>2 DEF FragInv, RestFollows
  <1>4. z \in Fragments /\ z.cmd \notin damaged BY DEF Sound
  <1>5. z.start \in Nat /\ y.start \in Nat /\ z.cur \in Nat /\ z.last \in Nat
    BY <1>2, <1>4, FragmentType DEF ListInv
  <1>6. CASE z \in list
    <2>1. z.cur < z.last BY <1>4, <1>6 DEF ListInv, Incomplete
    <2> QED BY <2>1, <1>3, <1>5
  <1>7. CASE z \in pkgs
    <2>1. Unbroken(z) BY <1>4, <1>7 DEF StreamInv, Apart
    <2>2. CASE y \in list
      <3>1. y.start < z.start BY <2>2, <1>7 DEF ListInv, ListBehind
      <3> QED BY <3>1, <1>3, <1>5
    <2>3. CASE y \in AtHead
      <3>1. z # y BY <1>3, <1>5
      <3>2. y.start < z.start BY <2>1, <2>3, <3>1, <1>7, HeadFirst
      <3> QED BY <3>2, <1>3, <1>5
    <2> QED BY <2>2, <2>3
  <1> QED BY <1>4, <1>6, <1>7 DEF Fragments

\* What is left in pkgs is behind the package taken.
LEMMA RestBehind ==
  ASSUME FifoInv, StreamInv, NEW k \in AtHead, NEW n \in Nat, n > 0, n <= len
  PROVE  /\ k \in Consumed(n) /\ k.start \in Nat /\ k.start <= recvd
         /\ \A j \in pkgs \ Consumed(n) : k.start < j.start
  <1>1. k \in pkgs /\ k.start = Byte(0) /\ len \in Nat
    BY AtZero DEF AtHead, FifoInv, Indices
  <1>2. Byte(0) \in Nat /\ Byte(n - 1) \in Nat /\ Byte(0) <= recvd BY AtType
  <1>3. Byte(0) <= Byte(n - 1)
    <2>1. CASE n = 1 BY <2>1, <1>2
    <2>2. CASE n # 1
      <3>1. 0 \in 0 .. len - 1 /\ n - 1 \in 0 .. len - 1 /\ 0 < n - 1 BY <2>2, <1>1
      <3>2. Byte(0) < Byte(n - 1) BY <3>1 DEF StreamInv, Rising
      <3> QED BY <3>2, <1>2
    <2> QED BY <2>1, <2>2
  <1>4. Consumed(n) = {j \in pkgs : j.start <= Byte(n - 1)} BY ConsumedUpTo
  <1>5. \A j \in pkgs : j.start \in Nat BY PackageType
  <1> QED BY <1>1, <1>2, <1>3, <1>4, <1>5

\* The end of the loop body, as one of two outcomes.
LEMMA Assembled ==
  ASSUME NEW l, NEW c, Assemble(l, c)
  PROVE  /\ \/ /\ Complete(l, c) /\ list' = l \ Of(l, c) /\ torn' = Tears(l, c)
               /\ out' = Append(out, [cmd |-> c, parts |-> Of(l, c)])
            \/ ~Complete(l, c) /\ list' = l /\ torn' = torn /\ out' = out
         /\ list' \subseteq l /\ \A f \in l : f.cmd # c => f \in list'
  BY DEF Assemble, Destroy, Of

\* The parts of the invariant that hold whatever is taken: a list that is
\* torn had been overtaken in two commands, and the third is at the head.
LEMMA TakeKeepsList ==
  ASSUME FifoInv, StreamInv, ListInv, FragInv, NEW k, NEW n, NEW c, NEW l, Takes(k, n, c, l)
  PROVE  ListTypes' /\ ListBehind' /\ Single' /\ TornCosts'
  <1>1. /\ k \in AtHead /\ n \in Nat /\ n > 0 /\ n <= len /\ c \in Cmds
        /\ pkgs' = pkgs \ Consumed(n) /\ Assemble(l, c)
        /\ recvd' = recvd /\ damaged \subseteq damaged' /\ damaged' \subseteq Cmds
        /\ k.cmd # c => c \in damaged' /\ k.cmd \in damaged'
    BY DEF Takes
  <1>2. /\ k \in Consumed(n) /\ k.start \in Nat /\ k.start <= recvd
        /\ \A j \in pkgs \ Consumed(n) : k.start < j.start
    BY <1>1, RestBehind
  <1>3. l = list \/ \E f \in Node : /\ l = list \union {f} /\ f.start = k.start
                                    /\ f.cmd = c /\ f.last \in Lasts
    BY DEF Takes
  <1>4. /\ list' \subseteq l /\ \A f \in l : f.cmd # c => f \in list'
        /\ \/ /\ Complete(l, c) /\ list' = l \ Of(l, c) /\ torn' = Tears(l, c)
              /\ out' = Append(out, [cmd |-> c, parts |-> Of(l, c)])
           \/ ~Complete(l, c) /\ list' = l /\ torn' = torn /\ out' = out
    BY <1>1, Assembled
  <1>5. \A f \in list : /\ f \in Node /\ f.start \in Nat
                        /\ f.start < k.start /\ f.last \in Lasts
    BY <1>1 DEF ListInv, ListTypes, ListBehind, Node, AtHead
  <1>6. \A f \in l : /\ f \in Node /\ f.start <= k.start /\ f.last \in Lasts
                     /\ f \in list \/ (f.start = k.start /\ f.cmd = c)
    BY <1>2, <1>3, <1>5
  <1>7. \A f, g \in l : f.start = g.start => f = g
    BY <1>2, <1>3, <1>5 DEF ListInv, ListBehind
  <1>8. ListTypes'
    <2>1. Of(l, c) \subseteq Node BY <1>6 DEF Of
    <2>2. out' \in Seq([cmd : Cmds, parts : SUBSET Node])
      <3> DEFINE Message == [cmd : Cmds, parts : SUBSET Node]
      <3>1. [cmd |-> c, parts |-> Of(l, c)] \in Message BY <2>1, <1>1
      <3>2. out \in Seq(Message) BY DEF ListInv, ListTypes
      <3> HIDE DEF Message
      <3>3. out' \in Seq(Message) BY <3>1, <3>2, <1>4
      <3> QED BY <3>3 DEF Message
    <2> QED BY <2>2, <1>1, <1>4, <1>6 DEF ListTypes
  <1>9. ListBehind'
    <2>1. ASSUME NEW f \in list' PROVE f.start <= recvd /\ f.last \in Lasts
      BY <1>2, <1>4, <1>5, <1>6 DEF ListInv, ListBehind
    <2>2. ASSUME NEW f \in list', NEW j \in pkgs' PROVE f.start < j.start
      <3>1. f.start <= k.start /\ f.start \in Nat BY <1>4, <1>6 DEF Node
      <3>2. k.start < j.start /\ j.start \in Nat BY <1>1, <1>2, PackageType
      <3> QED BY <3>1, <3>2, <1>2
    <2>3. \A j \in pkgs' : j.last \in Lasts BY <1>1 DEF ListInv, ListBehind
    <2> QED BY <2>1, <2>2, <2>3, <1>1, <1>4, <1>7 DEF ListBehind
  <1>10. Single'
    <2> SUFFICES ASSUME Lasts \subseteq {0, 1}, NEW f \in list', NEW g \in list',
                        f.cmd = g.cmd, f # g
                 PROVE  FALSE
      BY DEF Single
    <2>0. Single BY DEF ListInv
    <2>1. ~(f \in list /\ g \in list) BY <2>0 DEF Single
    <2>2. f.cmd = c BY <2>1, <1>4, <1>6
    <2>3. ~Complete(l, c) /\ list' = l BY <2>2, <1>4 DEF Of
    <2>4. f \in Of(l, c) /\ g \in Of(l, c) BY <2>2, <2>3 DEF Of
    <2>5. Of(l, c) = {f, g}
      <3>1. PICK x : l = list \union {x} BY <2>1, <2>3, <1>3
      <3>2. x = f \/ x = g BY <2>1, <2>3, <3>1
      <3>3. \A y \in list : y.cmd = c => y = f \/ y = g
        BY <2>0, <2>2, <2>3, <3>1, <3>2 DEF Single
      <3> QED BY <2>2, <2>4, <3>1, <3>2, <3>3 DEF Of
    <2>6. Cardinality(Of(l, c)) = 2
      <3>1. IsFiniteSet({f}) /\ Cardinality({f}) = 1 BY FS_Singleton
      <3>2. Cardinality({f} \union {g}) = Cardinality({f}) + 1 BY <3>1, FS_AddElement
      <3> QED BY <2>5, <3>1, <3>2
    <2>7. First(Of(l, c)) \in Of(l, c)
      <3>1. f \in l /\ g \in l BY <2>3
      <3>2. f.start \in Nat /\ g.start \in Nat BY <3>1, <1>6 DEF Node
      <3>3. \E x \in {f, g} : \A y \in {f, g} : x.start <= y.start
        <4>1. f.start <= g.start \/ g.start <= f.start BY <3>2
        <4>2. f.start <= f.start /\ g.start <= g.start BY <3>2
        <4> QED BY <4>1, <4>2
      <3> QED BY <2>5, <3>3 DEF First
    <2>8. First(Of(l, c)).last \in {0, 1} BY <2>7, <1>6 DEF Of
    <2>9. Cardinality(Of(l, c)) > First(Of(l, c)).last BY <2>6, <2>8
    <2> QED BY <2>3, <2>4, <2>9 DEF Complete
  <1>11. TornCosts'
    <2>1. CASE torn' = torn BY <2>1, <1>1 DEF ListInv, TornCosts
    <2>2. CASE Tears(l, c)
      <3>1. PICK f \in l, g \in l, h \in l :
              /\ f.cmd # c /\ g.cmd = c /\ h.cmd # c
              /\ f.start < g.start /\ g.start < h.start
        BY <2>2 DEF Tears
      <3>2. f \in list /\ h \in list BY <3>1, <1>6
      <3>3. f.start \in Nat /\ g.start \in Nat /\ h.start \in Nat BY <1>6 DEF Node
      <3>4. h.start < k.start BY <3>2, <1>5
      <3>5. g \in list BY <3>1, <3>3, <3>4, <1>2, <1>6
      <3>6. len > 0 BY <1>1 DEF FifoInv, Indices
      <3>7. f.cmd \in damaged BY <3>1, <3>2, <3>5, <3>6, Overtaken
      <3>8. c \in damaged BY <3>1, <3>2, <3>5, <3>6, Overtaken
      <3>9. h.cmd \in damaged'
        <4>1. CASE k.cmd = h.cmd BY <4>1, <3>1, <1>1
        <4>2. CASE k.cmd # h.cmd
          <5>1. h.cmd \in damaged BY <4>2, <3>2, <3>4, <3>6, <1>1, Overtaken
          <5> QED BY <5>1, <1>1
        <4> QED BY <4>1, <4>2
      <3>10. Lasts \subseteq {0, 1} => h.cmd # f.cmd
        <4>1. f # h BY <3>1, <3>3
        <4> QED BY <4>1, <3>2 DEF ListInv, Single
      <3> QED BY <3>1, <3>7, <3>8, <3>9, <3>10, <1>1 DEF TornCosts
    <2>3. CASE torn' = FALSE BY <2>3 DEF TornCosts
    <2> QED BY <2>1, <2>2, <2>3, <1>4 DEF Tears
  <1> QED BY <1>8, <1>9, <1>10, <1>11

\* What else was consumed, and the command, are damaged.
LEMMA TakeDamaged ==
  ASSUME FifoInv, StreamInv, ListInv, FragInv, NEW k, NEW n, NEW c, NEW l, Takes(k, n, c, l),
         c \in damaged', \A j \in Consumed(n) : j.cmd \in damaged'
  PROVE  Thins /\ ListInv'
  <1>1. /\ k \in AtHead /\ n \in Nat /\ n > 0 /\ n <= len
        /\ pkgs' = pkgs \ Consumed(n) /\ Assemble(l, c)
        /\ UNCHANGED <<sending, msgs>> /\ damaged \subseteq damaged'
    BY DEF Takes
  <1>2. k \in Consumed(n) BY <1>1, RestBehind
  <1>3. l = list \/ \E f \in Node : l = list \union {f} /\ f.start = k.start /\ f.cmd = c
    BY DEF Takes
  <1>4. /\ list' \subseteq l /\ \A f \in l : f.cmd # c => f \in list'
        /\ \/ out' = Append(out, [cmd |-> c, parts |-> Of(l, c)])
           \/ out' = out
    BY <1>1, Assembled
  <1>5. \A f : f.cmd \notin damaged' => (f \in list' <=> f \in list)
    BY <1>3, <1>4
  <1>6. \A f : f.cmd \notin damaged' => (f \in pkgs' <=> f \in pkgs)
    BY <1>1
  <1>7. \A e : e \in Sound' <=> e \in Sound /\ e.cmd \notin damaged'
    BY <1>1, <1>5, <1>6 DEF Sound, Fragments
  <1>8. Thins
    <2>1. \A e : Alike(e, e) BY DEF Alike
    <2>2. ASSUME NEW e \in Sound', NEW g \in Sound, g.msg = e.msg PROVE g \in Sound'
      <3>1. g.cmd = e.cmd BY <2>2, <1>7 DEF FragInv, InOrder
      <3> QED BY <3>1, <1>7
    <2>3. ASSUME sending # Nothing, sending.cmd \notin damaged',
                 NEW g \in Sound, g.msg = msgs
          PROVE  g \in Sound'
      <3>1. g.cmd = sending.cmd BY <2>3 DEF FragInv, SenderPlace
      <3> QED BY <3>1, <2>3, <1>7
    <2>4. ASSUME NEW h \in Fragments', NEW e \in Sound', h.cmd # e.cmd
          PROVE  \E g \in Fragments : g.cmd # e.cmd /\ g.start = h.start
      <3>1. CASE h \in Fragments BY <3>1, <2>4
      <3>2. CASE h \notin Fragments
        <4>1. h \in list' /\ h \notin list BY <3>2, <1>1 DEF Fragments
        <4>2. h.start = k.start BY <4>1, <1>3, <1>4
        <4>3. k \in Fragments /\ k.cmd \in damaged' BY <1>1, <1>2 DEF AtHead, Fragments
        <4>4. e.cmd \notin damaged' BY <1>7
        <4> QED BY <4>2, <4>3, <4>4
      <3> QED BY <3>1, <3>2
    <2> QED BY <1>1, <1>7, <2>1, <2>2, <2>3, <2>4 DEF Thins
  <1>9. ListTypes' /\ ListBehind' /\ Single' /\ TornCosts' BY TakeKeepsList
  <1>10. Incomplete'
    BY <1>1, <1>5 DEF ListInv, Incomplete
  <1>11. OutStays
    <2>1. CASE out' = out BY <2>1 DEF OutStays
    <2>2. CASE out' = Append(out, [cmd |-> c, parts |-> Of(l, c)])
      <3>1. DOMAIN out = 1 .. Len(out) /\ Len(out) \in Nat BY DEF ListInv, ListTypes
      <3>2. DOMAIN out' = 1 .. Len(out) + 1
            /\ out'[Len(out) + 1] = [cmd |-> c, parts |-> Of(l, c)]
            /\ \A i \in 1 .. Len(out) : out'[i] = out[i]
        BY <2>2 DEF ListInv, ListTypes
      <3>3. ASSUME NEW i \in DOMAIN out', out'[i].cmd \notin damaged'
            PROVE  i \in DOMAIN out /\ out'[i] = out[i]
        <4>1. i # Len(out) + 1 BY <3>2, <3>3
        <4> QED BY <4>1, <3>1, <3>2
      <3> QED BY <3>3 DEF OutStays
    <2> QED BY <2>1, <2>2, <1>4
  <1>12. Returned' /\ UndamagedIntact'
    BY <1>8, <1>9, <1>11, OutKeeps DEF ListTypes
  <1> QED BY <1>8, <1>9, <1>10, <1>12 DEF ListInv

\* A package of a sound command is the one its list waits for: with it the
\* list holds the packages 0 to k.cur of its message.
LEMMA Joins ==
  ASSUME FifoInv, StreamInv, ListInv, FragInv, len > 0,
         NEW k \in AtHead, k.cmd \notin damaged,
         NEW f \in Node, Alike(f, k), NEW D, D = Of(list \union {f}, k.cmd)
  PROVE  /\ k \in Sound /\ k.cur <= k.last
         /\ \A x \in D : x.msg = k.msg /\ x.last = k.last /\ x.cur <= k.cur
         /\ {x.cur : x \in D} = 0 .. k.cur
         /\ \A x, y \in D : x.start < y.start <=> x.cur < y.cur
         /\ First(D).last = k.last
         /\ Complete(list \union {f}, k.cmd) <=> k.cur = k.last
  <1> DEFINE mine == {g \in list : g.cmd = k.cmd}
  <1>1. k \in pkgs /\ k \in Sound BY DEF AtHead, Sound, Fragments
  <1>2. InOrder /\ NoneMissing /\ RestFollows /\ SenderPlace BY DEF FragInv
  <1>3. ListBehind /\ Incomplete /\ ListTypes BY DEF ListInv
  <1>4. \A e \in Sound : /\ e.msg \in Nat /\ e.cur \in Nat /\ e.last \in Nat
                         /\ e.start \in Nat /\ e.cmd \notin damaged
                         /\ e \in list \/ e \in pkgs
    BY <1>3, FragmentType DEF Sound, Fragments
  <1>5. \A g \in mine : g \in Sound /\ g \in list /\ g.cmd = k.cmd BY DEF Sound, Fragments
  <1>6. D = mine \union {f} BY DEF Of, Alike
  <1>7. f.msg = k.msg /\ f.cmd = k.cmd /\ f.cur = k.cur /\ f.last = k.last
        /\ f.start = k.start
    BY DEF Alike
  <1>8. ASSUME NEW j \in Sound, j \in pkgs, j # k PROVE k.start < j.start
    <2>1. Unbroken(j) BY <1>4, <1>8 DEF StreamInv, Apart
    <2> QED BY <2>1, <1>8, HeadFirst
  <1>9. msgs \in Nat BY DEF FifoInv, SenderTyped
  <1>10. k.cur <= k.last /\ k.msg <= msgs BY <1>1, <1>2 DEF NoneMissing
  <1>11. ASSUME NEW g \in mine
         PROVE  g.msg = k.msg /\ g.last = k.last /\ g.cur < k.cur /\ g.start < k.start
    <2>1. g.start < k.start BY <1>1, <1>3, <1>5 DEF ListBehind
    <2>2. g.msg < k.msg \/ (g.msg = k.msg /\ g.cur < k.cur)
      BY <2>1, <1>1, <1>2, <1>5 DEF InOrder
    <2>3. g.msg = k.msg
      <3> SUFFICES ASSUME g.msg < k.msg PROVE FALSE BY <2>2
      <3>1. CASE \E z \in Sound : z.msg = g.msg /\ z.cur = z.last
        <4>1. PICK z \in Sound : z.msg = g.msg /\ z.cur = z.last BY <3>1
        <4>2. z \notin list
          <5>1. z \in list => z.cur < z.last BY <1>3, <1>4 DEF Incomplete
          <5> QED BY <5>1, <4>1, <1>4
        <4>3. z \in pkgs BY <4>2, <1>4
        <4>4. z # k BY <4>1, <1>1, <1>4, <1>5
        <4>5. k.start < z.start BY <4>3, <4>4, <1>8
        <4>6. k.msg < z.msg \/ k.msg = z.msg BY <4>5, <1>1, <1>2 DEF InOrder
        <4> QED BY <4>1, <4>6, <1>1, <1>4, <1>5
      <3>2. CASE sending # Nothing /\ sending.msg = g.msg
        <4>1. g.msg = msgs BY <3>2, <1>2 DEF SenderPlace
        <4> QED BY <4>1, <1>1, <1>4, <1>5, <1>9, <1>10
      <3> QED BY <3>1, <3>2, <1>2, <1>5 DEF RestFollows
    <2>4. g.last = k.last BY <2>3, <1>1, <1>2, <1>5 DEF InOrder
    <2> QED BY <2>1, <2>2, <2>3, <2>4, <1>1, <1>4, <1>5
  <1>12. ASSUME NEW n \in Nat, n < k.cur PROVE \E g \in mine : g.cur = n
    <2>1. PICK g \in Sound : g.msg = k.msg /\ g.cur = n
      BY <1>1, <1>2, <1>12 DEF NoneMissing
    <2>2. g.cmd = k.cmd BY <2>1, <1>1, <1>2 DEF InOrder
    <2>3. g \notin pkgs
      <3> SUFFICES ASSUME g \in pkgs PROVE FALSE OBVIOUS
      <3>1. g # k BY <2>1, <1>1, <1>4, <1>12
      <3>2. k.start < g.start BY <3>1, <1>8
      <3>3. k.cur < g.cur \/ k.msg < g.msg BY <3>2, <1>1, <1>2 DEF InOrder
      <3> QED BY <3>3, <2>1, <1>1, <1>4, <1>12
    <2> QED BY <2>1, <2>2, <2>3, <1>4
  <1>13. /\ k.msg \in Nat /\ k.cur \in Nat /\ k.last \in Nat /\ k.start \in Nat
         /\ \A g \in mine : g.cur \in Nat /\ g.start \in Nat
    BY <1>1, <1>4, <1>5
  <1>14. \A x \in D : /\ x.msg = k.msg /\ x.last = k.last /\ x.cur <= k.cur
                      /\ x.cur \in Nat /\ x.start \in Nat
    <2> TAKE x \in D
    <2>1. CASE x = f BY <2>1, <1>7, <1>13
    <2>2. CASE x \in mine BY <2>2, <1>11, <1>13
    <2> QED BY <2>1, <2>2, <1>6
  <1>15. {x.cur : x \in D} = 0 .. k.cur
    <2>1. \A n \in 0 .. k.cur : \E x \in D : x.cur = n
      <3> TAKE n \in 0 .. k.cur
      <3>1. CASE n = k.cur BY <3>1, <1>6, <1>7
      <3>2. CASE n # k.cur
        <4>1. n \in Nat /\ n < k.cur BY <3>2, <1>13
        <4>2. PICK g \in mine : g.cur = n BY <4>1, <1>12
        <4> QED BY <4>2, <1>6
      <3> QED BY <3>1, <3>2
    <2>2. \A x \in D : x.cur \in 0 .. k.cur BY <1>13, <1>14
    <2> QED BY <2>1, <2>2
  <1>16. ASSUME NEW x \in D, NEW y \in D
         PROVE  /\ x.start < y.start <=> x.cur < y.cur
                /\ x.cur = y.cur => x = y
    <2>1. CASE x \in mine /\ y \in mine
      <3>1. x.start < y.start => x.cur < y.cur
        BY <2>1, <1>2, <1>5, <1>11, <1>13 DEF InOrder
      <3>2. y.start < x.start => y.cur < x.cur
        BY <2>1, <1>2, <1>5, <1>11, <1>13 DEF InOrder
      <3>3. x.start = y.start => x = y BY <2>1, <1>3 DEF ListBehind
      <3> QED BY <2>1, <3>1, <3>2, <3>3, <1>13
    <2>2. CASE x \in mine /\ y = f BY <2>2, <1>7, <1>11, <1>13
    <2>3. CASE x = f /\ y \in mine BY <2>3, <1>7, <1>11, <1>13
    <2>4. CASE x = f /\ y = f BY <2>4, <1>7, <1>13
    <2> QED BY <2>1, <2>2, <2>3, <2>4, <1>6
  <1> HIDE DEF mine
  <1>17. First(D).last = k.last
    <2>1. PICK x \in D : x.cur = 0
      <3>1. 0 \in 0 .. k.cur BY <1>13
      <3> QED BY <3>1, <1>15
    <2>2. \A y \in D : x.start <= y.start
      <3> TAKE y \in D
      <3>1. y.cur \in Nat /\ ~(y.cur < x.cur) BY <2>1, <1>14
      <3>2. y.start < x.start <=> y.cur < x.cur BY <1>16
      <3>3. x.start \in Nat /\ y.start \in Nat BY <1>14
      <3> QED BY <3>1, <3>2, <3>3
    <2>3. First(D) \in D BY <2>2 DEF First
    <2> QED BY <2>3, <1>14
  <1>18. IsFiniteSet(D) /\ Cardinality(D) = k.cur + 1
    <2> DEFINE place == [x \in D |-> x.cur]
    <2>1. \A x \in D : place[x] = x.cur OBVIOUS
    <2>2. place \in [D -> 0 .. k.cur] BY <1>15
    <2>3. \A n \in 0 .. k.cur : \E x \in D : place[x] = n BY <1>15
    <2>4. \A x, y \in D : place[x] = place[y] => x = y BY <1>16
    <2>7. DOMAIN place = D OBVIOUS
    <2> HIDE DEF place
    <2>5. place \in Bijection(D, 0 .. k.cur)
      BY <2>2, <2>3, <2>4, <2>7 DEF Bijection, Injection, Surjection, IsInjective
    <2>6. ExistsBijection(0 .. k.cur, D)
      <3>1. ExistsBijection(D, 0 .. k.cur) BY <2>5 DEF ExistsBijection
      <3> QED BY <3>1, Fun_ExistsBijSymmetric
    <2>8. IsFiniteSet(0 .. k.cur) /\ Cardinality(0 .. k.cur) = k.cur + 1
      <3>1. PICK m \in Nat : m = k.cur BY <1>13
      <3>2. m \in Int /\ 0 \in Int /\ ~(0 > m) /\ m - 0 + 1 = m + 1 BY <3>1
      <3>3. IsFiniteSet(0 .. m) /\ Cardinality(0 .. m) = m + 1 BY <3>2, FS_Interval
      <3> QED BY <3>1, <3>3
    <2> QED BY <2>6, <2>8, FS_Bijection
  <1>19. Complete(list \union {f}, k.cmd) <=> k.cur = k.last
    <2>1. D # {} BY <1>6
    <2>2. Complete(list \union {f}, k.cmd) <=> D # {} /\ Cardinality(D) > First(D).last
      BY DEF Complete
    <2>3. Cardinality(D) > First(D).last <=> k.cur + 1 > k.last BY <1>17, <1>18
    <2>4. k.cur + 1 > k.last <=> k.cur = k.last BY <1>10, <1>13
    <2> QED BY <2>1, <2>2, <2>3, <2>4, Zenon
  <1> QED BY <1>1, <1>10, <1>14, <1>15, <1>16, <1>17, <1>19

\* A whole package of a sound command: its message goes on, or is complete
\* and returned.
LEMMA TakeSound ==
  ASSUME FifoInv, StreamInv, ListInv, FragInv, NEW k, NEW n, NEW f \in Node,
         k.cmd \notin damaged, Alike(f, k), damaged' = damaged,
         Takes(k, n, k.cmd, list \union {f}),
         \A j \in Consumed(n) : j = k \/ j.cmd \in damaged
  PROVE  Thins /\ ListInv'
  <1> DEFINE c == k.cmd
             l == list \union {f}
             D == Of(l, c)
  <1>1. /\ k \in AtHead /\ n \in Nat /\ n > 0 /\ n <= len /\ c \in Cmds
        /\ pkgs' = pkgs \ Consumed(n) /\ Assemble(l, c)
        /\ UNCHANGED <<sending, msgs>>
    BY DEF Takes
  <1>2. /\ k \in Consumed(n) /\ \A j \in pkgs \ Consumed(n) : k.start < j.start
    BY <1>1, RestBehind
  <1>3. len > 0 BY <1>1 DEF FifoInv, Indices
  <1>4. /\ k \in Sound /\ k.cur <= k.last
        /\ \A x \in D : x.msg = k.msg /\ x.last = k.last /\ x.cur <= k.cur
        /\ {x.cur : x \in D} = 0 .. k.cur
        /\ \A x, y \in D : x.start < y.start <=> x.cur < y.cur
        /\ First(D).last = k.last
        /\ Complete(l, c) <=> k.cur = k.last
    BY <1>1, <1>3, Joins
  <1>5. \/ /\ Complete(l, c) /\ list' = l \ D /\ torn' = Tears(l, c)
           /\ out' = Append(out, [cmd |-> c, parts |-> D])
        \/ ~Complete(l, c) /\ list' = l /\ torn' = torn /\ out' = out
    BY <1>1, Assembled
  <1>6. \A x : x \in D <=> x \in l /\ x.cmd = c BY DEF Of
  <1>7. f.msg = k.msg /\ f.cmd = c /\ f.cur = k.cur /\ f.last = k.last /\ f.start = k.start
    BY DEF Alike
  <1> HIDE DEF D
  <1>8. InOrder /\ NoneMissing /\ SenderPlace BY DEF FragInv
  <1>9. /\ k.msg \in Nat /\ k.cur \in Nat /\ k.last \in Nat /\ k.start \in Nat
        /\ k \in pkgs /\ msgs \in Nat
    BY <1>1, FragmentType DEF AtHead, Fragments, ListInv, FifoInv, SenderTyped
  <1>10. \A e \in Sound : /\ e.msg \in Nat /\ e.cur \in Nat /\ e.last \in Nat
                          /\ e.cmd \notin damaged
                          /\ e \in list \/ e \in pkgs
    BY FragmentType DEF Sound, Fragments, ListInv
  <1>11. ASSUME NEW g \in Sound, g \in pkgs, g # k PROVE g \in pkgs'
    <2>0. \A j \in Consumed(n) : j = k \/ j.cmd \in damaged OBVIOUS
    <2>1. g \notin Consumed(n) BY <2>0, <1>10, <1>11, Zenon
    <2> QED BY <2>1, <1>1, <1>11
  <1>12. k \notin pkgs' BY <1>1, <1>2
  <1>13. \A e : Alike(e, e) BY DEF Alike
  <1>14. ListTypes' /\ ListBehind' /\ Single' /\ TornCosts' BY TakeKeepsList
  <1>15. out \in Seq([cmd : Cmds, parts : SUBSET Node]) BY DEF ListInv, ListTypes
  <1>16. out' \in Seq([cmd : Cmds, parts : SUBSET Node]) BY <1>14 DEF ListTypes
  \* What is left of the same message.
  <1>17. ASSUME k.cur = k.last, NEW e \in Sound, e.cmd = c, e \in pkgs'
         PROVE  k.msg < e.msg
    <2>1. k.start < e.start BY <1>1, <1>2, <1>17
    <2>2. k.msg < e.msg \/ (k.msg = e.msg /\ k.cur < e.cur)
      BY <2>1, <1>4, <1>8 DEF InOrder
    <2>3. k.msg = e.msg => e.last = k.last BY <1>4, <1>8, <1>17 DEF InOrder
    <2>4. e.cur <= e.last BY <1>8, <1>17 DEF NoneMissing
    <2> QED BY <2>2, <2>3, <2>4, <1>9, <1>10, <1>17
  <1>18. ASSUME k.cur = k.last, sending # Nothing PROVE k.msg # sending.msg
    <2> SUFFICES ASSUME k.msg = sending.msg PROVE FALSE OBVIOUS
    <2>1. sending.msg = msgs /\ sending.cur <= sending.last
      BY <1>8, <1>18 DEF SenderPlace
    <2>2. k.cur < sending.cur /\ k.last = sending.last
      BY <2>1, <1>4, <1>8, <1>18 DEF SenderPlace
    <2>3. sending.cur \in Nat /\ sending.last \in Nat BY <1>18, SenderType
    <2> QED BY <2>1, <2>2, <2>3, <1>9, <1>18
  <1>19. CASE ~Complete(l, c)
    <2>1. list' = l /\ out' = out /\ k.cur < k.last BY <1>4, <1>5, <1>9, <1>19
    <2>2. ASSUME NEW e \in Sound' PROVE \E g \in Sound : Alike(e, g) /\ e.cmd = g.cmd
      <3>1. CASE e = f BY <3>1, <1>4, <1>7
      <3>2. CASE e # f
        <4>1. e \in Sound BY <3>2, <2>1, <1>1 DEF Sound, Fragments
        <4> QED BY <4>1, <1>13
      <3> QED BY <3>1, <3>2
    <2>3. ASSUME NEW g \in Sound PROVE \E d \in Sound' : Alike(d, g)
      <3>1. f \in Sound' BY <2>1, <1>7 DEF Sound, Fragments
      <3>2. CASE g = k BY <3>1, <3>2
      <3>3. CASE g # k
        <4>1. g \in Sound' BY <3>3, <2>1, <1>10, <1>11 DEF Sound, Fragments
        <4> QED BY <4>1, <1>13
      <3> QED BY <3>2, <3>3
    <2>4. ASSUME NEW h \in Fragments', NEW e \in Sound', h.cmd # e.cmd
          PROVE  \E g \in Fragments : g.cmd # e.cmd /\ g.start = h.start
      <3>1. CASE h = f
        <4>1. k \in Fragments BY <1>4 DEF Sound
        <4> QED BY <3>1, <4>1, <2>4, <1>7
      <3>2. CASE h # f
        <4>1. h \in Fragments BY <3>2, <2>1, <1>1 DEF Fragments
        <4> QED BY <4>1, <2>4
      <3> QED BY <3>1, <3>2
    <2>5. Thins BY <2>2, <2>3, <2>4, <1>1 DEF Thins
    <2>6. Incomplete'
      <3>1. ASSUME NEW g \in list', g.cmd \notin damaged
            PROVE  /\ g.cur < g.last
                   /\ \A h \in list' : h.cmd = g.cmd => h.msg = g.msg
        <4>1. CASE g.cmd = c
          <5>1. g \in D BY <4>1, <3>1, <2>1, <1>6
          <5>2. g.last = k.last /\ g.cur <= k.cur /\ g.msg = k.msg BY <5>1, <1>4
          <5>3. \A h \in list' : h.cmd = g.cmd => h.msg = g.msg
            BY <4>1, <5>2, <2>1, <1>4, <1>6
          <5>4. g.cur \in Nat
            <6>1. g \in Node BY <1>14 DEF ListTypes
            <6> QED BY <6>1 DEF Node
          <5> QED BY <5>2, <5>3, <5>4, <2>1, <1>9
        <4>2. CASE g.cmd # c
          <5>1. g \in list /\ \A h \in list' : h.cmd = g.cmd => h \in list
            BY <4>2, <2>1, <1>7
          <5> QED BY <5>1, <3>1 DEF ListInv, Incomplete
        <4> QED BY <4>1, <4>2
      <3> QED BY <3>1 DEF Incomplete
    <2>7. OutStays BY <2>1 DEF OutStays
    <2> QED BY <2>5, <2>6, <2>7, <1>14, <1>16, OutKeeps DEF ListInv
  <1>20. CASE Complete(l, c)
    <2>1. /\ list' = l \ D /\ out' = Append(out, [cmd |-> c, parts |-> D])
          /\ k.cur = k.last
      BY <1>4, <1>5, <1>20
    <2>2. \A h : h \in list' <=> h \in list /\ h.cmd # c BY <2>1, <1>6, <1>7
    <2>3. \A e \in Sound' : e \in Sound /\ (e.cmd = c => e \in pkgs')
      BY <2>2, <1>1 DEF Sound, Fragments
    <2>4. \A g \in Sound : g \in Sound' \/ (g.cmd = c /\ g.msg = k.msg)
      <3> TAKE g \in Sound
      <3>1. CASE g = k BY <3>1
      <3>2. CASE g \in list /\ g.cmd = c
        <4>1. g \in D BY <3>2, <1>6
        <4> QED BY <3>2, <4>1, <1>4
      <3>3. CASE g \in list /\ g.cmd # c
        BY <3>3, <2>2, <1>10 DEF Sound, Fragments
      <3>4. CASE g \in pkgs'
        BY <3>4, <1>10 DEF Sound, Fragments
      <3> QED BY <3>1, <3>2, <3>3, <3>4, <1>10, <1>11
    <2>5. Thins
      <3>1. ASSUME NEW e \in Sound', NEW g \in Sound, g.msg = e.msg PROVE g \in Sound'
        <4> SUFFICES ASSUME g \notin Sound' PROVE FALSE OBVIOUS
        <4>1. g.cmd = c /\ g.msg = k.msg BY <2>4
        <4>2. e \in Sound /\ e.cmd = c BY <4>1, <2>3, <3>1, <1>8 DEF InOrder
        <4>3. k.msg < e.msg BY <4>2, <2>1, <2>3, <1>17
        <4> QED BY <4>1, <4>3, <3>1, <1>9
      <3>2. ASSUME sending # Nothing, NEW g \in Sound, g.msg = msgs PROVE g \in Sound'
        <4> SUFFICES ASSUME g \notin Sound' PROVE FALSE OBVIOUS
        <4>1. k.msg = msgs BY <2>4, <3>2
        <4>2. sending.msg = msgs BY <3>2, <1>8 DEF SenderPlace
        <4> QED BY <4>1, <4>2, <3>2, <2>1, <1>18
      <3>3. ASSUME NEW h \in Fragments', NEW e \in Sound', h.cmd # e.cmd
            PROVE  \E g \in Fragments : g.cmd # e.cmd /\ g.start = h.start
        <4>1. h \in Fragments BY <2>2, <1>1 DEF Fragments
        <4> QED BY <4>1, <3>3
      <3> QED BY <2>3, <3>1, <3>2, <3>3, <1>1, <1>13 DEF Thins
    <2>6. Incomplete'
      <3>1. ASSUME NEW g \in list', g.cmd \notin damaged
            PROVE  /\ g.cur < g.last
                   /\ \A h \in list' : h.cmd = g.cmd => h.msg = g.msg
        BY <2>2, <3>1 DEF ListInv, Incomplete
      <3> QED BY <3>1 DEF Incomplete
    <2>7. DOMAIN out = 1 .. Len(out) /\ Len(out) \in Nat BY <1>15
    <2>8. /\ DOMAIN out' = 1 .. Len(out) + 1
          /\ out'[Len(out) + 1] = [cmd |-> c, parts |-> D]
          /\ \A i \in DOMAIN out : out'[i] = out[i]
      BY <2>1, <1>15
    <2>9. ASSUME NEW i \in DOMAIN out'
          PROVE  \/ i \in DOMAIN out /\ out'[i] = out[i]
                 \/ i = Len(out) + 1 /\ out'[i].cmd = c /\ out'[i].parts = D
      BY <2>7, <2>8
    <2>10. Returned'
      <3>1. ASSUME NEW i \in DOMAIN out', out'[i].cmd \notin damaged',
                   NEW h \in out'[i].parts
            PROVE  /\ h.msg <= msgs'
                   /\ \A e \in Sound' : e.cmd = out'[i].cmd => h.msg < e.msg
                   /\ sending' # Nothing /\ sending'.cmd = out'[i].cmd =>
                        h.msg < sending'.msg
        <4>1. CASE i \in DOMAIN out /\ out'[i] = out[i]
          BY <4>1, <3>1, <2>5, OldReturned
        <4>2. CASE i = Len(out) + 1 /\ out'[i].cmd = c /\ out'[i].parts = D
          <5>1. h.msg = k.msg BY <4>2, <3>1, <1>4
          <5>2. k.msg <= msgs BY <1>4, <1>8 DEF NoneMissing
          <5>3. \A e \in Sound' : e.cmd = c => k.msg < e.msg BY <2>1, <2>3, <1>17
          <5>4. sending # Nothing => k.msg < sending.msg
            <6> SUFFICES ASSUME sending # Nothing PROVE k.msg < sending.msg OBVIOUS
            <6>1. sending.msg = msgs BY <1>8 DEF SenderPlace
            <6> QED BY <6>1, <5>2, <2>1, <1>9, <1>18
          <5> QED BY <4>2, <5>1, <5>2, <5>3, <5>4, <1>1
        <4> QED BY <4>1, <4>2, <2>9
      <3> QED BY <3>1 DEF Returned
    <2>11. UndamagedIntact'
      <3>1. ASSUME NEW i \in DOMAIN out', out'[i].cmd \notin damaged'
            PROVE  /\ Whole(out'[i])
                   /\ \A j \in 1 .. i - 1 : out'[j].cmd = out'[i].cmd =>
                        \A g \in out'[j].parts, h \in out'[i].parts : g.msg < h.msg
        <4>1. \A j \in 1 .. i - 1 : j \in DOMAIN out BY <2>7, <2>8
        <4>2. CASE i \in DOMAIN out /\ out'[i] = out[i]
          BY <4>1, <4>2, <3>1, <2>8 DEF ListInv, UndamagedIntact
        <4>3. CASE i = Len(out) + 1 /\ out'[i].cmd = c /\ out'[i].parts = D
          <5>1. Whole(out'[i])
            <6>1. \A x, y \in D : x.msg = y.msg BY <1>4
            <6>2. {x.cur : x \in D} = 0 .. First(D).last BY <1>4, <2>1
            <6> QED BY <4>3, <6>1, <6>2, <1>4 DEF Whole
          <5>2. ASSUME NEW j \in 1 .. i - 1, out'[j].cmd = c,
                       NEW g \in out'[j].parts, NEW h \in D
                PROVE  g.msg < h.msg
            <6>1. j \in DOMAIN out /\ out'[j] = out[j] BY <4>1, <2>8
            <6>2. g.msg < k.msg BY <6>1, <5>2, <1>4 DEF ListInv, Returned
            <6> QED BY <6>2, <1>4
          <5> QED BY <4>3, <5>1, <5>2
        <4> QED BY <4>2, <4>3, <2>9
      <3> QED BY <3>1 DEF UndamagedIntact, Whole, First
    <2> QED BY <2>5, <2>6, <2>10, <2>11, <1>14 DEF ListInv
  <1> QED BY <1>19, <1>20

-----------------------------------------------------------------------------
(* The fragments, one step per action. *)

LEMMA InitLists == PackInit => FragInv /\ ListInv
  <1> SUFFICES ASSUME PackInit PROVE FragInv /\ ListInv OBVIOUS
  <1>1. /\ pkgs = {} /\ list = {} /\ sending = Nothing /\ out = <<>> /\ torn = FALSE
        /\ damaged = {}
    BY DEF PackInit
  <1>2. Fragments = {} /\ Sound = {} BY <1>1 DEF Fragments, Sound
  <1>3. FragInv
    BY <1>1, <1>2 DEF FragInv, InOrder, NoneMissing, RestFollows, SenderPlace
  <1>4. ListTypes
    <2> DEFINE Message == [cmd : Cmds, parts : SUBSET Node]
    <2> HIDE DEF Message
    <2>1. out \in Seq(Message) BY <1>1
    <2> USE DEF Message
    <2> QED BY <1>1, <2>1 DEF ListTypes
  <1>5. DOMAIN out = {} BY <1>1
  <1>6. ListInv
    BY <1>1, <1>4, <1>5
       DEF ListInv, ListBehind, Incomplete, Single, TornCosts, Returned, UndamagedIntact
  <1> QED BY <1>3, <1>6

\* Bytes are lost.
LEMMA LossKeepsLists ==
  ASSUME FifoInv, StreamInv, FragInv, ListInv, NEW lost \in SUBSET pkgs,
         \A k \in lost : k.end > recvd, pkgs' = Shortened(lost), UNCHANGED listVars,
         damaged \union {k.cmd : k \in lost} \subseteq damaged', damaged' \subseteq Cmds,
         msgs' = msgs, recvd' \in Nat, recvd <= recvd',
         sending' = sending \/ (sending' = Nothing /\ sending.cmd \in damaged')
  PROVE  FragInv' /\ ListInv'
  <1>1. list' = list BY DEF listVars
  <1>2. Thins BY <1>1, LossThins
  <1>3. FragInv' BY <1>2, ThinKeeps DEF ListInv
  <1>4. \A j \in pkgs' : \E k \in pkgs : k.start = j.start /\ k.last = j.last
    <2> TAKE j \in pkgs'
    <2>1. CASE j \in pkgs \ lost BY <2>1
    <2>2. CASE ~(j \in pkgs \ lost)
      <3>1. PICK k \in lost : j.last = k.last /\ j.start = k.start BY <2>2, Left
      <3> QED BY <3>1
    <2> QED BY <2>1, <2>2
  <1>5. ListInv' BY <1>2, <1>4, ListKept
  <1> QED BY <1>3, <1>5

\* Nothing that the lists hold changes.
LEMMA StayKeepsLists ==
  ASSUME FifoInv, FragInv, ListInv, UNCHANGED <<pkgs, listVars, msgs, sending, damaged>>,
         recvd' \in Nat, recvd <= recvd'
  PROVE  FragInv' /\ ListInv'
  <1>1. list' = list BY DEF listVars
  <1>2. Thins BY <1>1, StayThins
  <1>3. FragInv' BY <1>2, ThinKeeps DEF ListInv
  <1>4. damaged' \subseteq Cmds BY DEF ListInv, ListTypes
  <1>5. ListInv' BY <1>2, <1>4, ListKept
  <1> QED BY <1>3, <1>5

LEMMA CutKeepsLists ==
  ASSUME FifoInv, StreamInv, FragInv, ListInv, Cut
  PROVE  FragInv' /\ ListInv'
  <1> DEFINE lost == {k \in pkgs : k.end > recvd}
             mid == IF sending = Nothing THEN {} ELSE {sending.cmd}
  <1>1. /\ pkgs' = Shortened(lost) /\ UNCHANGED <<recvd, msgs, listVars>>
        /\ sending' = Nothing
        /\ damaged' = damaged \union {k.cmd : k \in lost} \union mid
    BY DEF Cut
  <1>2. lost \in SUBSET pkgs /\ \A k \in lost : k.end > recvd OBVIOUS
  <1>3. \A k \in lost : k.cmd \in Cmds BY PackageType
  <1>4. mid \subseteq Cmds BY SenderType
  <1>5. damaged' \subseteq Cmds BY <1>1, <1>3, <1>4 DEF ListInv, ListTypes
  <1>6. sending = Nothing \/ sending.cmd \in damaged' BY <1>1
  <1>7. recvd \in Nat /\ recvd <= recvd' BY <1>1 DEF FifoInv, Indices
  <1>8. damaged \union {k.cmd : k \in lost} \subseteq damaged' BY <1>1
  <1> HIDE DEF lost, mid
  <1> QED BY <1>1, <1>2, <1>5, <1>6, <1>7, <1>8, LossKeepsLists

LEMMA RecvKeepsLists ==
  ASSUME FifoInv, StreamInv, FragInv, ListInv, Recv
  PROVE  FragInv' /\ ListInv'
  <1>1. PICK n \in 1 .. RecvMax :
          /\ recvd' = recvd + n
          /\ UNCHANGED <<pkgs, damaged>> \/ DropChunk(n)
    BY DEF Recv
  <1>2. UNCHANGED <<sending, msgs, listVars>> BY DEF Recv, senderVars
  <1>3. recvd \in Nat /\ recvd' \in Nat /\ recvd <= recvd'
    BY <1>1, Sizes4 DEF FifoInv, Indices
  <1>4. CASE UNCHANGED <<pkgs, damaged>> BY <1>2, <1>3, <1>4, StayKeepsLists
  <1>5. CASE DropChunk(n)
    <2> DEFINE lost == {k \in pkgs : k.start <= recvd + n /\ k.end > recvd}
    <2>1. pkgs' = Shortened(lost) /\ damaged' = damaged \union {k.cmd : k \in lost}
      BY <1>5 DEF DropChunk
    <2>2. lost \in SUBSET pkgs /\ \A k \in lost : k.end > recvd OBVIOUS
    <2>3. \A k \in lost : k.cmd \in Cmds BY PackageType
    <2>4. damaged' \subseteq Cmds BY <2>1, <2>3 DEF ListInv, ListTypes
    <2> HIDE DEF lost
    <2> QED BY <1>2, <1>3, <2>1, <2>2, <2>4, LossKeepsLists
  <1> QED BY <1>1, <1>4, <1>5

\* TakeWhole, as a fragment that goes from the stream to the list.
LEMMA WholeTakes ==
  ASSUME FifoInv, StreamInv, ListInv, TakeWhole
  PROVE  \E k \in AtHead, f \in Node, l \in SUBSET Node :
           /\ Unbroken(k) /\ len >= k.size /\ Alike(f, k)
           /\ Takes(k, k.size, k.cmd, l) /\ damaged' = damaged
           /\ k.cmd \notin damaged => l = list \union {f}
           /\ \A j \in Consumed(k.size) : j = k \/ j.cmd \in damaged
  <1>1. PICK k \in AtHead :
          /\ k.end = k.start + k.size - 1
          /\ len >= k.size /\ ReadFifo(k.size)
          /\ LET f == [msg |-> k.msg, cmd |-> k.cmd, cur |-> k.cur, last |-> k.last,
                       start |-> k.start]
             IN Assemble(IF k.bad THEN list ELSE list \union {f}, k.cmd)
          /\ pkgs' = pkgs \ Consumed(k.size)
    BY DEF TakeWhole
  <1>2. UNCHANGED <<sending, msgs, put, recvd, damaged>>
    BY DEF TakeWhole, senderVars
  <1> DEFINE f == [msg |-> k.msg, cmd |-> k.cmd, cur |-> k.cur, last |-> k.last,
                   start |-> k.start]
             l == IF k.bad THEN list ELSE list \union {f}
             n == k.size
  <1>3. Assemble(l, k.cmd) BY <1>1
  <1>4. /\ k \in pkgs /\ n \in Nat /\ n > 0 /\ n <= len /\ k.cmd \in Cmds
        /\ f \in Node /\ Alike(f, k) /\ f.last \in Lasts
    <2>1. k \in pkgs BY DEF AtHead
    <2>2. n \in Nat /\ n > 0 /\ k.cmd \in Cmds /\ f \in Node
      BY <2>1, PackageType DEF Node
    <2>3. f.last \in Lasts BY <2>1 DEF ListInv, ListBehind
    <2>4. n <= len BY <1>1, <2>2 DEF FifoInv, Indices
    <2> QED BY <2>1, <2>2, <2>3, <2>4 DEF Alike
  <1>5. Unbroken(k) BY <1>1 DEF Unbroken
  <1>6. \A j \in Consumed(n) : j = k \/ j.cmd \in damaged
    <2> TAKE j \in Consumed(n)
    <2>1. j \in pkgs BY DEF Consumed
    <2>2. CASE Unbroken(j) BY <2>2, <1>1, <1>5, TakesOne
    <2>3. CASE ~Unbroken(j) BY <2>1, <2>3 DEF StreamInv, Apart
    <2> QED BY <2>2, <2>3
  <1>7. Takes(k, n, k.cmd, l)
    <2>1. l = list \/ \E g \in Node : /\ l = list \union {g} /\ g.start = k.start
                                      /\ g.cmd = k.cmd /\ g.last \in Lasts
      <3>1. f.start = k.start /\ f.cmd = k.cmd OBVIOUS
      <3> HIDE DEF f
      <3> QED BY <3>1, <1>4
    <2>2. damaged' \subseteq Cmds BY <1>2 DEF ListInv, ListTypes
    <2> HIDE DEF l, f
    <2> QED BY <1>1, <1>2, <1>3, <1>4, <2>1, <2>2 DEF Takes
  <1>8. k.cmd \notin damaged => l = list \union {f}
    BY <1>4 DEF StreamInv, Apart
  <1>9. l \in SUBSET Node BY <1>4 DEF ListInv, ListTypes
  <1> HIDE DEF f, l
  <1> QED BY <1>1, <1>2, <1>4, <1>5, <1>6, <1>7, <1>8, <1>9

LEMMA WholeKeepsLists ==
  ASSUME FifoInv, StreamInv, FragInv, ListInv, TakeWhole
  PROVE  FragInv' /\ ListInv'
  <1>1. PICK k \in AtHead, f \in Node, l \in SUBSET Node :
           /\ Alike(f, k) /\ Takes(k, k.size, k.cmd, l) /\ damaged' = damaged
           /\ k.cmd \notin damaged => l = list \union {f}
           /\ \A j \in Consumed(k.size) : j = k \/ j.cmd \in damaged
    BY WholeTakes
  <1>2. Thins /\ ListInv'
    <2>1. CASE k.cmd \in damaged
      <3>1. k.cmd \in damaged' /\ \A j \in Consumed(k.size) : j.cmd \in damaged'
        BY <2>1, <1>1
      <3> QED BY <3>1, <1>1, TakeDamaged
    <2>2. CASE k.cmd \notin damaged
      <3>1. Takes(k, k.size, k.cmd, list \union {f}) BY <2>2, <1>1
      <3> QED BY <2>2, <3>1, <1>1, TakeSound
    <2> QED BY <2>1, <2>2
  <1> QED BY <1>2, ThinKeeps DEF ListInv

LEMMA MixedKeepsLists ==
  ASSUME FifoInv, StreamInv, FragInv, ListInv, TakeMixed
  PROVE  FragInv' /\ ListInv'
  <1>1. PICK k \in AtHead, n \in Sizes, c \in Cmds, la \in Lasts, ok \in BOOLEAN :
          /\ len >= n /\ ReadFifo(n)
          /\ LET f == [msg |-> 0, cmd |-> c, cur |-> k.cur, last |-> la, start |-> k.start]
             IN Assemble(IF ok THEN list \union {f} ELSE list, c)
          /\ pkgs' = pkgs \ Consumed(n)
          /\ damaged' = damaged \union {c} \union {j.cmd : j \in Consumed(n)}
    BY DEF TakeMixed
  <1>2. UNCHANGED <<sending, msgs, put, recvd>> BY DEF TakeMixed, senderVars
  <1> DEFINE f == [msg |-> 0, cmd |-> c, cur |-> k.cur, last |-> la, start |-> k.start]
             l == IF ok THEN list \union {f} ELSE list
  <1>3. Assemble(l, c) BY <1>1
  <1>4. k \in pkgs /\ n \in Nat /\ n > 0 /\ n <= len
    BY <1>1, Sizes4 DEF AtHead, FifoInv, Indices
  <1>5. f \in Node /\ f.start = k.start /\ f.cmd = c /\ f.last \in Lasts
    BY <1>4, PackageType, LastAssumption DEF Node
  <1>6. k \in Consumed(n) BY <1>4, RestBehind
  <1>7. k.cmd \in damaged' /\ c \in damaged' /\ \A j \in Consumed(n) : j.cmd \in damaged'
    BY <1>1, <1>6
  <1>8. damaged' \subseteq Cmds
    <2>1. \A j \in Consumed(n) : j.cmd \in Cmds BY PackageType DEF Consumed
    <2> QED BY <2>1, <1>1 DEF ListInv, ListTypes
  <1>9. Takes(k, n, c, l)
    <2>1. l = list \/ \E g \in Node : /\ l = list \union {g} /\ g.start = k.start
                                      /\ g.cmd = c /\ g.last \in Lasts
      <3> HIDE DEF f
      <3> QED BY <1>5
    <2>2. damaged \subseteq damaged' BY <1>1
    <2> HIDE DEF l, f
    <2> QED BY <1>1, <1>2, <1>3, <1>4, <1>7, <1>8, <2>1, <2>2 DEF Takes
  <1>10. Thins /\ ListInv'
    <2> HIDE DEF l, f
    <2> QED BY <1>7, <1>9, TakeDamaged
  <1> QED BY <1>10, ThinKeeps DEF ListInv

LEMMA StepLists ==
  FifoInv /\ StreamInv /\ FragInv /\ ListInv /\ [PackNext]_packVars => FragInv' /\ ListInv'
  <1> SUFFICES ASSUME FifoInv, StreamInv, FragInv, ListInv, [PackNext]_packVars
               PROVE  FragInv' /\ ListInv'
    OBVIOUS
  <1>0. recvd \in Nat /\ recvd <= recvd BY DEF FifoInv, Indices
  <1>1. CASE SendPackage BY <1>1, SendKeeps, ListSend DEF ListInv
  <1>2. CASE Cut BY <1>2, CutKeepsLists
  <1>3. CASE Recv BY <1>3, RecvKeepsLists
  <1>4. CASE TakeWhole BY <1>4, WholeKeepsLists
  <1>5. CASE TakeMixed BY <1>5, MixedKeepsLists
  <1>6. CASE ParseEnds BY <1>0, <1>6, StayKeepsLists DEF ParseEnds, netVars, senderVars
  <1>7. CASE UNCHANGED packVars
    BY <1>0, <1>7, StayKeepsLists DEF packVars, netVars, senderVars
  <1> QED BY <1>1, <1>2, <1>3, <1>4, <1>5, <1>6, <1>7 DEF PackNext

\* The inductive invariant of the framing.
FrameInv == FifoInv /\ StreamInv /\ FragInv /\ ListInv

\* FrameInv is inductive: the framing of packsocket.c under every sequence
\* of messages, bad crcs, disconnections and dropped chunks.
THEOREM FrameInvHolds == PackSpec => []FrameInv
  <1>1. PackInit => FrameInv BY InitFifo, InitStream, InitLists DEF FrameInv
  <1>2. FrameInv /\ [PackNext]_packVars => FrameInv'
    BY StepFifo, StepStream, StepLists DEF FrameInv
  <1> QED BY <1>1, <1>2, PTL DEF PackSpec

\* For any number of commands, messages, bad crcs and disconnections, and
\* every size of buffer, chunk and package: a message that parseSocketCmd
\* returns of a command that lost nothing is whole, in order and newer than
\* those before, whatever other commands left in the list they share.
THEOREM MessagesIntact == PackSpec => []UndamagedIntact
  <1>1. FrameInv => UndamagedIntact BY DEF FrameInv, ListInv
  <1> QED BY <1>1, FrameInvHolds, PTL

\* As many commands as were named.
LEMMA AtLeastTwo ==
  ASSUME NEW S, IsFiniteSet(S), NEW c \in S, NEW d \in S, c # d
  PROVE  /\ Cardinality(S) >= 2
         /\ (\E e \in S : e # c /\ e # d) => Cardinality(S) >= 3
  <1>1. Cardinality(S) \in Nat BY FS_CardinalityType
  <1>2. IsFiniteSet({c}) /\ Cardinality({c}) = 1 BY FS_Singleton
  <1>3. IsFiniteSet({c} \union {d}) /\ Cardinality({c} \union {d}) = 2
    <2>1. d \notin {c} OBVIOUS
    <2>2. /\ IsFiniteSet({c} \union {d})
          /\ Cardinality({c} \union {d}) = Cardinality({c}) + 1
      BY <2>1, <1>2, FS_AddElement
    <2> QED BY <2>2, <1>2
  <1>4. Cardinality({c} \union {d}) <= Cardinality(S) BY FS_Subset
  <1>5. ASSUME NEW e \in S, e # c, e # d PROVE Cardinality(S) >= 3
    <2>1. Cardinality(({c} \union {d}) \union {e}) = Cardinality({c} \union {d}) + 1
      <3>1. e \notin {c} \union {d} BY <1>5
      <3> QED BY <3>1, <1>3, FS_AddElement
    <2>2. Cardinality(({c} \union {d}) \union {e}) <= Cardinality(S) BY FS_Subset
    <2>3. Cardinality({c} \union {d}) + 1 = 3 BY <1>3
    <2> QED BY <2>1, <2>2, <2>3, <1>1
  <1> QED BY <1>1, <1>3, <1>4, <1>5

\* _destoryRecvList2 leaves a pointer to a freed node only when the command
\* it frees and one it keeps have both lost packages, or three have if no
\* message has more than two packages.
THEOREM TearingTakesDamage == PackSpec => []TornTakesDamage
  <1>1. FrameInv => TornTakesDamage
    <2> SUFFICES ASSUME FrameInv, torn
                 PROVE  /\ Cardinality(damaged) >= 2
                        /\ Lasts \subseteq {0, 1} => Cardinality(damaged) >= 3
      BY DEF TornTakesDamage
    <2>1. IsFiniteSet(damaged) BY DEF FrameInv, StreamInv
    <2>2. PICK c \in damaged, d \in damaged :
            /\ c # d
            /\ Lasts \subseteq {0, 1} => \E e \in damaged : e # c /\ e # d
      BY DEF FrameInv, ListInv, TornCosts
    <2> QED BY <2>1, <2>2, AtLeastTwo
  <1> QED BY <1>1, FrameInvHolds, PTL

-----------------------------------------------------------------------------
(* Nothing is missing as long as nothing is damaged. *)

\* A chunk that is dropped is part of some package.
LEMMA DropNeedsBytes ==
  ASSUME FifoInv, Tiled, NEW n \in 1 .. RecvMax, recvd + n <= put, DropChunk(n)
  PROVE  damaged' # {}
  <1> SUFFICES ASSUME damaged' = {} PROVE FALSE OBVIOUS
  <1> DEFINE lost == {k \in pkgs : k.start <= recvd + n /\ k.end > recvd}
  <1>1. damaged' = damaged \union {k.cmd : k \in lost} BY DEF DropChunk
  <1>2. recvd \in Nat /\ put \in Nat /\ n \in Nat /\ n > 0
    BY Sizes4 DEF FifoInv, Indices
  <1>3. recvd + 1 \in Nat /\ recvd < recvd + 1 /\ recvd + 1 <= put BY <1>2
  <1>4. PICK k \in pkgs : k.start <= recvd + 1 /\ recvd + 1 <= k.end
    BY <1>1, <1>3 DEF Tiled
  <1>5. k \in lost BY <1>2, <1>4, PackageType
  <1> QED BY <1>1, <1>5

LEMMA InitTiled == PackInit => Tiled /\ Numbered
  <1> SUFFICES ASSUME PackInit PROVE Tiled /\ Numbered OBVIOUS
  <1>1. /\ pkgs = {} /\ list = {} /\ sending = Nothing /\ out = <<>> /\ msgs = 0
        /\ put = 0 /\ recvd = 0 /\ len = 0
    BY DEF PackInit
  <1>2. Tiled BY <1>1 DEF Tiled
  <1>3. DOMAIN out = {} /\ Len(out) = 0 BY <1>1
  <1>4. Numbered BY <1>1, <1>3 DEF Numbered, Fragments
  <1> QED BY <1>2, <1>4

LEMMA TiledSend ==
  ASSUME FifoInv, Tiled, SendPackage
  PROVE  Tiled'
  <1>0. PICK f \in Upcoming, s \in Sizes, b \in BOOLEAN, p \in pkgs' : Sends(f, s, b, p)
    BY Sent
  <1>1. /\ put' = put + s
        /\ damaged' = IF b THEN damaged \union {f.cmd} ELSE damaged
    BY <1>0 DEF Sends
  <1>2. p.start = put + 1 /\ p.end = put + s BY <1>0 DEF Sends
  <1>3. pkgs' = pkgs \union {p} BY <1>0 DEF Sends
  <1>4. UNCHANGED <<recvd, ring, read, len>> BY DEF SendPackage, fifoVars
  <1>5. put \in Nat /\ s \in Nat BY Sizes4 DEF FifoInv, Indices
  <1> SUFFICES ASSUME damaged' = {}, NEW q \in Nat,
                      \/ recvd < q /\ q <= put + s
                      \/ \E i \in 0 .. len - 1 : Byte(i) = q
               PROVE  \E k \in pkgs' : k.start <= q /\ q <= k.end
    BY <1>1, <1>4 DEF Tiled, Byte
  <1>6. damaged = {} BY <1>1
  <1>7. CASE q > put /\ q <= put + s BY <1>2, <1>3, <1>5, <1>7
  <1>8. CASE ~(q > put /\ q <= put + s)
    <2>1. (recvd < q /\ q <= put) \/ \E i \in 0 .. len - 1 : Byte(i) = q
      BY <1>5, <1>8
    <2>2. PICK k \in pkgs : k.start <= q /\ q <= k.end BY <1>6, <2>1 DEF Tiled
    <2> QED BY <2>2, <1>3
  <1> QED BY <1>7, <1>8

LEMMA TiledWrite ==
  ASSUME FifoInv, Tiled, NEW n \in 1 .. RecvMax, Fits(n), WriteFifo(n),
         recvd + n <= put, recvd' = recvd + n, UNCHANGED <<pkgs, put, damaged>>
  PROVE  Tiled'
  <1>1. recvd \in Nat /\ put \in Nat /\ len \in Nat /\ n \in Nat /\ n > 0
    BY Sizes4 DEF FifoInv, Indices
  <1>2. len' = len + n /\ read' = read BY DEF WriteFifo
  <1> SUFFICES ASSUME damaged = {}, NEW q \in Nat,
                      \/ recvd + n < q /\ q <= put
                      \/ \E i \in 0 .. len + n - 1 : ring'[(read + i) % MaxLen] = q
               PROVE  \E k \in pkgs : k.start <= q /\ q <= k.end
    BY <1>1, <1>2 DEF Tiled, Byte
  <1>3. CASE recvd < q /\ q <= put BY <1>3 DEF Tiled
  <1>4. CASE ~(recvd < q /\ q <= put)
    <2>1. PICK i \in 0 .. len + n - 1 : ring'[(read + i) % MaxLen] = q
      BY <1>1, <1>4
    <2>2. q = IF i < len THEN Byte(i) ELSE recvd + 1 + (i - len)
      BY <2>1, WrittenAt DEF FifoInv, Byte
    <2>3. i < len BY <2>2, <1>1, <1>4
    <2>4. i \in 0 .. len - 1 BY <2>3, <1>1
    <2> QED BY <2>2, <2>3, <2>4 DEF Tiled
  <1> QED BY <1>3, <1>4

\* A step after which the same bytes and packages are there, or fewer bytes.
LEMMA TiledStay ==
  ASSUME Tiled, UNCHANGED <<pkgs, recvd, ring, read, len>>, damaged \subseteq damaged',
         put' \in Nat, put \in Nat, put' <= put
  PROVE  Tiled'
  <1> SUFFICES ASSUME damaged' = {}, NEW q \in Nat,
                      \/ recvd < q /\ q <= put'
                      \/ \E i \in 0 .. len - 1 : Byte(i) = q
               PROVE  \E k \in pkgs : k.start <= q /\ q <= k.end
    BY DEF Tiled, Byte
  <1>1. damaged = {} OBVIOUS
  <1>2. (recvd < q /\ q <= put) \/ \E i \in 0 .. len - 1 : Byte(i) = q OBVIOUS
  <1> QED BY <1>1, <1>2 DEF Tiled

\* With a package go its own bytes.
LEMMA TiledTake ==
  ASSUME FifoInv, StreamInv, ListInv, Tiled, TakeWhole
  PROVE  Tiled'
  <1>1. PICK k \in AtHead, l \in SUBSET Node :
           /\ Unbroken(k) /\ len >= k.size
           /\ Takes(k, k.size, k.cmd, l) /\ damaged' = damaged
           /\ \A j \in Consumed(k.size) : j = k \/ j.cmd \in damaged
    BY WholeTakes
  <1> DEFINE n == k.size
  <1>2. /\ n \in Nat /\ n > 0 /\ n <= len /\ ReadFifo(n) /\ pkgs' = pkgs \ Consumed(n)
        /\ UNCHANGED <<put, recvd>>
    BY <1>1 DEF Takes
  <1>3. /\ len \in Nat /\ recvd \in Nat /\ k \in pkgs /\ k.start = Byte(0)
        /\ k.start \in Nat /\ k.end \in Nat
    BY AtZero, PackageType DEF FifoInv, Indices, AtHead
  <1>4. len' = len - n BY <1>2 DEF ReadFifo
  <1>5. Byte(n - 1) = k.end /\ Byte(n - 1) \in Nat /\ Byte(n - 1) <= recvd
    <2>1. 0 \in 0 .. len - 1 /\ n - 1 \in 0 .. n - 1 /\ 0 + (n - 1) = n - 1 /\ n - 1 < len
          /\ n - 1 \in Nat
      BY <1>2, <1>3
    <2>2. Byte(0 + (n - 1)) = k.start + (n - 1)
      BY <2>1, <1>1, <1>3 DEF StreamInv, Gapless
    <2>3. k.end = k.start + (n - 1) BY <1>1, <1>2, <1>3 DEF Unbroken
    <2> QED BY <2>1, <2>2, <2>3, AtType
  <1> SUFFICES ASSUME damaged = {}, NEW q \in Nat,
                      \/ recvd < q /\ q <= put
                      \/ \E i \in 0 .. len - n - 1 : ring[(read' + i) % MaxLen] = q
               PROVE  \E j \in pkgs' : j.start <= q /\ q <= j.end
    BY <1>1, <1>2, <1>4 DEF Tiled, Byte, ReadFifo
  <1>6. k.end < q /\ \E j \in pkgs : j.start <= q /\ q <= j.end
    <2>1. CASE recvd < q /\ q <= put BY <2>1, <1>3, <1>5 DEF Tiled
    <2>2. CASE \E i \in 0 .. len - n - 1 : ring[(read' + i) % MaxLen] = q
      <3>1. PICK i \in 0 .. len - n - 1 : ring[(read' + i) % MaxLen] = q BY <2>2
      <3>2. /\ i \in Nat /\ n + i <= len /\ n + i \in 0 .. len - 1 /\ n - 1 \in 0 .. len - 1
            /\ n - 1 < n + i
        BY <1>2, <1>3
      <3>3. Byte(n + i) = q BY <3>1, <3>2, <1>2, TakenAt DEF FifoInv, Byte
      <3>4. Byte(n - 1) < Byte(n + i) BY <3>2 DEF StreamInv, Rising
      <3> QED BY <3>2, <3>3, <3>4, <1>5 DEF Tiled
    <2> QED BY <2>1, <2>2
  <1>7. PICK j \in pkgs : j.start <= q /\ q <= j.end BY <1>6
  <1>8. j # k BY <1>3, <1>6, <1>7
  <1>9. j \notin Consumed(n) BY <1>1, <1>8
  <1> QED BY <1>2, <1>7, <1>9

LEMMA StepTiled ==
  FifoInv /\ StreamInv /\ ListInv /\ Tiled /\ [PackNext]_packVars => Tiled'
  <1> SUFFICES ASSUME FifoInv, StreamInv, ListInv, Tiled, [PackNext]_packVars
               PROVE  Tiled'
    OBVIOUS
  <1>0. recvd \in Nat /\ put \in Nat /\ recvd <= put /\ put <= put
    BY DEF FifoInv, Indices
  <1>1. CASE SendPackage BY <1>1, TiledSend
  <1>2. CASE Cut
    <2> DEFINE lost == {k \in pkgs : k.end > recvd}
    <2>1. /\ pkgs' = Shortened(lost) /\ put' = recvd /\ UNCHANGED <<recvd, fifoVars>>
          /\ damaged \subseteq damaged' /\ {k.cmd : k \in lost} \subseteq damaged'
      BY <1>2 DEF Cut
    <2>2. CASE lost = {}
      <3>1. pkgs' = pkgs BY <2>1, <2>2 DEF Shortened
      <3> QED BY <3>1, <2>1, <1>0, TiledStay DEF fifoVars
    <2>3. CASE lost # {}
      <3>1. damaged' # {} BY <2>1, <2>3
      <3> QED BY <3>1 DEF Tiled
    <2> QED BY <2>2, <2>3
  <1>3. CASE Recv
    <2>1. PICK n \in 1 .. RecvMax :
            /\ recvd + n <= put /\ recvd' = recvd + n
            /\ \/ Fits(n) /\ WriteFifo(n) /\ UNCHANGED <<pkgs, damaged>>
               \/ DropChunk(n)
      BY <1>3 DEF Recv
    <2>2. put' = put BY <1>3 DEF Recv, senderVars
    <2>3. CASE DropChunk(n)
      <3>1. damaged' # {} BY <2>1, <2>3, DropNeedsBytes
      <3> QED BY <3>1 DEF Tiled
    <2> QED BY <2>1, <2>2, <2>3, TiledWrite
  <1>4. CASE TakeWhole BY <1>4, TiledTake
  <1>5. CASE TakeMixed
    <2>1. damaged' # {} BY <1>5 DEF TakeMixed
    <2> QED BY <2>1 DEF Tiled
  <1>6. CASE ParseEnds
    BY <1>0, <1>6, TiledStay DEF ParseEnds, netVars, senderVars, fifoVars
  <1>7. CASE UNCHANGED packVars
    BY <1>0, <1>7, TiledStay DEF packVars, netVars, senderVars, fifoVars
  <1> QED BY <1>1, <1>2, <1>3, <1>4, <1>5, <1>6, <1>7 DEF PackNext

\* What a whole package of a sound stream does to the numbers.
LEMMA NumberedTake ==
  ASSUME FifoInv, StreamInv, FragInv, ListInv, Numbered, TakeWhole
  PROVE  Numbered'
  <1> SUFFICES ASSUME damaged' = {} PROVE Numbered' BY DEF Numbered
  <1>1. PICK k \in AtHead, f \in Node :
           /\ Alike(f, k) /\ Takes(k, k.size, k.cmd, list \union {f})
           /\ damaged' = damaged /\ k.cmd \notin damaged
           /\ \A j \in Consumed(k.size) : j = k
    <2>1. damaged = {} BY WholeTakes
    <2> QED BY <2>1, WholeTakes
  <1> DEFINE n == k.size
             c == k.cmd
             l == list \union {f}
             D == Of(l, c)
  <1>2. /\ n \in Nat /\ n > 0 /\ n <= len /\ pkgs' = pkgs \ Consumed(n) /\ Assemble(l, c)
        /\ UNCHANGED <<sending, msgs>> /\ k \in pkgs
    BY <1>1 DEF Takes, AtHead
  <1>3. /\ k \in Consumed(n) /\ k.start \in Nat
        /\ \A j \in pkgs \ Consumed(n) : k.start < j.start
    BY <1>2, RestBehind
  <1>4. len > 0 BY <1>2 DEF FifoInv, Indices
  <1>5. /\ k \in Sound /\ k.cur <= k.last
        /\ \A x \in D : x.msg = k.msg
        /\ Complete(l, c) <=> k.cur = k.last
    <2>1. Alike(f, k) /\ k.cmd \notin damaged BY <1>1
    <2> QED BY <2>1, <1>4, Joins
  <1>6. \/ /\ Complete(l, c) /\ list' = l \ D /\ out' = Append(out, [cmd |-> c, parts |-> D])
        \/ ~Complete(l, c) /\ list' = l /\ out' = out
    BY <1>2, Assembled
  <1>7. \A x : x \in D <=> x \in l /\ x.cmd = c BY DEF Of
  <1>8. f.msg = k.msg /\ f.cmd = c BY <1>1 DEF Alike
  <1> HIDE DEF D
  <1>9. damaged = {} /\ Sound = Fragments BY <1>1 DEF Sound
  <1>10. InOrder /\ NoneMissing /\ SenderPlace BY DEF FragInv
  <1>11. /\ Len(out) <= msgs
         /\ \A i \in DOMAIN out : \A g \in out[i].parts : g.msg = i
         /\ \A e \in Fragments : e.msg > Len(out)
         /\ sending # Nothing => sending.msg > Len(out)
         /\ \A m \in Len(out) + 1 .. msgs :
              (\E e \in Fragments : e.msg = m) \/ (sending # Nothing /\ sending.msg = m)
    BY <1>9 DEF Numbered
  <1>12. \A e \in Fragments : e.msg \in Nat /\ e.cur \in Nat /\ e.last \in Nat
    BY FragmentType DEF ListInv
  <1>13. DOMAIN out = 1 .. Len(out) /\ Len(out) \in Nat /\ msgs \in Nat
    BY DEF ListInv, ListTypes, FifoInv, SenderTyped
  <1>14. pkgs' = pkgs \ {k} BY <1>1, <1>2, <1>3
  <1>15. CASE ~Complete(l, c)
    <2>1. list' = l /\ out' = out BY <1>6, <1>15
    <2>2. ASSUME NEW e \in Fragments' PROVE \E g \in Fragments : g.msg = e.msg
      BY <2>1, <1>5, <1>8, <1>14 DEF Fragments, Sound
    <2>3. ASSUME NEW g \in Fragments PROVE \E e \in Fragments' : e.msg = g.msg
      BY <2>1, <1>5, <1>8, <1>14 DEF Fragments
    <2> QED BY <2>1, <2>2, <2>3, <1>2, <1>11 DEF Numbered
  <1>16. CASE Complete(l, c)
    <2>1. /\ list' = l \ D /\ out' = Append(out, [cmd |-> c, parts |-> D])
          /\ k.cur = k.last
      BY <1>5, <1>6, <1>16
    \* No other message is in the list.
    <2>2. \A x \in list : x.cmd = c
      <3> SUFFICES ASSUME NEW x \in list, x.cmd # c PROVE FALSE OBVIOUS
      <3>1. x.start < k.start BY <1>2 DEF ListInv, ListBehind
      <3> QED BY <3>1, <1>4, <1>9, Overtaken
    <2>3. list' = {} BY <2>1, <2>2, <1>7, <1>8
    <2>4. ASSUME NEW e \in pkgs' PROVE e \in Fragments /\ k.msg < e.msg
      <3>1. e \in Fragments /\ k.start < e.start
        BY <1>2, <1>3 DEF Fragments
      <3>2. k.msg < e.msg \/ (k.msg = e.msg /\ k.cur < e.cur)
        BY <3>1, <1>5, <1>9, <1>10 DEF InOrder
      <3>3. k.msg = e.msg => e.last = k.last BY <3>1, <1>5, <1>9, <1>10 DEF InOrder
      <3>4. e.cur <= e.last BY <3>1, <1>9, <1>10 DEF NoneMissing
      <3> QED BY <3>1, <3>2, <3>3, <3>4, <2>1, <1>5, <1>9, <1>12
    <2>5. \A e \in Fragments : e.msg = k.msg \/ e \in pkgs'
      <3> TAKE e \in Fragments
      <3>1. CASE e \in list
        <4>1. e \in D BY <3>1, <2>2, <1>7
        <4> QED BY <4>1, <1>5
      <3>2. CASE e \in pkgs BY <3>2, <1>14
      <3> QED BY <3>1, <3>2 DEF Fragments
    <2>6. sending # Nothing => sending.msg = msgs /\ k.msg < msgs
      <3> SUFFICES ASSUME sending # Nothing PROVE sending.msg = msgs /\ k.msg < msgs
        OBVIOUS
      <3>1. sending.msg = msgs /\ sending.cur <= sending.last
        BY <1>10 DEF SenderPlace
      <3>2. k.msg = msgs => k.cur < sending.cur /\ k.last = sending.last
        BY <1>5, <1>10 DEF SenderPlace
      <3>3. sending.cur \in Nat /\ sending.last \in Nat BY SenderType
      <3>4. k.msg <= msgs BY <1>5, <1>10 DEF NoneMissing
      <3> QED BY <3>1, <3>2, <3>3, <3>4, <2>1, <1>5, <1>9, <1>12, <1>13
    <2>7. k.msg = Len(out) + 1 /\ k.msg <= msgs /\ k.msg \in Nat
      <3>1. k.msg \in Nat /\ k.msg > Len(out) /\ k.msg <= msgs
        BY <1>5, <1>9, <1>10, <1>11, <1>12 DEF NoneMissing
      <3>2. Len(out) + 1 \in Len(out) + 1 .. msgs BY <3>1, <1>13
      <3>3. CASE \E e \in Fragments : e.msg = Len(out) + 1
        <4>1. PICK e \in Fragments : e.msg = Len(out) + 1 BY <3>3
        <4>2. k.msg <= e.msg BY <2>4, <2>5, <3>1, <1>12
        <4> QED BY <3>1, <4>1, <4>2, <1>13
      <3>4. CASE sending # Nothing /\ sending.msg = Len(out) + 1
        BY <3>1, <3>4, <2>6, <1>13
      <3> QED BY <3>2, <3>3, <3>4, <1>11
    <2>8. /\ Len(out') = Len(out) + 1 /\ DOMAIN out' = 1 .. Len(out) + 1
          /\ out'[Len(out) + 1].parts = D
          /\ \A i \in 1 .. Len(out) : out'[i] = out[i]
      BY <2>1, <1>13 DEF ListInv, ListTypes
    <2>9. ASSUME NEW i \in DOMAIN out', NEW g \in out'[i].parts PROVE g.msg = i
      <3>1. CASE i = Len(out) + 1 BY <3>1, <2>7, <2>8, <2>9, <1>5
      <3>2. CASE i # Len(out) + 1
        <4>1. i \in DOMAIN out /\ out'[i] = out[i] BY <3>2, <2>8, <1>13
        <4> QED BY <4>1, <2>9, <1>11
      <3> QED BY <3>1, <3>2
    <2>10. Fragments' = pkgs' BY <2>3 DEF Fragments
    <2>11. \A e \in Fragments' : e.msg > Len(out')
      <3> TAKE e \in Fragments'
      <3>1. e \in Fragments /\ k.msg < e.msg BY <2>4, <2>10
      <3> QED BY <3>1, <2>7, <2>8, <1>12, <1>13
    <2>12. ASSUME NEW m \in Len(out') + 1 .. msgs
           PROVE  \/ \E e \in Fragments' : e.msg = m
                  \/ sending # Nothing /\ sending.msg = m
      <3>1. m \in Len(out) + 1 .. msgs /\ m # k.msg BY <2>7, <2>8, <1>13
      <3>2. CASE \E e \in Fragments : e.msg = m BY <3>1, <3>2, <2>5, <2>10
      <3> QED BY <3>1, <3>2, <1>11
    <2>13. sending # Nothing => sending.msg > Len(out')
      BY <2>6, <2>7, <2>8, <1>13
    <2>14. Len(out') <= msgs BY <2>7, <2>8
    <2> QED BY <2>9, <2>11, <2>12, <2>13, <2>14, <1>2 DEF Numbered
  <1> QED BY <1>15, <1>16

LEMMA NumberedStay ==
  ASSUME Numbered, UNCHANGED <<pkgs, list, out, msgs, sending>>, damaged \subseteq damaged'
  PROVE  Numbered'
  <1>1. Fragments' = Fragments BY DEF Fragments
  <1>2. damaged' = {} => damaged = {} OBVIOUS
  <1> QED BY <1>1, <1>2 DEF Numbered

\* The PC begins the next message, or goes on with the last.
LEMMA NumberedSend ==
  ASSUME FifoInv, FragInv, ListTypes, Numbered, SendPackage
  PROVE  Numbered'
  <1>0. PICK f \in Upcoming, s \in Sizes, b \in BOOLEAN, p \in pkgs' : Sends(f, s, b, p)
    BY Sent
  <1>1. /\ sending' = IF f.cur = f.last THEN Nothing
                                        ELSE [f EXCEPT !.cur = f.cur + 1]
        /\ msgs' = f.msg
        /\ damaged' = IF b THEN damaged \union {f.cmd} ELSE damaged
    BY <1>0 DEF Sends
  <1>2. p.msg = f.msg BY <1>0 DEF Sends
  <1>3. pkgs' = pkgs \union {p} BY <1>0 DEF Sends
  <1>4. list' = list /\ out' = out BY DEF SendPackage, listVars
  <1>5. f \in Fragment /\ f.msg \in Nat /\ msgs <= f.msg BY NextPackage
  <1>6. msgs \in Nat /\ Len(out) \in Nat BY DEF FifoInv, SenderTyped, ListTypes
  <1> SUFFICES ASSUME damaged' = {} PROVE Numbered' BY DEF Numbered
  <1>7. damaged = {} BY <1>1
  <1>8. /\ Len(out) <= msgs
        /\ \A i \in DOMAIN out : \A g \in out[i].parts : g.msg = i
        /\ \A e \in Fragments : e.msg > Len(out)
        /\ sending # Nothing => sending.msg > Len(out)
        /\ \A m \in Len(out) + 1 .. msgs :
             (\E e \in Fragments : e.msg = m) \/ (sending # Nothing /\ sending.msg = m)
    BY <1>7 DEF Numbered
  <1>9. Fragments' = Fragments \union {p} BY <1>3, <1>4 DEF Fragments
  <1>10. \/ sending = Nothing /\ f.msg = msgs + 1
         \/ sending # Nothing /\ f = sending /\ f.msg = msgs
    <2>1. CASE sending = Nothing BY <2>1 DEF Upcoming
    <2>2. CASE sending # Nothing
      <3>1. sending.msg = msgs BY <2>2 DEF FragInv, SenderPlace
      <3> QED BY <2>2, <3>1 DEF Upcoming
    <2> QED BY <2>1, <2>2
  <1>11. f.msg > Len(out) BY <1>6, <1>8, <1>10
  <1>12. sending' # Nothing => sending'.msg = f.msg BY <1>1, <1>5 DEF Fragment
  <1>13. ASSUME NEW m \in Len(out) + 1 .. f.msg
         PROVE  \E e \in Fragments' : e.msg = m
    <2>1. CASE m = f.msg BY <2>1, <1>2, <1>9
    <2>2. CASE m # f.msg
      <3>1. m \in Len(out) + 1 .. msgs BY <2>2, <1>5, <1>6, <1>10
      <3>2. ~(sending # Nothing /\ sending.msg = m) BY <2>2, <1>10
      <3> QED BY <3>1, <3>2, <1>8, <1>9
    <2> QED BY <2>1, <2>2
  <1>14. Len(out) <= f.msg BY <1>5, <1>6, <1>8
  <1> QED BY <1>1, <1>2, <1>4, <1>8, <1>9, <1>11, <1>12, <1>13, <1>14 DEF Numbered

LEMMA StepNumbered ==
  FrameInv /\ Numbered /\ [PackNext]_packVars => Numbered'
  <1> SUFFICES ASSUME FifoInv, StreamInv, FragInv, ListInv, Numbered, [PackNext]_packVars
               PROVE  Numbered'
    BY DEF FrameInv
  <1>1. CASE SendPackage BY <1>1, NumberedSend DEF ListInv
  <1>2. CASE Cut
    <2> DEFINE lost == {k \in pkgs : k.end > recvd}
    <2>1. /\ pkgs' = Shortened(lost) /\ UNCHANGED <<list, out, msgs>>
          /\ damaged \subseteq damaged' /\ {k.cmd : k \in lost} \subseteq damaged'
          /\ sending # Nothing => damaged' # {}
          /\ sending' = Nothing
      BY <1>2 DEF Cut, listVars
    <2>2. CASE lost = {} /\ sending = Nothing
      <3>1. pkgs' = pkgs BY <2>1, <2>2 DEF Shortened
      <3> QED BY <3>1, <2>1, <2>2, NumberedStay
    <2>3. CASE ~(lost = {} /\ sending = Nothing)
      <3>1. damaged' # {} BY <2>1, <2>3
      <3> QED BY <3>1 DEF Numbered
    <2> QED BY <2>2, <2>3
  <1>3. CASE Recv
    <2>1. PICK n \in 1 .. RecvMax : UNCHANGED <<pkgs, damaged>> \/ DropChunk(n)
      BY <1>3 DEF Recv
    <2>2. UNCHANGED <<list, out, msgs, sending>> BY <1>3 DEF Recv, senderVars, listVars
    <2>3. CASE DropChunk(n)
      <3> DEFINE lost == {k \in pkgs : k.start <= recvd + n /\ k.end > recvd}
      <3>1. /\ pkgs' = Shortened(lost) /\ damaged \subseteq damaged'
            /\ {k.cmd : k \in lost} \subseteq damaged'
        BY <2>3 DEF DropChunk
      <3>2. CASE lost = {}
        <4>1. pkgs' = pkgs BY <3>1, <3>2 DEF Shortened
        <4> QED BY <4>1, <3>1, <2>2, NumberedStay
      <3>3. CASE lost # {}
        <4>1. damaged' # {} BY <3>1, <3>3
        <4> QED BY <4>1 DEF Numbered
      <3> QED BY <3>2, <3>3
    <2> QED BY <2>1, <2>2, <2>3, NumberedStay
  <1>4. CASE TakeWhole BY <1>4, NumberedTake
  <1>5. CASE TakeMixed
    <2>1. damaged' # {} BY <1>5 DEF TakeMixed
    <2> QED BY <2>1 DEF Numbered
  <1>6. CASE ParseEnds
    BY <1>6, NumberedStay DEF ParseEnds, netVars, senderVars, listVars
  <1>7. CASE UNCHANGED packVars
    BY <1>7, NumberedStay DEF packVars, netVars, senderVars, listVars
  <1> QED BY <1>1, <1>2, <1>3, <1>4, <1>5, <1>6, <1>7 DEF PackNext

\* When nothing is on its way, nothing is left over.
LEMMA NothingLeft ==
  ASSUME FrameInv, Tiled, phase = "recv", recvd = put, sending = Nothing, damaged = {}
  PROVE  Fragments = {}
  <1>1. /\ FifoInv /\ StreamInv /\ FragInv /\ ListInv BY DEF FrameInv
  <1>2. recvd \in Nat /\ len \in Nat BY <1>1 DEF FifoInv, Indices
  <1>3. \A k \in pkgs : /\ k.start \in Nat /\ k.end \in Nat /\ k.size \in Nat
                        /\ k.size >= HeadLen /\ k.start <= k.end /\ k.end <= recvd
                        /\ Unbroken(k)
    BY <1>1, PackageType DEF StreamInv, Apart
  <1>4. len = 0
    <2> SUFFICES ASSUME len > 0 PROVE FALSE BY <1>2
    <2>1. 0 \in 0 .. len - 1 /\ Byte(0) \in Nat BY <1>1, <1>2, AtType
    <2>2. PICK k \in pkgs : k.start <= Byte(0) /\ Byte(0) <= k.end
      BY <2>1 DEF Tiled
    <2>3. k.start = Byte(0)
      <3>1. PICK i \in 0 .. len - 1 : Byte(i) = k.start
        <4>1. k.start <= recvd BY <1>2, <1>3
        <4> QED BY <4>1, <1>1, <1>3 DEF StreamInv, Gapless
      <3>2. 0 < i => Byte(0) < Byte(i) BY <2>1, <1>1 DEF StreamInv, Rising
      <3>3. i = 0 \/ 0 < i BY <1>2
      <3> QED BY <3>1, <3>2, <3>3, <2>1, <2>2, <1>3
    <2>4. k \in AtHead BY <2>3, <1>1, AtZero DEF AtHead
    <2>5. k.end = k.start + k.size - 1 BY <1>3 DEF Unbroken
    <2>6. HeaderWhole(k)
      <3>1. k.end - k.start + 1 = k.size BY <2>5, <1>3
      <3> QED BY <3>1, <1>3 DEF HeaderWhole
    <2>7. len < k.size BY <2>4, <2>6, <1>1 DEF FifoInv, Remainder
    <2>8. Byte(len - 1) = recvd
      <3>1. 0 + k.size > len BY <2>7, <1>2, <1>3
      <3> QED BY <3>1, <2>1, <2>3, <1>1, <1>3 DEF StreamInv, Gapless
    <2>9. Byte(len - 1) = k.start + (len - 1)
      <3>1. len - 1 \in 0 .. k.size - 1 /\ 0 + (len - 1) = len - 1 /\ len - 1 < len
        BY <2>7, <1>2, <1>3
      <3>2. Byte(0 + (len - 1)) = k.start + (len - 1)
        BY <3>1, <2>1, <2>3, <1>1, <1>3 DEF StreamInv, Gapless
      <3> QED BY <3>1, <3>2
    <2>10. k.end <= recvd BY <1>3
    <2>11. recvd = k.start + (len - 1) BY <2>8, <2>9
    <2> QED BY <2>5, <2>7, <2>10, <2>11, <1>2, <1>3
  <1>5. pkgs = {}
    <2> SUFFICES ASSUME NEW k \in pkgs PROVE FALSE OBVIOUS
    <2>1. k.start <= recvd BY <1>2, <1>3
    <2>2. PICK i \in 0 .. len - 1 : Byte(i) = k.start
      BY <2>1, <1>1, <1>3 DEF StreamInv, Gapless
    <2> QED BY <2>2, <1>4
  <1>6. list = {}
    <2> SUFFICES ASSUME NEW g \in list PROVE FALSE OBVIOUS
    <2>1. Sound = list BY <1>5 DEF Sound, Fragments
    <2>2. PICK z \in Sound : z.cur = z.last BY <2>1, <1>1 DEF FragInv, RestFollows
    <2>3. z.cur < z.last BY <2>1, <1>1 DEF ListInv, Incomplete
    <2>4. z.cur \in Nat /\ z.last \in Nat
      BY <1>1, FragmentType DEF Sound, ListInv
    <2> QED BY <2>2, <2>3, <2>4
  <1> QED BY <1>5, <1>6 DEF Fragments

\* Without a lost or corrupted package, recvSocketCmd and parseSocketCmd
\* return every message, whole and in the order of sending, by the time the
\* server thread waits for data and none is on its way.
THEOREM EverythingDelivered == PackSpec => []AllDelivered
  <1> DEFINE IInv == FrameInv /\ Tiled /\ Numbered
  <1>1. PackInit => IInv
    BY InitFifo, InitStream, InitLists, InitTiled DEF FrameInv
  <1>2. IInv /\ [PackNext]_packVars => IInv'
    <2> SUFFICES ASSUME IInv, [PackNext]_packVars PROVE IInv' OBVIOUS
    <2>1. FrameInv' BY StepFifo, StepStream, StepLists DEF FrameInv
    <2>2. Tiled' BY StepTiled DEF FrameInv
    <2>3. Numbered' BY StepNumbered
    <2> QED BY <2>1, <2>2, <2>3
  <1>3. IInv => AllDelivered
    <2> SUFFICES ASSUME IInv, phase = "recv", recvd = put, sending = Nothing, damaged = {}
                 PROVE  /\ Len(out) = msgs
                        /\ \A m \in DOMAIN out :
                             Whole(out[m]) /\ \A f \in out[m].parts : f.msg = m
      BY DEF AllDelivered
    <2>1. Fragments = {} BY NothingLeft
    <2>2. /\ Len(out) <= msgs
          /\ \A i \in DOMAIN out : \A f \in out[i].parts : f.msg = i
          /\ \A m \in Len(out) + 1 .. msgs : FALSE
      BY <2>1 DEF Numbered
    <2>3. Len(out) \in Nat /\ msgs \in Nat
      BY DEF FrameInv, ListInv, ListTypes, FifoInv, SenderTyped
    <2>4. Len(out) = msgs
      <3>1. msgs \notin Len(out) + 1 .. msgs BY <2>2
      <3> QED BY <3>1, <2>2, <2>3
    <2>5. \A m \in DOMAIN out : Whole(out[m])
      <3>1. UndamagedIntact BY DEF FrameInv, ListInv
      <3> QED BY <3>1 DEF UndamagedIntact
    <2> QED BY <2>2, <2>4, <2>5
  <1> HIDE DEF IInv
  <1> QED BY <1>1, <1>2, <1>3, PTL DEF PackSpec

\* The scalars that no other part of the invariant types.
Scalars ==
  /\ corrupts \in Nat /\ cuts \in Nat /\ phase \in {"recv", "parse"}
  /\ torn \in BOOLEAN /\ dropped \in BOOLEAN

LEMMA StepScalars == Scalars /\ [PackNext]_packVars => Scalars'
  <1> SUFFICES ASSUME Scalars, [PackNext]_packVars PROVE Scalars' OBVIOUS
  <1> USE DEF Scalars
  <1>1. CASE SendPackage BY <1>1 DEF SendPackage, listVars
  <1>2. CASE Cut BY <1>2 DEF Cut, listVars
  <1>3. CASE Recv BY <1>3 DEF Recv, senderVars, listVars, DropChunk
  <1>4. ASSUME NEW l, NEW c, Assemble(l, c) PROVE torn' \in BOOLEAN
    BY <1>4 DEF Assemble, Destroy, Tears
  <1>5. CASE TakeWhole
    <2>1. torn' \in BOOLEAN BY <1>4, <1>5 DEF TakeWhole
    <2> QED BY <2>1, <1>5 DEF TakeWhole, senderVars
  <1>6. CASE TakeMixed
    <2>1. torn' \in BOOLEAN BY <1>4, <1>6 DEF TakeMixed
    <2> QED BY <2>1, <1>6 DEF TakeMixed, senderVars
  <1>7. CASE ParseEnds BY <1>7 DEF ParseEnds, netVars, senderVars, listVars
  <1>8. CASE UNCHANGED packVars BY <1>8 DEF packVars, netVars, senderVars, listVars
  <1> QED BY <1>1, <1>2, <1>3, <1>5, <1>6, <1>7, <1>8 DEF PackNext

\* The variables of the framing keep their types.
THEOREM FramingTypes == PackSpec => []PackTypeOK
  <1>1. PackInit => Scalars
    <2>1. 0 \in Nat OBVIOUS
    <2> QED BY <2>1 DEF PackInit, Scalars
  <1>2. PackSpec => []Scalars BY <1>1, StepScalars, PTL DEF PackSpec
  <1>3. FrameInv /\ Scalars => PackTypeOK
    BY DEF FrameInv, FifoInv, Indices, Packages, SenderTyped, ListInv, ListTypes,
           Scalars, PackTypeOK
  <1> QED BY <1>2, <1>3, FrameInvHolds, PTL

-----------------------------------------------------------------------------
(* The sockets of the link.                                                *)

ConnHolds == conn.at \in {"recv", "blocked", "close"}
ServHolds == serv.at \in {"recv", "blocked", "close"}

Kept(f) ==
  \/ f \in forgotten
  \/ fds[f].by = "conn" /\ ConnHolds /\ f = send_fd
  \/ fds[f].by = "serv" /\ ServHolds /\ f = client_socket

FdTypes ==
  /\ fds \in [Fds -> [st : States, by : {"none", "conn", "serv"}]]
  /\ {send_fd, client_socket} \subseteq Fds \union {0, None}
  /\ {conn.fd, serv.fd, heart.fd} \subseteq Fds \union {0, None}
  /\ forgotten \subseteq Fds

PlaceTypes ==
  /\ conn \in [at : {"wait", "dial", "recv", "blocked", "close", "forget"}, fd : Int]
  /\ serv \in [at : {"accept", "recv", "blocked", "close", "forget"}, fd : Int]
  /\ heart \in [at : {"idle", "call", "send", "shutdown", "forget"}, fd : Int]
  /\ guard \in {"idle", "send", "send_forget", "client", "client_forget", "end"}

PcTypes ==
  /\ ip \in BOOLEAN /\ link_on \in {0, 1} /\ time_alive_timeout \in 0 .. Limit
  /\ pcUp \in BOOLEAN /\ pending \in {"no", "up", "dead", "closed"}
  /\ leaves \in 0 .. Leaves

LinkInv ==
  /\ FdTypes /\ PlaceTypes /\ PcTypes
  /\ \A f \in Fds : fds[f].st # "free" => Kept(f)

LEMMA InvTypes == LinkInv => TypeOK
BY DEF LinkInv, FdTypes, PlaceTypes, PcTypes, TypeOK

\* The kernel's choice of a free descriptor.
LEMMA LowestIsFree ==
  ASSUME FdTypes, FreeFds # {}
  PROVE  Lowest \in Fds /\ fds[Lowest].st = "free"
<1> DEFINE Less == OpToRel(<, Nat)
<1>1. \E f \in FreeFds : \A g \in FreeFds : f <= g
  <2>1. FreeFds \subseteq Nat
    BY LinkAssumption DEF FreeFds, Fds
  <2>2. IsWellFoundedOn(Less, Nat)
    BY NatLessThanWellFounded
  <2>3. \A m, n \in Nat : m < n => <<m, n>> \in Less
    BY DEF OpToRel
  <2> HIDE DEF Less
  <2>4. PICK f \in FreeFds : \A g \in FreeFds : ~ (<<g, f>> \in Less)
    BY <2>1, <2>2, WFMin
  <2>5. ASSUME NEW g \in FreeFds PROVE f <= g
    <3>1. f \in Nat /\ g \in Nat
      BY <2>1
    <3>2. ~ (g < f)
      BY <2>3, <2>4, <3>1, Zenon
    <3> QED BY <3>1, <3>2
  <2> QED BY <2>5
<1>2. Lowest \in FreeFds
  BY <1>1 DEF Lowest
<1> QED BY <1>2 DEF FreeFds

LEMMA InitLinkInv == Init => LinkInv
<1> SUFFICES ASSUME Init PROVE LinkInv
  OBVIOUS
<1>1. FdTypes
  BY DEF Init, FdTypes, States, Free, To
<1>2. PlaceTypes
  BY DEF Init, PlaceTypes, To, None
<1>3. PcTypes
  <2>1. ip \in BOOLEAN /\ pcUp \in BOOLEAN
    BY Zenon DEF Init
  <2> QED BY <2>1, LinkAssumption DEF Init, PcTypes
<1>4. \A f \in Fds : fds[f].st = "free"
  BY DEF Init, Free
<1> QED BY <1>1, <1>2, <1>3, <1>4 DEF LinkInv

(* The opening of connections, and what becomes of the open ones.          *)
Opens(f, t) == f \in FreeFds /\ \E st \in States :
                                  fds' = [fds EXCEPT ![f] = [st |-> st, by |-> t]]
Stays ==
  /\ fds' \in [Fds -> [st : States, by : {"none", "conn", "serv"}]]
  /\ \A f \in Fds : fds'[f].st # "free" => fds[f].st # "free" /\ fds'[f].by = fds[f].by

LEMMA Unchanged == FdTypes /\ fds' = fds => Stays
BY DEF FdTypes, Stays

LEMMA ShutStays == ASSUME FdTypes, NEW f, Shutdown(f) PROVE Stays
BY DEF FdTypes, Stays, Shutdown, States

LEMMA CloseStays == ASSUME FdTypes, NEW f, Close(f) PROVE Stays
BY DEF FdTypes, Stays, Close, Free, States

LEMMA ClosedIsFree ==
  ASSUME FdTypes, NEW f \in Fds, Close(f) PROVE fds'[f].st = "free"
BY DEF FdTypes, Close, Free

LEMMA NextStays ==
  ASSUME LinkInv, [Next]_vars
  PROVE  \/ Stays
         \/ ConnDial /\ Opens(Lowest, "conn")
         \/ ServAccept /\ Opens(Lowest, "serv")
<1>T. FdTypes /\ PcTypes
  BY DEF LinkInv
<1> USE DEF shared, linkVars, pcVars, threads
<1>1. CASE ConnDial
  <2>1. CASE fds' = fds
    BY <1>T, <2>1, Unchanged
  <2>2. CASE FreeFds # {} /\ fds' = [fds EXCEPT ![Lowest] = [st |-> "up", by |-> "conn"]]
    BY <1>1, <1>T, <2>2, LowestIsFree DEF Opens, States, FreeFds
  <2> QED BY <1>1, <2>1, <2>2 DEF ConnDial
<1>2. CASE ServAccept
  <2>1. CASE fds' = fds
    BY <1>T, <2>1, Unchanged
  <2>2. CASE FreeFds # {} /\ fds' = [fds EXCEPT ![Lowest] = [st |-> pending, by |-> "serv"]]
    BY <1>2, <1>T, <2>2, LowestIsFree DEF Opens, States, FreeFds, PcTypes, ServAccept
  <2> QED BY <1>2, <2>1, <2>2 DEF ServAccept
<1>3. CASE ConnClose \/ ServClose
  BY <1>3, <1>T, CloseStays DEF ConnClose, ServClose
<1>4. CASE HeartShutdown \/ GuardSend \/ GuardClient
  BY <1>4, <1>T, ShutStays, Unchanged DEF HeartShutdown, GuardSend, GuardClient
<1>5. CASE HeartSend
  BY <1>5, <1>T DEF HeartSend, Stays, FdTypes, States, Live
<1>6. ASSUME NEW st \in {"dead", "closed"}, PcLeaves(st) PROVE Stays
  BY <1>6, <1>T DEF PcLeaves, Stays, FdTypes, States
<1>7. CASE Abort
  BY <1>7, <1>T DEF Abort, Stays, FdTypes, States
<1>8. CASE \/ ConnWait \/ ConnRecv \/ ConnData \/ ConnEnd \/ ConnForget
           \/ ServRecv \/ ServData \/ ServEnd \/ ServForget
           \/ HeartCheck \/ HeartCall \/ HeartForget
           \/ GuardTick \/ GuardSendForget \/ GuardClientForget \/ GuardEnd
           \/ Multicast \/ PcConnects \/ PcReturns \/ UNCHANGED vars
  <2>1. fds' = fds
    BY <1>8
    DEF ConnWait, ConnRecv, ConnData, ConnEnd, ConnForget, ServRecv, ServData, ServEnd,
        ServForget, HeartCheck, HeartCall, HeartForget, GuardTick, GuardSendForget,
        GuardClientForget, GuardEnd, Multicast, PcConnects, PcReturns, vars
  <2> QED BY <1>T, <2>1, Unchanged
<1> QED
  BY <1>1, <1>2, <1>3, <1>4, <1>5, <1>6, <1>7, <1>8
  DEF Next, Connect, Serve, Heartbeat, Guard

(* The variables keep their types.                                         *)
LEMMA NextFdTypes == LinkInv /\ [Next]_vars => FdTypes'
<1> SUFFICES ASSUME LinkInv, [Next]_vars PROVE FdTypes'
  OBVIOUS
<1>T. FdTypes
  BY DEF LinkInv
<1>1. fds' \in [Fds -> [st : States, by : {"none", "conn", "serv"}]]
  <2>1. CASE Stays
    BY <2>1 DEF Stays
  <2>2. ASSUME NEW t \in {"conn", "serv"}, Opens(Lowest, t)
        PROVE  fds' \in [Fds -> [st : States, by : {"none", "conn", "serv"}]]
    <3>1. PICK st \in States : fds' = [fds EXCEPT ![Lowest] = [st |-> st, by |-> t]]
      BY <2>2 DEF Opens
    <3> QED BY <1>T, <3>1 DEF FdTypes
  <2> QED BY <2>1, <2>2, NextStays
<1>2. \A f : OpenAs(f) \subseteq Fds
  BY DEF OpenAs
<1>3. FreeFds # {} => Lowest \in Fds
  BY <1>T, LowestIsFree
<1> USE DEF FdTypes, To, shared, linkVars, pcVars, threads
<1>4. CASE Connect
  BY <1>1, <1>3, <1>4, <1>T
  DEF Connect, ConnWait, ConnDial, ConnRecv, ConnEnd, ConnClose, ConnForget
<1>5. CASE Serve
  BY <1>1, <1>3, <1>5, <1>T
  DEF Serve, ServAccept, ServRecv, ServEnd, ServClose, ServForget
<1>6. CASE Heartbeat
  BY <1>1, <1>2, <1>6, <1>T
  DEF Heartbeat, HeartCheck, HeartCall, HeartSend, HeartShutdown, HeartForget
<1>7. CASE GuardTick
  BY <1>1, <1>7, <1>T DEF GuardTick
<1>8. CASE GuardSend \/ GuardSendForget \/ GuardClient \/ GuardClientForget \/ GuardEnd
  BY <1>1, <1>2, <1>8, <1>T
  DEF GuardSend, GuardSendForget, GuardClient, GuardClientForget, GuardEnd
<1>9. CASE \/ ConnData \/ ServData \/ Multicast \/ PcConnects \/ PcReturns \/ Abort
           \/ PcLeaves("dead") \/ PcLeaves("closed")
  BY <1>1, <1>9, <1>T
  DEF ConnData, ServData, Multicast, PcConnects, PcReturns, Abort, PcLeaves
<1>10. CASE UNCHANGED vars
  BY <1>1, <1>10, <1>T DEF vars
<1> QED BY <1>4, <1>5, <1>6, <1>7, <1>8, <1>9, <1>10 DEF Next, Guard

LEMMA NextPlaceTypes == LinkInv /\ [Next]_vars => PlaceTypes'
<1> SUFFICES ASSUME LinkInv, [Next]_vars PROVE PlaceTypes'
  OBVIOUS
<1>T. FdTypes /\ PlaceTypes
  BY DEF LinkInv
<1>1. /\ Fds \subseteq Int /\ None \in Int /\ 0 \in Int
      /\ send_fd \in Int /\ client_socket \in Int
  BY <1>T DEF FdTypes, None, Fds
<1> USE DEF PlaceTypes, To, shared, linkVars, pcVars, threads
<1>4. CASE Connect
  BY <1>1, <1>4, <1>T
  DEF Connect, ConnWait, ConnDial, ConnRecv, ConnEnd, ConnClose, ConnForget
<1>5. CASE Serve
  BY <1>1, <1>5, <1>T
  DEF Serve, ServAccept, ServRecv, ServEnd, ServClose, ServForget
<1>6. CASE Heartbeat
  BY <1>1, <1>6, <1>T
  DEF Heartbeat, HeartCheck, HeartCall, HeartSend, HeartShutdown, HeartForget
<1>7. CASE Guard
  BY <1>7, <1>T
  DEF Guard, GuardTick, GuardSend, GuardSendForget, GuardClient, GuardClientForget,
      GuardEnd
<1>8. CASE \/ ConnData \/ ServData \/ Multicast \/ PcConnects \/ PcReturns \/ Abort
           \/ PcLeaves("dead") \/ PcLeaves("closed")
  BY <1>1, <1>8, <1>T
  DEF ConnData, ServData, Multicast, PcConnects, PcReturns, Abort, PcLeaves
<1>9. CASE UNCHANGED vars
  BY <1>9, <1>T DEF vars
<1> QED BY <1>4, <1>5, <1>6, <1>7, <1>8, <1>9 DEF Next

LEMMA NextPcTypes == LinkInv /\ [Next]_vars => PcTypes'
<1> SUFFICES ASSUME LinkInv, [Next]_vars PROVE PcTypes'
  OBVIOUS
<1> USE LinkAssumption
<1>T. PcTypes
  BY DEF LinkInv
<1> USE DEF shared, linkVars, pcVars, threads
<1>1. ip' \in BOOLEAN /\ pcUp' \in BOOLEAN
  <2>1. ip' \in {ip, TRUE, FALSE}
    BY DEF Next, Connect, ConnWait, ConnDial, ConnRecv, ConnData, ConnEnd, ConnClose,
       ConnForget, Serve, ServAccept, ServRecv, ServData, ServEnd, ServClose, ServForget,
       Heartbeat, HeartCheck, HeartCall, HeartSend, HeartShutdown, HeartForget,
       Guard, GuardTick, GuardSend, GuardSendForget, GuardClient, GuardClientForget,
       GuardEnd, Multicast, PcConnects, PcReturns, PcLeaves, Abort, vars
  <2>2. pcUp' \in {pcUp, TRUE, FALSE}
    BY DEF Next, Connect, ConnWait, ConnDial, ConnRecv, ConnData, ConnEnd, ConnClose,
       ConnForget, Serve, ServAccept, ServRecv, ServData, ServEnd, ServClose, ServForget,
       Heartbeat, HeartCheck, HeartCall, HeartSend, HeartShutdown, HeartForget,
       Guard, GuardTick, GuardSend, GuardSendForget, GuardClient, GuardClientForget,
       GuardEnd, Multicast, PcConnects, PcReturns, PcLeaves, Abort, vars
  <2> QED BY <1>T, <2>1, <2>2 DEF PcTypes
<1>2. /\ link_on' \in {0, 1} /\ time_alive_timeout' \in 0 .. Limit
      /\ pending' \in {"no", "up", "dead", "closed"} /\ leaves' \in 0 .. Leaves
  <2>1. CASE Connect \/ ConnData
    BY <1>T, <2>1
    DEF Connect, ConnWait, ConnDial, ConnRecv, ConnData, ConnEnd, ConnClose, ConnForget,
        PcTypes
  <2>2. CASE Serve \/ ServData
    BY <1>T, <2>2
    DEF Serve, ServAccept, ServRecv, ServData, ServEnd, ServClose, ServForget, PcTypes
  <2>3. CASE Heartbeat
    BY <1>T, <2>3
    DEF Heartbeat, HeartCheck, HeartCall, HeartSend, HeartShutdown, HeartForget, PcTypes
  <2>4. CASE Guard
    BY <1>T, <2>4
    DEF Guard, GuardTick, GuardSend, GuardSendForget, GuardClient, GuardClientForget,
        GuardEnd, PcTypes
  <2>5. CASE \/ Multicast \/ PcConnects \/ PcReturns \/ Abort
             \/ PcLeaves("dead") \/ PcLeaves("closed")
    BY <1>T, <2>5 DEF Multicast, PcConnects, PcReturns, Abort, PcLeaves, PcTypes
  <2>6. CASE UNCHANGED vars
    BY <1>T, <2>6 DEF vars, PcTypes
  <2> QED BY <2>1, <2>2, <2>3, <2>4, <2>5, <2>6 DEF Next
<1> QED BY <1>1, <1>2 DEF PcTypes

(***************************************************************************)
(* A connection that is open stays Kept: a thread leaves the places where  *)
(* it holds its connection only when that is closed or no longer in the    *)
(* variable, and a number that is overwritten is in forgotten.             *)
(***************************************************************************)
LEMMA NextKept ==
  ASSUME LinkInv, [Next]_vars, NEW f \in Fds, fds'[f].st # "free"
  PROVE  Kept(f)'
<1>T. /\ FdTypes /\ PlaceTypes
      /\ \A g \in Fds : fds[g].st # "free" => Kept(g)
  BY DEF LinkInv
<1> USE DEF shared, linkVars, pcVars, threads, Kept, ConnHolds, ServHolds, At, To
<1>1. CASE ConnDial /\ Opens(Lowest, "conn")
  <2>1. CASE f = Lowest
    BY <1>1, <1>T, <2>1 DEF Opens, FdTypes, FreeFds, ConnDial
  <2>2. CASE f # Lowest
    <3>1. fds'[f] = fds[f]
      BY <1>1, <2>2, <1>T DEF Opens, FdTypes
    <3>2. f \in forgotten \/ (fds[f].by = "serv" /\ ServHolds /\ f = client_socket)
      BY <1>1, <1>T, <3>1 DEF ConnDial
    <3> QED BY <1>1, <3>1, <3>2 DEF ConnDial
  <2> QED BY <2>1, <2>2
<1>2. CASE ServAccept /\ Opens(Lowest, "serv")
  <2>1. CASE f = Lowest
    <3>1. client_socket' = Lowest /\ serv'.at = "recv" /\ fds'[Lowest].by = "serv"
      BY <1>2, <1>T DEF Opens, FdTypes, FreeFds, ServAccept
    <3> QED BY <2>1, <3>1
  <2>2. CASE f # Lowest
    <3>1. fds'[f] = fds[f]
      BY <1>2, <2>2, <1>T DEF Opens, FdTypes
    <3>2. f \in forgotten \/ (fds[f].by = "conn" /\ ConnHolds /\ f = send_fd)
      BY <1>2, <1>T, <3>1 DEF ServAccept
    <3> QED BY <1>2, <3>1, <3>2 DEF ServAccept
  <2> QED BY <2>1, <2>2
<1>3. CASE Stays
  <2>0. fds[f].st # "free" /\ fds'[f].by = fds[f].by /\ Kept(f)
    BY <1>3, <1>T DEF Stays
  <2>1. CASE ConnEnd \/ ConnClose
    BY <1>T, <2>0, <2>1, ClosedIsFree DEF ConnEnd, ConnClose, FdTypes, None, Fds
  <2>2. CASE ConnWait \/ ConnDial \/ ConnRecv \/ ConnData \/ ConnForget
    BY <2>0, <2>2 DEF ConnWait, ConnDial, ConnRecv, ConnData, ConnForget
  <2>3. CASE ServEnd \/ ServClose
    BY <1>T, <2>0, <2>3, ClosedIsFree DEF ServEnd, ServClose, FdTypes, None, Fds
  <2>4. CASE ServAccept \/ ServRecv \/ ServData \/ ServForget
    BY <2>0, <2>4 DEF ServAccept, ServRecv, ServData, ServForget
  <2>5. CASE HeartForget \/ GuardSendForget \/ GuardClientForget
    BY <2>0, <2>5 DEF HeartForget, GuardSendForget, GuardClientForget, OpenAs
  <2>6. CASE \/ HeartCheck \/ HeartCall \/ HeartSend \/ HeartShutdown
             \/ GuardTick \/ GuardSend \/ GuardClient \/ GuardEnd
    BY <2>0, <2>6
    DEF HeartCheck, HeartCall, HeartSend, HeartShutdown, GuardTick, GuardSend,
        GuardClient, GuardEnd
  <2>7. CASE \/ Multicast \/ PcConnects \/ PcReturns \/ Abort
             \/ PcLeaves("dead") \/ PcLeaves("closed") \/ UNCHANGED vars
    BY <2>0, <2>7 DEF Multicast, PcConnects, PcReturns, Abort, PcLeaves, vars
  <2> QED
    BY <2>1, <2>2, <2>3, <2>4, <2>5, <2>6, <2>7
    DEF Next, Connect, Serve, Heartbeat, Guard
<1> QED BY <1>1, <1>2, <1>3, NextStays

LEMMA LinkInvariant == Spec => []LinkInv
<1>1. LinkInv /\ [Next]_vars => LinkInv'
  BY NextFdTypes, NextPlaceTypes, NextPcTypes, NextKept DEF LinkInv
<1> QED BY <1>1, InitLinkInv, PTL DEF Spec

(* The variables of the link keep their types.                             *)
THEOREM TypeCorrect == Spec => []TypeOK
BY InvTypes, LinkInvariant, PTL

(* No connection leaks that the guard or a failed heartbeat did not        *)
(* overwrite, however the four threads share send_fd and client_socket     *)
(* (client_connect, server_start, client_rebackHeart, close_all_socket).   *)
THEOREM LeaksAreForgotten == Spec => []OnlyForgottenLeak
<1>1. LinkInv => OnlyForgottenLeak
  BY DEF LinkInv, Kept, OnlyForgottenLeak, Orphans
<1> QED BY <1>1, LinkInvariant, PTL

=============================================================================
