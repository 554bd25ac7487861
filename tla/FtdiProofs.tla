------------------------------ MODULE FtdiProofs -----------------------------
(***************************************************************************)
(* Theorems about Ftdi, for any writers, sizes, chunk sizes, rates and     *)
(* faults: the chip gets the bytes of each write in order and each once    *)
(* (WriteInv); a read returns the chip's bytes in order and each once, and *)
(* no status byte (ReadInv, which the arithmetic of packets goes before);  *)
(* every variable keeps its type, the words of a speed their width; and    *)
(* the rate that the chip makes of these words is near the one asked for.  *)
(***************************************************************************)
EXTENDS Ftdi, SequenceTheorems, TLAPS

(* What a transfer of a write is about to send follows what the chip has.  *)
Writes == [how : {"no", "sync", "async", "done"}, size : Nat, offset : Nat,
           completed : BOOLEAN, flight : {"none", "queued", "ended"}, from : Nat,
           length : Nat, status : {"COMPLETED", "TIMED_OUT"}, result : Nat \cup {-1}]

Follows(tc, got) ==
  /\ tc.how \in {"no", "done"} => tc.flight = "none"
  /\ tc.how = "no" => got = 0
  /\ tc.how \in {"sync", "async"} /\ tc.flight = "none" => tc.offset = got
  /\ tc.flight = "queued" => tc.offset = got /\ tc.from = got
                             /\ tc.offset + tc.length <= tc.size
  /\ tc.flight = "ended" => tc.offset + tc.length = got
  /\ tc.flight = "ended" => tc.offset + tc.length <= tc.size
  /\ tc.completed /\ tc.how # "done" => tc.flight = "none"
  /\ tc.how = "done" => tc.result \in {-1, got}

InOrder(bytes) == \A k \in 1..Len(bytes) : bytes[k] = k

WriteInv ==
  /\ writebuffer_chunksize \in Nat
  /\ writing \in [Writers -> Writes] /\ wire \in [Writers -> Seq(Nat)]
  /\ \A w \in Writers : Follows(writing[w], Len(wire[w])) /\ InOrder(wire[w])

(* What NextPiece() makes of a write that is not finished.                 *)
LEMMA NextPieceIs ==
  ASSUME NEW tc \in Writes, tc.offset <= tc.size, writebuffer_chunksize \in Nat
  PROVE /\ NextPiece(tc) \in Writes
        /\ NextPiece(tc).how = tc.how /\ NextPiece(tc).flight = "queued"
        /\ NextPiece(tc).offset = tc.offset /\ NextPiece(tc).from = tc.offset
        /\ NextPiece(tc).size = tc.size /\ NextPiece(tc).completed = tc.completed
        /\ NextPiece(tc).offset + NextPiece(tc).length <= tc.size
<1> DEFINE m == Min({writebuffer_chunksize, tc.size - tc.offset})
<1>1. tc.offset \in Nat /\ tc.size \in Nat
  BY DEF Writes
<1>2. m \in Nat /\ m <= tc.size - tc.offset
  <2>1. \E x \in {writebuffer_chunksize, tc.size - tc.offset} :
          \A y \in {writebuffer_chunksize, tc.size - tc.offset} : x <= y
    <3>1. tc.size - tc.offset \in Int /\ writebuffer_chunksize \in Int
      BY <1>1
    <3>2. CASE writebuffer_chunksize <= tc.size - tc.offset
      BY <3>1, <3>2
    <3>3. CASE tc.size - tc.offset <= writebuffer_chunksize
      BY <3>1, <3>3
    <3> QED BY <3>1, <3>2, <3>3
  <2>2. /\ m \in {writebuffer_chunksize, tc.size - tc.offset}
        /\ \A y \in {writebuffer_chunksize, tc.size - tc.offset} : m <= y
    BY <2>1 DEF Min
  <2> QED BY <1>1, <2>2
<1>3. NextPiece(tc) = [tc EXCEPT !.flight = "queued", !.from = tc.offset, !.length = m]
  BY DEF NextPiece
<1> HIDE DEF m
<1>4. NextPiece(tc) \in Writes
  BY <1>1, <1>2, <1>3 DEF Writes
<1>5. /\ NextPiece(tc).how = tc.how /\ NextPiece(tc).flight = "queued"
      /\ NextPiece(tc).offset = tc.offset /\ NextPiece(tc).from = tc.offset
  BY <1>3 DEF Writes
<1>6. /\ NextPiece(tc).size = tc.size /\ NextPiece(tc).completed = tc.completed
      /\ NextPiece(tc).length = m
  BY <1>3 DEF Writes
<1> QED BY <1>1, <1>2, <1>4, <1>5, <1>6

(* The numbered bytes of a piece continue those that the chip has.         *)
LEMMA PieceContinues ==
  ASSUME NEW got \in Seq(Nat), InOrder(got), NEW from \in Nat, from = Len(got), NEW n \in Nat
  PROVE LET all == got \o [k \in 1..n |-> from + k]
        IN  all \in Seq(Nat) /\ Len(all) = from + n /\ InOrder(all)
<1> DEFINE piece == [k \in 1..n |-> from + k]
           all == got \o piece
<1>1. piece \in Seq(Nat) /\ Len(piece) = n /\ \A k \in 1..n : piece[k] = from + k
  <2>1. \A k \in 1..n : from + k \in Nat
    OBVIOUS
  <2> QED BY <2>1
<1> HIDE DEF piece
<1>2. /\ all \in Seq(Nat) /\ Len(all) = from + n
      /\ \A i \in 1..from + n : all[i] = IF i <= from THEN got[i] ELSE piece[i - from]
  BY <1>1, ConcatProperties
<1> HIDE DEF all
<1>3. ASSUME NEW i \in 1..from + n PROVE all[i] = i
  <2>1. CASE i <= from
    BY <2>1, <1>2 DEF InOrder
  <2>2. CASE ~(i <= from)
    <3>1. i - from \in 1..n /\ from + (i - from) = i
      BY <2>2
    <3> QED BY <2>2, <3>1, <1>1, <1>2
  <2> QED BY <2>1, <2>2
<1>4. InOrder(all)
  BY <1>2, <1>3 DEF InOrder
<1> QED BY <1>2, <1>4 DEF all, piece

(* A step of one write whose bytes stay where they are.                    *)
LEMMA OneWrite ==
  ASSUME WriteInv, NEW w \in Writers, NEW tc \in Writes, Follows(tc, Len(wire[w])),
         writing' = [writing EXCEPT ![w] = tc], UNCHANGED <<wire, writebuffer_chunksize>>
  PROVE WriteInv'
<1>1. writing' \in [Writers -> Writes] /\ writing'[w] = tc
  BY DEF WriteInv
<1>2. \A v \in Writers : v # w => writing'[v] = writing[v]
  BY DEF WriteInv
<1>3. \A v \in Writers : Follows(writing'[v], Len(wire[v]))
  BY <1>1, <1>2 DEF WriteInv
<1> QED BY <1>1, <1>3 DEF WriteInv

-----------------------------------------------------------------------------
LEMMA WriteInit == FtdiInit => WriteInv
<1> SUFFICES ASSUME FtdiInit PROVE WriteInv  OBVIOUS
<1>1. NoWrite \in Writes /\ Follows(NoWrite, 0)
  BY DEF NoWrite, Writes, Follows
<1>2. <<>> \in Seq(Nat) /\ Len(<<>>) = 0 /\ InOrder(<<>>)
  BY DEF InOrder
<1>3. writebuffer_chunksize \in Nat
  BY FtdiAssumption DEF FtdiInit
<1>4. /\ writing = [w \in Writers |-> NoWrite] /\ wire = [w \in Writers |-> <<>>]
  BY DEF FtdiInit
<1> QED BY <1>1, <1>2, <1>3, <1>4 DEF WriteInv

LEMMA BeginStep ==
  ASSUME WriteInv, NEW w \in Writers, NEW n \in WriteSizes, NEW how \in {"sync", "async"},
         WriteBegins(w, how, n)
  PROVE WriteInv'
<1> DEFINE tc == [NoWrite EXCEPT !.how = how, !.size = n]
<1>1. n \in Nat
  BY FtdiAssumption
<1>2. tc \in Writes /\ tc.offset = 0 /\ tc.size = n /\ tc.how = how /\ tc.completed = FALSE
  BY <1>1 DEF NoWrite, Writes
<1> HIDE DEF tc
<1>3. /\ NextPiece(tc) \in Writes
      /\ NextPiece(tc).how = how /\ NextPiece(tc).flight = "queued"
      /\ NextPiece(tc).offset = 0 /\ NextPiece(tc).from = 0
      /\ NextPiece(tc).completed = FALSE
      /\ NextPiece(tc).offset + NextPiece(tc).length <= NextPiece(tc).size
  BY <1>1, <1>2, NextPieceIs DEF WriteInv
<1>4. Len(wire[w]) = 0
  BY DEF WriteBegins, WriteInv, Follows
<1>5. Follows(NextPiece(tc), Len(wire[w]))
  BY <1>3, <1>4 DEF Follows
<1>6. /\ writing' = [writing EXCEPT ![w] = NextPiece(tc)]
      /\ UNCHANGED <<wire, writebuffer_chunksize>>
  BY DEF WriteBegins, tc, chunkVars
<1> QED BY <1>3, <1>5, <1>6, OneWrite

LEMMA EndStep == ASSUME WriteInv, NEW w \in Writers, WriteEnds(w) PROVE WriteInv'
<1>1. PICK n \in 0..writing[w].length :
        /\ wire' = [wire EXCEPT ![w] = @ \o [k \in 1..n |-> writing[w].from + k]]
        /\ writing' = [writing EXCEPT
             ![w].flight = "ended", ![w].length = n,
             ![w].status = IF n = writing[w].length THEN "COMPLETED" ELSE "TIMED_OUT"]
  BY DEF WriteEnds
<1>2. /\ writing[w] \in Writes /\ writing[w].flight = "queued" /\ wire[w] \in Seq(Nat)
      /\ InOrder(wire[w]) /\ Follows(writing[w], Len(wire[w]))
  BY DEF WriteEnds, WriteInv
<1>3. n \in Nat /\ n <= writing[w].length /\ writing[w].from = Len(wire[w])
      /\ writing[w].from \in Nat /\ writing[w].offset = Len(wire[w])
      /\ writing[w].offset + n <= writing[w].size
  BY <1>1, <1>2 DEF Writes, Follows
<1>4. wire'[w] = wire[w] \o [k \in 1..n |-> writing[w].from + k]
  BY <1>1 DEF WriteInv
<1>5. wire'[w] \in Seq(Nat) /\ Len(wire'[w]) = Len(wire[w]) + n /\ InOrder(wire'[w])
  BY <1>2, <1>3, <1>4, PieceContinues
<1>6. writing'[w] \in Writes
  BY <1>1, <1>2, <1>3 DEF WriteInv, Writes
<1>7. /\ writing'[w].how = writing[w].how /\ writing'[w].offset = writing[w].offset
      /\ writing'[w].size = writing[w].size /\ writing'[w].completed = writing[w].completed
      /\ writing'[w].flight = "ended" /\ writing'[w].length = n
  BY <1>1, <1>2 DEF WriteInv, Writes
<1>8. Follows(writing'[w], Len(wire'[w]))
  BY <1>2, <1>3, <1>5, <1>7 DEF Follows
<1>9. \A v \in Writers : v # w => writing'[v] = writing[v] /\ wire'[v] = wire[v]
  BY <1>1 DEF WriteInv
<1>10. writing' \in [Writers -> Writes] /\ wire' \in [Writers -> Seq(Nat)]
  <2>1. DOMAIN writing' = Writers /\ DOMAIN wire' = Writers
    BY <1>1 DEF WriteInv
  <2> QED BY <2>1, <1>1, <1>5, <1>6, <1>9 DEF WriteInv
<1>11. writebuffer_chunksize' \in Nat
  BY DEF WriteEnds, chunkVars, WriteInv
<1> QED BY <1>5, <1>8, <1>9, <1>10, <1>11 DEF WriteInv

(* The offset of a write that has been answered counts what the chip got.  *)
LEMMA CountedIs ==
  ASSUME WriteInv, NEW w \in Writers, writing[w].flight = "ended"
  PROVE /\ Counted(w) \in Writes
        /\ Counted(w).how = writing[w].how /\ Counted(w).flight = "none"
        /\ Counted(w).how \in {"sync", "async"}
        /\ Counted(w).offset = Len(wire[w]) /\ Counted(w).offset <= Counted(w).size
        /\ Counted(w).completed = FALSE
<1>1. writing[w] \in Writes /\ Follows(writing[w], Len(wire[w]))
  BY DEF WriteInv
<1>2. /\ writing[w].offset + writing[w].length = Len(wire[w])
      /\ Len(wire[w]) <= writing[w].size /\ writing[w].completed = FALSE
      /\ writing[w].how \in {"sync", "async"}
  BY <1>1 DEF Follows, Writes
<1>3. writing[w].offset + writing[w].length \in Nat
  BY <1>1 DEF Writes
<1>4. Counted(w) \in Writes
  BY <1>1, <1>3 DEF Counted, Writes
<1>5. /\ Counted(w).how = writing[w].how /\ Counted(w).flight = "none"
      /\ Counted(w).offset = writing[w].offset + writing[w].length
  BY <1>1 DEF Counted, Writes
<1>6. Counted(w).size = writing[w].size /\ Counted(w).completed = writing[w].completed
  BY <1>1 DEF Counted, Writes
<1> QED BY <1>2, <1>4, <1>5, <1>6

LEMMA DoneIs ==
  ASSUME NEW tc \in Writes, NEW r \in Nat \cup {-1}
  PROVE /\ Done(tc, r) \in Writes /\ Done(tc, r).how = "done"
        /\ Done(tc, r).flight = "none" /\ Done(tc, r).result = r
BY DEF Done, Writes

(* A piece follows what the chip has got.                                  *)
LEMMA PieceFollows ==
  ASSUME WriteInv, NEW w \in Writers, writing[w].flight = "ended"
  PROVE NextPiece(Counted(w)) \in Writes /\ Follows(NextPiece(Counted(w)), Len(wire[w]))
<1> DEFINE tc == Counted(w)
<1>1. /\ tc \in Writes /\ tc.how \in {"sync", "async"} /\ tc.offset = Len(wire[w])
      /\ tc.offset <= tc.size /\ tc.completed = FALSE
  BY CountedIs
<1> HIDE DEF tc
<1>2. /\ NextPiece(tc) \in Writes
      /\ NextPiece(tc).how = tc.how /\ NextPiece(tc).flight = "queued"
      /\ NextPiece(tc).offset = tc.offset /\ NextPiece(tc).from = tc.offset
      /\ NextPiece(tc).size = tc.size /\ NextPiece(tc).completed = tc.completed
      /\ NextPiece(tc).offset + NextPiece(tc).length <= tc.size
  BY <1>1, NextPieceIs DEF WriteInv
<1>3. Follows(NextPiece(tc), Len(wire[w]))
  BY <1>1, <1>2 DEF Follows
<1> QED BY <1>2, <1>3 DEF tc

LEMMA ReturnStep == ASSUME WriteInv, NEW w \in Writers, WriteReturns(w) PROVE WriteInv'
<1> DEFINE tc == Counted(w)
<1>1. writing[w].flight = "ended" /\ UNCHANGED <<wire, writebuffer_chunksize>>
  BY DEF WriteReturns, Answered, chunkVars
<1>2. tc \in Writes /\ tc.offset = Len(wire[w]) /\ tc.offset \in Nat
  BY <1>1, CountedIs DEF Writes
<1>3. \/ writing' = [writing EXCEPT ![w] = Done(tc, -1)]
      \/ writing' = [writing EXCEPT ![w] = NextPiece(tc)]
      \/ writing' = [writing EXCEPT ![w] = Done(tc, tc.offset)]
  BY DEF WriteReturns
<1>4. CASE writing' = [writing EXCEPT ![w] = Done(tc, -1)]
  <2>1. /\ Done(tc, -1) \in Writes /\ Done(tc, -1).how = "done"
        /\ Done(tc, -1).flight = "none" /\ Done(tc, -1).result = -1
    BY <1>2, -1 \in Nat \cup {-1}, DoneIs
  <2>2. Follows(Done(tc, -1), Len(wire[w]))
    BY <2>1 DEF Follows
  <2> QED BY <1>1, <1>4, <2>1, <2>2, OneWrite
<1>5. CASE writing' = [writing EXCEPT ![w] = NextPiece(tc)]
  BY <1>1, <1>5, PieceFollows, OneWrite
<1>6. CASE writing' = [writing EXCEPT ![w] = Done(tc, tc.offset)]
  <2>1. Done(tc, tc.offset) \in Writes /\ Follows(Done(tc, tc.offset), Len(wire[w]))
    BY <1>2, DoneIs, SMTT(30) DEF Follows
  <2> QED BY <1>1, <1>6, <2>1, OneWrite
<1> QED BY <1>3, <1>4, <1>5, <1>6

LEMMA CallbackStep == ASSUME WriteInv, NEW w \in Writers, WriteCallback(w) PROVE WriteInv'
<1> DEFINE tc == Counted(w)
           ended == [tc EXCEPT !.completed = TRUE]
<1>1. writing[w].flight = "ended" /\ UNCHANGED <<wire, writebuffer_chunksize>>
  BY DEF WriteCallback, Answered, chunkVars
<1>2. \/ writing' = [writing EXCEPT ![w] = ended]
      \/ writing' = [writing EXCEPT ![w] = NextPiece(tc)]
  BY DEF WriteCallback
<1>3. CASE writing' = [writing EXCEPT ![w] = ended]
  <2>1. /\ tc \in Writes /\ tc.flight = "none" /\ tc.how \in {"sync", "async"}
        /\ tc.offset = Len(wire[w])
    BY <1>1, CountedIs
  <2> HIDE DEF tc
  <2>2. /\ ended \in Writes /\ ended.flight = "none" /\ ended.how = tc.how
        /\ ended.offset = tc.offset
    BY <2>1 DEF Writes
  <2> HIDE DEF ended
  <2>3. Follows(ended, Len(wire[w]))
    BY <2>1, <2>2 DEF Follows
  <2> QED BY <1>1, <1>3, <2>2, <2>3, OneWrite
<1>4. CASE writing' = [writing EXCEPT ![w] = NextPiece(tc)]
  BY <1>1, <1>4, PieceFollows, OneWrite
<1> QED BY <1>2, <1>3, <1>4

LEMMA DoneStep == ASSUME WriteInv, NEW w \in Writers, WriteDone(w) PROVE WriteInv'
<1> DEFINE r == IF writing[w].status = "COMPLETED" THEN writing[w].offset ELSE -1
<1>1. writing[w] \in Writes /\ Follows(writing[w], Len(wire[w]))
  BY DEF WriteInv
<1>2. writing[w].offset = Len(wire[w]) /\ writing[w].offset \in Nat
  BY <1>1 DEF WriteDone, Follows, Writes
<1>3. r \in Nat \cup {-1} /\ r \in {-1, Len(wire[w])}
  BY <1>2
<1>4. /\ writing' = [writing EXCEPT ![w] = Done(writing[w], r)]
      /\ UNCHANGED <<wire, writebuffer_chunksize>>
  BY DEF WriteDone, chunkVars
<1> HIDE DEF r
<1>5. Done(writing[w], r) \in Writes /\ Follows(Done(writing[w], r), Len(wire[w]))
  BY <1>1, <1>3, DoneIs DEF Follows
<1> QED BY <1>4, <1>5, OneWrite

(* Everything else leaves the writes alone.                                *)
LEMMA OtherSteps ==
  ASSUME WriteInv, UNCHANGED <<writing, wire>>,
         writebuffer_chunksize' \in WriteChunks \/ UNCHANGED writebuffer_chunksize
  PROVE WriteInv'
<1>1. writebuffer_chunksize' \in Nat
  BY FtdiAssumption DEF WriteInv
<1> QED BY <1>1 DEF WriteInv

LEMMA WriteStep == ASSUME WriteInv, [FtdiNext]_vars PROVE WriteInv'
<1> DEFINE Same == UNCHANGED <<writing, wire, writebuffer_chunksize>>
<1>1. ASSUME NEW t \in ChipTypes, Open(t) PROVE Same
  BY <1>1 DEF Open, writeVars, chunkVars
<1>2. CASE Close \/ Purge \/ SetBitmode
  <2>1. Same
    BY <1>2 DEF Close, Purge, SetBitmode, writeVars, chunkVars
  <2> QED BY <2>1, OtherSteps
<1>3. ASSUME NEW b \in Rates, SetBaudrate(b) PROVE Same
  BY <1>3 DEF SetBaudrate, writeVars, chunkVars
<1>4. ASSUME NEW c \in ReadChunks, ReadSetChunksize(c) PROVE Same
  BY <1>4 DEF ReadSetChunksize, writeVars
<1>5. ASSUME NEW c \in WriteChunks, WriteSetChunksize(c) PROVE WriteInv'
  <2>1. UNCHANGED <<writing, wire>> /\ writebuffer_chunksize' \in WriteChunks
    BY <1>5 DEF WriteSetChunksize, writeVars
  <2> QED BY <2>1, OtherSteps
<1>6. ASSUME Reading PROVE Same
  <2>1. ASSUME NEW n \in ReadSizes, ReadKept(n) \/ ReadSubmitKept(n) \/ ReadSubmitFails(n) PROVE Same
    BY <2>1 DEF ReadKept, ReadSubmitKept, ReadSubmitFails, writeVars, chunkVars
  <2>2. ASSUME NEW n \in ReadSizes, NEW how \in {"sync", "async"}, ReadBegins(how, n) PROVE Same
    BY <2>2 DEF ReadBegins, writeVars, chunkVars
  <2>3. ASSUME ReadEnds \/ ReadOverflows \/ ReadFails \/ ReadReturns \/ ReadLoops PROVE Same
    BY <2>3 DEF ReadEnds, ReadOverflows, ReadFails, ReadReturns, ReadLoops, writeVars, chunkVars
  <2>4. ASSUME ReadCallbackEnds \/ ReadCallbackResubmits \/ ReadDone PROVE Same
    BY <2>4 DEF ReadCallbackEnds, ReadCallbackResubmits, ReadDone, writeVars, chunkVars
  <2> QED BY <1>6, <2>1, <2>2, <2>3, <2>4 DEF Reading
<1>7. ASSUME NEW w \in Writers, Writing(w) PROVE WriteInv'
  BY <1>7, BeginStep, EndStep, ReturnStep, CallbackStep, DoneStep DEF Writing
<1>8. CASE UNCHANGED vars
  <2>1. Same
    BY <1>8 DEF vars, writeVars, chunkVars
  <2> QED BY <2>1, OtherSteps
<1>9. Same => WriteInv'
  BY OtherSteps
<1> QED BY <1>1, <1>2, <1>3, <1>4, <1>5, <1>6, <1>7, <1>8, <1>9 DEF FtdiNext

(* The chip gets the bytes of each write in order and each once, whatever  *)
(* the chunk size and however often the write was interrupted.             *)
THEOREM WritesInOrderCorrect == FtdiSpec => []WritesInOrder
<1>1. WriteInv => WritesInOrder
  <2> SUFFICES ASSUME WriteInv, NEW w \in Writers
               PROVE /\ wire[w] = [k \in 1..Len(wire[w]) |-> k]
                     /\ writing[w].how = "done" => writing[w].result \in {-1, Len(wire[w])}
    BY DEF WritesInOrder
  <2>1. wire[w] \in [1..Len(wire[w]) -> Nat] /\ InOrder(wire[w])
    BY LenProperties DEF WriteInv
  <2>2. wire[w] = [k \in 1..Len(wire[w]) |-> k]
    BY <2>1 DEF InOrder
  <2> QED BY <2>2 DEF WriteInv, Follows
<1>2. FtdiInit => WriteInv
  BY WriteInit
<1>3. WriteInv /\ [FtdiNext]_vars => WriteInv'
  BY WriteStep
<1> QED BY <1>1, <1>2, <1>3, PTL DEF FtdiSpec
-----------------------------------------------------------------------------
(* Reading.  n bytes from f on have come in the transfer that has ended.   *)
Answer(n) ==
  /\ reading.length <= readbuffer_chunksize
  /\ reading.status = "TIMED_OUT" => n % Payload = 0
  /\ reading.length = LengthOf(n, readbuffer_chunksize, reading.status)
  /\ readbuffer = Packets(sent - n + 1, n, reading.length)

RunOf(s, f) == \A i \in 1..Len(s) : s[i] = f + i - 1

Reads == [how : {"no", "sync", "async"}, size : Nat, buf : Seq(Nat), completed : BOOLEAN,
          flight : {"none", "queued", "ended"}, length : Nat,
          status : {"COMPLETED", "TIMED_OUT"}]

ReadTypes ==
  /\ usb_dev \in BOOLEAN /\ readbuffer \in Seq(Nat)
  /\ readbuffer_offset \in Nat /\ readbuffer_remaining \in Nat
  /\ readbuffer_offset + readbuffer_remaining <= Len(readbuffer)
  /\ \E c \in ReadChunks : Len(readbuffer) <= c
  /\ readbuffer_chunksize \in ReadChunks
  /\ reading \in Reads /\ sent \in Nat /\ taken \in Nat /\ lost \subseteq Nat

CallShape ==
  /\ reading.how = "no" => reading.flight = "none" /\ reading.buf = <<>>
  /\ reading.how = "sync" => reading.flight # "none"
  /\ reading.completed => reading.flight = "none"
  /\ reading.flight # "none" =>
       usb_dev /\ readbuffer_offset = 0 /\ readbuffer_remaining = 0
  /\ Len(reading.buf) <= reading.size

(* Where the bytes after t, the last one returned, up to p are: the first  *)
(* l from f on with the caller, those from k on kept (by a device that is  *)
(* open), and the others lost.                                             *)
Covers(open, f, l, k, p, t, gone) ==
  /\ t < f /\ f + l <= k /\ k <= p + 1
  /\ \A b \in Nat :
       (\/ f <= b /\ b < f + l
        \/ open /\ k <= b /\ b <= p)
       <=> t < b /\ b <= p /\ b \notin gone
  /\ ~open => \A b \in Nat : k <= b /\ b <= p => b \in gone
  /\ \A b \in gone : t < b /\ b <= p

(* The library has the bytes up to p; what is in flight follows the run of *)
(* the caller.                                                             *)
KeptFrom(p) == p - readbuffer_remaining + 1

Data(p, f) ==
  /\ RunOf(reading.buf, f) /\ RunOf(Kept, KeptFrom(p))
  /\ Covers(usb_dev, f, Len(reading.buf), KeptFrom(p), p, taken, lost)
  /\ reading.flight # "none" => f + Len(reading.buf) = p + 1

Arrival(n) == IF reading.flight = "ended" THEN Answer(n) ELSE n = 0

ReadInv ==
  /\ ReadTypes /\ CallShape
  /\ \E n \in Nat, f \in Nat : n <= sent /\ Arrival(n) /\ Data(sent - n, f)

LEMMA Quotients ==
  ASSUME NEW x \in Nat, NEW d \in Nat, d > 0
  PROVE  x \div d \in Nat /\ x % d \in 0..(d - 1) /\ x = (x \div d) * d + (x % d)
OBVIOUS

LEMMA QuotientIs ==
  ASSUME NEW q \in Nat, NEW d \in Nat, d > 0, NEW r \in 0..(d - 1)
  PROVE  (q * d + r) \div d = q /\ (q * d + r) % d = r
OBVIOUS

LEMMA Sizes == PacketSize \in Nat /\ Payload \in Nat /\ Payload > 0 /\ PacketSize = Payload + 2
BY FtdiAssumption DEF Payload

LEMMA ChunkIs == ASSUME NEW chunk \in ReadChunks PROVE chunk \in Nat /\ chunk > 0
BY FtdiAssumption

(* A transfer is as long as its full packets, or has a short one as well.  *)
LEMMA LengthIs ==
  ASSUME NEW n \in Nat, NEW chunk, NEW status,
         status = "TIMED_OUT" => n % Payload = 0
  PROVE  LET full == n \div Payload
             r == n % Payload
             length == LengthOf(n, chunk, status)
         IN  /\ full \in Nat /\ r \in 0..(Payload - 1) /\ n = full * Payload + r
             /\ length \in Nat
             /\ (r = 0 /\ length = full * PacketSize) \/ length = full * PacketSize + 2 + r
             /\ length <= 2 <=> n = 0
<1> DEFINE full == n \div Payload
           r == n % Payload
           length == LengthOf(n, chunk, status)
<1>1. full \in Nat /\ r \in 0..(Payload - 1) /\ n = full * Payload + r
  BY Sizes, Quotients
<1>2. (r = 0 /\ length = full * PacketSize) \/ length = full * PacketSize + 2 + r
  BY DEF LengthOf
<1> HIDE DEF full, r, length
<1>3. full * PacketSize \in Nat /\ full * Payload \in Nat
  BY <1>1, Sizes
<1>4. length \in Nat
  BY <1>1, <1>2, <1>3, Sizes
<1>5. full = 0 \/ (full * PacketSize > 2 /\ full * Payload > 0)
  <2>1. full >= 1 => full * PacketSize >= 1 * PacketSize /\ full * Payload >= 1 * Payload
    BY <1>1, Sizes
  <2> QED BY <1>1, <1>3, <2>1, Sizes
<1>6. length <= 2 <=> n = 0
  <2>1. CASE full = 0
    <3>1. n = r /\ ((length = 0 /\ r = 0) \/ length = 2 + r)
      BY <1>1, <1>2, <2>1, Sizes
    <3> QED BY <1>1, <1>2, <2>1, <3>1, Sizes
  <2>2. CASE full # 0
    BY <1>1, <1>2, <1>3, <1>5, <2>2
  <2> QED BY <2>1, <2>2
<1> QED BY <1>1, <1>2, <1>4, <1>6 DEF full, r, length

(* The packets of n bytes from f on, and where the memmove()s put them.    *)
PacketsOf(buffer, f, n, length) ==
  /\ f \in Nat /\ n \in Nat /\ length \in Nat
  /\ buffer = Packets(f, n, length)
  /\ \/ n % Payload = 0 /\ length = (n \div Payload) * PacketSize
     \/ length = (n \div Payload) * PacketSize + 2 + (n % Payload)

LEMMA PacketByte ==
  ASSUME NEW buffer, NEW f, NEW n, NEW length, PacketsOf(buffer, f, n, length),
         NEW i \in Nat, NEW q \in 0..(PacketSize - 1), i * PacketSize + q < length
  PROVE  /\ i * PacketSize + q + 1 \in 1..length
         /\ buffer[i * PacketSize + q + 1] = IF q < 2 THEN 0 ELSE f + i * Payload + q - 2
<1>1. i * PacketSize + q \in Nat /\ length \in Nat
  BY Sizes DEF PacketsOf
<1>2. i * PacketSize + q + 1 \in 1..length /\ (i * PacketSize + q + 1) - 1 = i * PacketSize + q
  BY <1>1
<1>3. /\ (i * PacketSize + q) \div PacketSize = i
      /\ (i * PacketSize + q) % PacketSize = q
  BY Sizes, QuotientIs
<1> QED BY <1>2, <1>3 DEF PacketsOf, Packets

LEMMA EveryByte ==
  ASSUME NEW buffer, NEW f, NEW n, NEW length, PacketsOf(buffer, f, n, length),
         NEW j \in 1..length
  PROVE  \E i \in Nat, q \in 0..(PacketSize - 1) :
           /\ j = i * PacketSize + q + 1 /\ i * PacketSize + q < length
           /\ q >= 2 => i * Payload + q - 2 < n
<1> DEFINE i == (j - 1) \div PacketSize
           q == (j - 1) % PacketSize
           full == n \div Payload
           r == n % Payload
<1>1. i \in Nat /\ q \in 0..(PacketSize - 1) /\ j - 1 = i * PacketSize + q
  BY Sizes, Quotients DEF PacketsOf
<1>2. full \in Nat /\ r \in 0..(Payload - 1) /\ n = full * Payload + r /\ length \in Nat
  BY Sizes, Quotients DEF PacketsOf
<1>3. (r = 0 /\ length = full * PacketSize) \/ length = full * PacketSize + 2 + r
  BY DEF PacketsOf
<1> HIDE DEF i, q, full, r
<1>4. i * PacketSize \in Nat /\ full * PacketSize \in Nat /\ i * Payload \in Nat
      /\ full * Payload \in Nat
  BY <1>1, <1>2, Sizes
<1>5. j = i * PacketSize + q + 1 /\ i * PacketSize + q < length
  BY <1>1, <1>2, <1>4
<1>6. ASSUME q >= 2 PROVE i * Payload + q - 2 < n
  <2>1. i <= full
    <3>1. SUFFICES ASSUME i >= full + 1 PROVE FALSE
      BY <1>1, <1>2
    <3>2. i * PacketSize >= (full + 1) * PacketSize
      BY <1>1, <1>2, <3>1, Sizes
    <3>3. (full + 1) * PacketSize = full * PacketSize + PacketSize
      BY <1>2, Sizes
    <3> QED BY <1>1, <1>2, <1>3, <1>4, <1>5, <3>2, <3>3, Sizes
  <2>2. CASE i = full
    <3>1. length = full * PacketSize + 2 + r /\ q < 2 + r
      BY <1>1, <1>2, <1>3, <1>4, <1>5, <2>2
    <3> QED BY <1>1, <1>2, <1>4, <2>2, <3>1
  <2>3. CASE i < full
    <3>1. (i + 1) * Payload <= full * Payload
      BY <1>1, <1>2, <2>3, Sizes
    <3>2. (i + 1) * Payload = i * Payload + Payload
      BY <1>1, Sizes
    <3>3. q - 2 < Payload
      BY <1>1, Sizes
    <3> QED BY <1>1, <1>2, <1>4, <3>1, <3>2, <3>3, Sizes
  <2> QED BY <1>1, <1>2, <2>1, <2>2, <2>3
<1> QED BY <1>1, <1>5, <1>6

(* A buffer with an answer has the bytes, in order, and status bytes.      *)
LEMMA PacketsInOrder ==
  ASSUME NEW buffer, NEW f, NEW n, NEW length, PacketsOf(buffer, f, n, length)
  PROVE  /\ buffer \in Seq(Nat) /\ Len(buffer) = length
         /\ \A j \in 1..length : buffer[j] = 0 \/ (f <= buffer[j] /\ buffer[j] < f + n)
         /\ \A j, k \in 1..length :
              j < k /\ buffer[j] # 0 /\ buffer[k] # 0 => buffer[j] < buffer[k]
<1>1. length \in Nat /\ f \in Nat /\ n \in Nat
  BY DEF PacketsOf
<1>2. ASSUME NEW j \in 1..length
      PROVE  buffer[j] = 0 \/ (buffer[j] \in Nat /\ f <= buffer[j] /\ buffer[j] < f + n)
  <2>1. PICK i \in Nat, q \in 0..(PacketSize - 1) :
           /\ j = i * PacketSize + q + 1 /\ i * PacketSize + q < length
           /\ q >= 2 => i * Payload + q - 2 < n
    BY EveryByte
  <2>2. buffer[j] = IF q < 2 THEN 0 ELSE f + i * Payload + q - 2
    BY <2>1, PacketByte
  <2>3. i * Payload \in Nat
    BY Sizes
  <2> QED BY <1>1, <2>1, <2>2, <2>3, Sizes
<1>3. buffer \in Seq(Nat) /\ Len(buffer) = length
  <2>1. DOMAIN buffer = 1..length /\ buffer = [j \in 1..length |-> buffer[j]]
    BY DEF PacketsOf, Packets
  <2>2. \A j \in 1..length : buffer[j] \in Nat
    BY <1>2
  <2> QED BY <1>1, <2>1, <2>2
<1>4. ASSUME NEW j \in 1..length, NEW k \in 1..length, j < k, buffer[j] # 0, buffer[k] # 0
      PROVE  buffer[j] < buffer[k]
  <2>1. PICK i \in Nat, q \in 0..(PacketSize - 1) :
           j = i * PacketSize + q + 1 /\ i * PacketSize + q < length
    BY EveryByte
  <2>2. PICK h \in Nat, p \in 0..(PacketSize - 1) :
           k = h * PacketSize + p + 1 /\ h * PacketSize + p < length
    BY EveryByte
  <2>3. q >= 2 /\ buffer[j] = f + i * Payload + q - 2
    BY <1>4, <2>1, PacketByte, Sizes
  <2>4. p >= 2 /\ buffer[k] = f + h * Payload + p - 2
    BY <1>4, <2>2, PacketByte, Sizes
  <2>5. i * PacketSize \in Nat /\ h * PacketSize \in Nat /\ i * Payload \in Nat /\ h * Payload \in Nat
    BY Sizes
  <2>6. i <= h
    <3>1. SUFFICES ASSUME i >= h + 1 PROVE FALSE
      OBVIOUS
    <3>2. i * PacketSize >= (h + 1) * PacketSize /\ (h + 1) * PacketSize = h * PacketSize + PacketSize
      BY <3>1, Sizes
    <3> QED BY <1>4, <2>1, <2>2, <2>5, <3>2, Sizes
  <2>7. CASE i = h
    BY <1>1, <1>4, <2>1, <2>2, <2>3, <2>4, <2>5, <2>7, Sizes
  <2>8. CASE i < h
    <3>1. (i + 1) * Payload <= h * Payload /\ (i + 1) * Payload = i * Payload + Payload
      BY <2>8, Sizes
    <3> QED BY <1>1, <2>3, <2>4, <2>5, <3>1, Sizes
  <2> QED BY <2>6, <2>7, <2>8
<1> QED BY <1>2, <1>3, <1>4

LEMMA StrippedIs ==
  ASSUME NEW f, NEW buffer, NEW n, NEW length, PacketsOf(buffer, f, n, length), length > 2
  PROVE  Stripped(length) = n /\ n + 2 <= length
<1> DEFINE full == n \div Payload
           r == n % Payload
           chunks == length \div PacketSize
           remains == length % PacketSize
<1>1. full \in Nat /\ r \in 0..(Payload - 1) /\ n = full * Payload + r /\ length \in Nat
      /\ n \in Nat
  BY Sizes, Quotients DEF PacketsOf
<1>2. (r = 0 /\ length = full * PacketSize) \/ length = full * PacketSize + 2 + r
  BY DEF PacketsOf
<1>3. (r = 0 /\ length = full * PacketSize) => chunks = full /\ remains = 0
  <2>1. 0 \in 0..(PacketSize - 1) /\ full * PacketSize + 0 = full * PacketSize
    BY <1>1, Sizes
  <2>2. (full * PacketSize + 0) \div PacketSize = full /\ (full * PacketSize + 0) % PacketSize = 0
    BY <1>1, <2>1, Sizes, QuotientIs
  <2> QED BY <2>1, <2>2
<1>4. length = full * PacketSize + 2 + r => chunks = full /\ remains = 2 + r
  <2>1. 2 + r \in 0..(PacketSize - 1)
    BY <1>1, Sizes
  <2>2. /\ (full * PacketSize + (2 + r)) \div PacketSize = full
        /\ (full * PacketSize + (2 + r)) % PacketSize = 2 + r
    BY <1>1, <2>1, Sizes, QuotientIs
  <2>3. full * PacketSize + (2 + r) = full * PacketSize + 2 + r
    BY <1>1, Sizes
  <2> QED BY <2>2, <2>3
<1>5. Stripped(length) = IF length <= PacketSize THEN length - 2
                         ELSE IF remains > 2 THEN length - 2 - 2 * chunks
                         ELSE length - 2 - (2 * (chunks - 1) + remains)
  BY DEF Stripped
<1> HIDE DEF full, r, chunks, remains
<1>6. full * PacketSize = full * Payload + 2 * full /\ full * Payload \in Nat
      /\ full * PacketSize \in Nat
  BY <1>1, Sizes
<1>7. full = 0 \/ full = 1 \/ (full >= 2 /\ full * PacketSize >= 2 * PacketSize)
  BY <1>1, Sizes
<1>8. full = 1 => full * PacketSize = PacketSize
  BY Sizes
<1>9. CASE r = 0 /\ length = full * PacketSize
  <2>1. full # 0
    BY <1>9, Sizes
  <2>2. CASE full = 1
    BY <1>1, <1>5, <1>6, <1>8, <1>9, <2>2, Sizes
  <2>3. CASE full >= 2
    <3>1. length > PacketSize /\ chunks = full /\ remains = 0
      BY <1>1, <1>3, <1>6, <1>7, <1>9, <2>3, Sizes
    <3> QED BY <1>1, <1>5, <1>6, <1>9, <2>3, <3>1, Sizes
  <2> QED BY <1>1, <2>1, <2>2, <2>3
<1>10. CASE length = full * PacketSize + 2 + r
  <2>1. chunks = full /\ remains = 2 + r
    BY <1>4, <1>10
  <2>2. CASE full = 0
    <3>1. full * PacketSize = 0 /\ length = 2 + r /\ n = r /\ length <= PacketSize
      BY <1>1, <1>10, <2>2, Sizes
    <3> QED BY <1>1, <1>5, <3>1
  <2>3. CASE full # 0
    <3>1. length > PacketSize
      BY <1>1, <1>6, <1>7, <1>8, <1>10, <2>3, Sizes
    <3>2. CASE r > 0
      <4>1. Stripped(length) = length - 2 - 2 * full
        BY <1>1, <1>5, <2>1, <3>1, <3>2, Sizes
      <4>2. length = full * Payload + 2 * full + 2 + r
        BY <1>6, <1>10
      <4> HIDE DEF full, r
      <4> QED BY <1>1, <1>6, <4>1, <4>2
    <3>3. CASE r = 0
      <4>1. Stripped(length) = length - 2 - (2 * (full - 1) + 2)
        BY <1>1, <1>5, <2>1, <3>1, <3>3, Sizes
      <4>2. length = full * Payload + 2 * full + 2 /\ n = full * Payload
        BY <1>1, <1>6, <1>10, <3>3
      <4>3. 2 * (full - 1) + 2 = 2 * full
        BY <1>1
      <4> QED BY <1>1, <1>6, <4>1, <4>2, <4>3
    <3> QED BY <1>1, <3>2, <3>3
  <2> QED BY <2>2, <2>3
<1> QED BY <1>2, <1>9, <1>10

(* After the memmove()s the bytes follow each other from the third on.     *)
LEMMA MovedIs ==
  ASSUME NEW f, NEW buffer, NEW n, NEW length, PacketsOf(buffer, f, n, length), length > 2
  PROVE  /\ Moved(buffer, length) \in Seq(Nat) /\ Len(Moved(buffer, length)) = length
         /\ \A m \in Nat : m < n => Moved(buffer, length)[3 + m] = f + m
         /\ \A p \in 1..length : \E j \in 1..length : Moved(buffer, length)[p] = buffer[j]
<1> DEFINE chunks == length \div PacketSize
           remains == length % PacketSize
           place(p) == (p - 3) \div Payload
           off(p) == (p - 3) % Payload
           further(p) == place(p) \in 1..(chunks - 1)
                         \/ (place(p) = chunks /\ place(p) > 0 /\ off(p) < remains - 2)
           source(p) == IF further(p) THEN place(p) * PacketSize + 3 + off(p) ELSE p
           moved == Moved(buffer, length)
<1>1. /\ f \in Nat /\ n \in Nat /\ length \in Nat /\ DOMAIN buffer = 1..length
      /\ buffer \in Seq(Nat)
  BY PacketsInOrder DEF PacketsOf, Packets
<1>2. moved = [p \in 1..length |-> IF p < 3 THEN buffer[p] ELSE buffer[source(p)]]
  BY <1>1 DEF Moved
<1>3. chunks \in Nat /\ remains \in 0..(PacketSize - 1) /\ length = chunks * PacketSize + remains
  <2>1. PacketSize \in Nat /\ PacketSize > 0 /\ length \in Nat
    BY <1>1, Sizes
  <2> HIDE DEF moved
  <2> QED BY <2>1, Quotients
<1>4. ASSUME NEW p \in Nat, p >= 3
      PROVE  place(p) \in Nat /\ off(p) \in 0..(Payload - 1) /\ p - 3 = place(p) * Payload + off(p)
  <2>1. p - 3 \in Nat
    BY <1>4
  <2> QED BY <2>1, Sizes, Quotients
<1> HIDE DEF chunks, remains, place, off
<1>5. ASSUME NEW p \in 1..length, p >= 3 PROVE source(p) \in 1..length
  <2>1. p \in Nat /\ p >= 3
    BY <1>1, <1>5
  <2>2. /\ place(p) \in Nat /\ off(p) \in 0..(Payload - 1)
        /\ place(p) * PacketSize \in Nat /\ chunks * PacketSize \in Nat
    BY <1>3, <1>4, <2>1, Sizes
  <2>3. CASE place(p) \in 1..(chunks - 1)
    <3>1. (place(p) + 1) * PacketSize <= chunks * PacketSize
      BY <1>3, <2>2, <2>3, Sizes
    <3>2. (place(p) + 1) * PacketSize = place(p) * PacketSize + PacketSize
      BY <2>2, Sizes
    <3>3. source(p) = place(p) * PacketSize + 3 + off(p)
      BY <2>3
    <3>4. place(p) * PacketSize + PacketSize <= length
      BY <1>1, <1>3, <2>2, <3>1, <3>2, Sizes
    <3>5. 3 + off(p) <= PacketSize /\ off(p) \in Nat
      BY <2>2, Sizes
    <3>6. PICK a \in Nat : a = place(p) * PacketSize
      BY <2>2
    <3>7. PICK o \in Nat : o = off(p)
      BY <3>5
    <3>8. source(p) = a + 3 + o /\ a + PacketSize <= length /\ 3 + o <= PacketSize
      BY <3>3, <3>4, <3>5, <3>6, <3>7
    <3> HIDE DEF source
    <3> QED BY <1>1, <3>8, Sizes
  <2>4. CASE place(p) = chunks /\ place(p) > 0 /\ off(p) < remains - 2
    <3>1. source(p) = chunks * PacketSize + 3 + off(p)
      BY <2>4
    <3> QED BY <1>1, <1>3, <2>2, <2>4, <3>1, Sizes, SMTT(30)
  <2>5. CASE ~further(p)
    BY <1>5, <2>5
  <2> QED BY <2>3, <2>4, <2>5
<1>6. ASSUME NEW p \in 1..length PROVE \E j \in 1..length : moved[p] = buffer[j]
  <2>1. CASE p < 3
    BY <1>2, <2>1
  <2>2. CASE p >= 3
    BY <1>2, <1>5, <2>2
  <2> QED BY <1>1, <2>1, <2>2
<1>7. moved \in Seq(Nat) /\ Len(moved) = length
  <2>1. \A p \in 1..length : moved[p] \in Nat
    <3> SUFFICES ASSUME NEW p \in 1..length PROVE moved[p] \in Nat
      OBVIOUS
    <3>1. PICK j \in 1..length : moved[p] = buffer[j]
      BY <1>6
    <3> QED BY <1>1, <3>1, ElementOfSeq
  <2>2. DOMAIN moved = 1..length /\ moved = [p \in 1..length |-> moved[p]]
    BY <1>2
  <2> QED BY <1>1, <2>1, <2>2, SMTT(30)
<1>8. ASSUME NEW m \in Nat, m < n PROVE moved[3 + m] = f + m
  <2> DEFINE full == n \div Payload
             r == n % Payload
             i == place(3 + m)
             k == off(3 + m)
  <2>1. n + 2 <= length
    BY StrippedIs
  <2>2. 3 + m \in 1..length /\ 3 + m >= 3 /\ (3 + m) - 3 = m /\ 3 + m \in Nat
    BY <1>1, <1>8, <2>1
  <2>3. i \in Nat /\ k \in 0..(Payload - 1) /\ m = i * Payload + k
    BY <1>4, <2>2
  <2>4. full \in Nat /\ r \in 0..(Payload - 1) /\ n = full * Payload + r
    BY <1>1, Sizes, Quotients
  <2>5. (r = 0 /\ length = full * PacketSize) \/ length = full * PacketSize + 2 + r
    BY DEF PacketsOf
  <2> HIDE DEF full, r
  <2>6. /\ (r = 0 /\ length = full * PacketSize /\ chunks = full /\ remains = 0)
           \/ (length = full * PacketSize + 2 + r /\ chunks = full /\ remains = 2 + r)
    <3>1. ASSUME NEW t \in 0..(PacketSize - 1), length = full * PacketSize + t
          PROVE  chunks = full /\ remains = t
      BY <2>4, <3>1, Sizes, QuotientIs DEF chunks, remains
    <3>2. 0 \in 0..(PacketSize - 1) /\ 2 + r \in 0..(PacketSize - 1) /\ full * PacketSize \in Nat
      BY <2>4, Sizes
    <3>3. CASE r = 0 /\ length = full * PacketSize
      <4>1. length = full * PacketSize + 0
        BY <3>2, <3>3
      <4> QED BY <3>1, <3>2, <3>3, <4>1
    <3>4. CASE length = full * PacketSize + 2 + r
      <4>1. length = full * PacketSize + (2 + r)
        BY <2>4, <3>2, <3>4
      <4> QED BY <3>1, <3>2, <3>4, <4>1
    <3> QED BY <2>5, <3>3, <3>4
  <2> HIDE DEF i, k
  <2>7. i * PacketSize \in Nat /\ i * Payload \in Nat /\ full * PacketSize \in Nat
        /\ full * Payload \in Nat
    BY <2>3, <2>4, Sizes
  <2>8. i < full \/ (i = full /\ k < r)
    <3>1. i <= full
      <4>1. SUFFICES ASSUME i >= full + 1 PROVE FALSE
        BY <2>3, <2>4
      <4>2. i * Payload >= (full + 1) * Payload /\ (full + 1) * Payload = full * Payload + Payload
        BY <2>3, <2>4, <4>1, Sizes
      <4> QED BY <1>8, <2>3, <2>4, <2>7, <4>2, Sizes
    <3>2. i = full => k < r
      BY <1>1, <1>8, <2>3, <2>4, <2>7
    <3> QED BY <2>3, <2>4, <3>1, <3>2
  <2>9. source(3 + m) = i * PacketSize + 3 + k
    <3>1. CASE i = 0
      <4>1. ~further(3 + m) \/ i > 0
        BY <3>1, <2>3 DEF i
      <4>2. source(3 + m) = 3 + m
        BY <3>1, <4>1
      <4> QED BY <2>3, <3>1, <4>2, Sizes
    <3>2. CASE i > 0
      <4>1. i \in 1..(chunks - 1) \/ (i = chunks /\ i > 0 /\ k < remains - 2)
        BY <2>3, <2>4, <2>6, <2>8, <3>2
      <4> QED BY <4>1 DEF i, k
    <3> QED BY <2>3, <3>1, <3>2
  <2>10. 2 + k \in 0..(PacketSize - 1) /\ i * PacketSize + (2 + k) < length
    <3>1. i < full => (i + 1) * PacketSize <= full * PacketSize
                      /\ (i + 1) * PacketSize = i * PacketSize + PacketSize
      BY <2>3, <2>4, Sizes
    <3> QED BY <1>1, <2>3, <2>4, <2>6, <2>7, <2>8, <3>1, Sizes
  <2>11. buffer[i * PacketSize + (2 + k) + 1] = f + i * Payload + (2 + k) - 2
    <3>1. buffer[i * PacketSize + (2 + k) + 1]
            = IF 2 + k < 2 THEN 0 ELSE f + i * Payload + (2 + k) - 2
      BY <2>3, <2>10, PacketByte
    <3> QED BY <2>3, <3>1
  <2>12. i * PacketSize + (2 + k) + 1 = i * PacketSize + 3 + k
         /\ f + i * Payload + (2 + k) - 2 = f + m
    BY <1>1, <2>3, <2>7, SMTT(30)
  <2>13. moved[3 + m] = buffer[source(3 + m)]
    BY <1>2, <2>2
  <2> QED BY <2>9, <2>11, <2>12, <2>13
<1> QED BY <1>6, <1>7, <1>8 DEF moved


(* What an answer is, once it has been stripped.                           *)
LEMMA AnswerIs ==
  ASSUME ReadTypes, NEW n \in Nat, n <= sent, Answer(n)
  PROVE  /\ PacketsOf(readbuffer, sent - n + 1, n, reading.length)
         /\ Len(readbuffer) = reading.length /\ (reading.length <= 2 <=> n = 0)
         /\ Received \in Seq(Nat) /\ Len(Received) = n /\ RunOf(Received, sent - n + 1)
         /\ reading.length > 2 =>
              /\ Moved(readbuffer, reading.length) \in Seq(Nat)
              /\ Len(Moved(readbuffer, reading.length)) = reading.length
              /\ n + 2 <= reading.length
              /\ \A m \in Nat : m < n => Moved(readbuffer, reading.length)[3 + m]
                                         = sent - n + 1 + m
<1> DEFINE length == reading.length
           f == sent - n + 1
           moved == Moved(readbuffer, length)
<1>1. f \in Nat /\ n \in Nat /\ sent \in Nat
  BY DEF ReadTypes
<1>2. /\ length \in Nat
      /\ \/ n % Payload = 0 /\ length = (n \div Payload) * PacketSize
         \/ length = (n \div Payload) * PacketSize + 2 + (n % Payload)
      /\ length <= 2 <=> n = 0
  <2>1. reading.length = LengthOf(n, readbuffer_chunksize, reading.status)
        /\ (reading.status = "TIMED_OUT" => n % Payload = 0)
    BY DEF Answer
  <2> QED BY <2>1, LengthIs
<1>3. PacketsOf(readbuffer, f, n, length)
  BY <1>1, <1>2 DEF PacketsOf, Answer
<1>4. Len(readbuffer) = length
  BY <1>3, PacketsInOrder
<1>5. CASE length <= 2
  <2>1. Received = <<>> /\ n = 0
    BY <1>2, <1>5 DEF Received
  <2>2. <<>> \in Seq(Nat) /\ Len(<<>>) = 0 /\ \A i \in 1..0 : FALSE
    OBVIOUS
  <2>3. ~(length > 2)
    BY <1>2, <1>5
  <2> HIDE DEF f, length
  <2> QED BY <1>2, <1>3, <1>4, <2>1, <2>2, <2>3 DEF RunOf, f, length
<1>6. CASE length > 2
  <2>1. Stripped(length) = n /\ n + 2 <= length
    BY <1>3, <1>6, StrippedIs
  <2>2. /\ moved \in Seq(Nat) /\ Len(moved) = length
        /\ \A m \in Nat : m < n => moved[3 + m] = f + m
    BY <1>3, <1>6, MovedIs
  <2>3. Received = SubSeq(moved, 3, 2 + n)
    BY <1>2, <1>6, <2>1 DEF Received
  <2> HIDE DEF moved, f
  <2>4. /\ SubSeq(moved, 3, 2 + n) \in Seq(Nat) /\ Len(SubSeq(moved, 3, 2 + n)) = n
        /\ \A i \in 1..n : SubSeq(moved, 3, 2 + n)[i] = moved[3 + i - 1]
    <3>1. 3..(2 + n) \subseteq 1..Len(moved)
      BY <1>1, <1>2, <2>1, <2>2
    <3>2. 2 + n - 3 + 1 = n
      BY <1>1
    <3>3. SubSeq(moved, 3, 2 + n) = [i \in 1..n |-> moved[3 + i - 1]]
      BY <1>1, <2>2, <3>1, <3>2
    <3>4. \A i \in 1..n : moved[3 + i - 1] \in Nat
      BY <1>1, <1>2, <2>1, <2>2, ElementOfSeq
    <3> DEFINE g == [i \in 1..n |-> moved[3 + i - 1]]
    <3>5. g \in Seq(Nat) /\ Len(g) = n
      BY <1>1, <3>4
    <3> HIDE DEF g
    <3>6. \A i \in 1..n : g[i] = moved[3 + i - 1]
      BY DEF g
    <3>7. SubSeq(moved, 3, 2 + n) = g
      BY <3>3 DEF g
    <3> QED BY <3>5, <3>6, <3>7
  <2>5. RunOf(Received, f)
    <3>1. \A i \in 1..n : moved[3 + i - 1] = f + i - 1
      <4>1. SUFFICES ASSUME NEW i \in 1..n PROVE moved[3 + i - 1] = f + i - 1
        OBVIOUS
      <4>2. i - 1 \in Nat /\ i - 1 < n /\ 3 + (i - 1) = 3 + i - 1
        BY <1>1
      <4> QED BY <1>1, <2>2, <4>2
    <3> QED BY <2>3, <2>4, <3>1 DEF RunOf
  <2> QED BY <1>2, <1>3, <1>4, <1>6, <2>1, <2>2, <2>3, <2>4, <2>5 DEF moved, f
<1> QED BY <1>2, <1>5, <1>6

(* The chip's answer is one.                                               *)
LEMMA FreshAnswer ==
  ASSUME ReadTypes, NEW n \in Nat, NEW s, s = "TIMED_OUT" => n % Payload = 0
  PROVE  LET length == LengthOf(n, readbuffer_chunksize, s)
             buffer == Packets(sent + 1, n, length)
         IN  length \in Nat /\ buffer \in Seq(Nat) /\ Len(buffer) = length
<1> DEFINE length == LengthOf(n, readbuffer_chunksize, s)
           buffer == Packets(sent + 1, n, length)
<1>1. sent + 1 \in Nat
  BY DEF ReadTypes
<1>2. /\ length \in Nat
      /\ \/ n % Payload = 0 /\ length = (n \div Payload) * PacketSize
         \/ length = (n \div Payload) * PacketSize + 2 + (n % Payload)
  BY LengthIs
<1> HIDE DEF length
<1>3. PacketsOf(buffer, sent + 1, n, length)
  BY <1>1, <1>2 DEF PacketsOf
<1>4. buffer \in Seq(Nat) /\ Len(buffer) = length
  BY <1>3, PacketsInOrder
<1> QED BY <1>2, <1>4 DEF length

-----------------------------------------------------------------------------
(* How the steps of a read move the bytes about.                           *)
LEMMA CoversTypes ==
  ASSUME NEW open \in BOOLEAN, NEW f \in Nat, NEW l \in Nat, NEW k \in Int, NEW p \in Nat,
         NEW t \in Nat, NEW gone \in SUBSET Nat, Covers(open, f, l, k, p, t, gone)
  PROVE  k \in Nat /\ f + l \in Nat /\ f > 0
BY DEF Covers

(* Kept bytes are given to the caller.                                     *)
LEMMA CoversTake ==
  ASSUME NEW f \in Nat, NEW k \in Nat, NEW p \in Nat, NEW t \in Nat, NEW gone \in SUBSET Nat,
         Covers(TRUE, f, 0, k, p, t, gone), NEW m \in Nat, m <= p - k + 1
  PROVE  Covers(TRUE, k, m, k + m, p, t, gone)
BY DEF Covers

(* The kept bytes are lost.                                                *)
LEMMA CoversDrop ==
  ASSUME NEW open \in BOOLEAN, NEW f \in Nat, NEW l \in Nat, NEW k \in Nat, NEW p \in Nat,
         NEW t \in Nat, NEW gone \in SUBSET Nat, Covers(open, f, l, k, p, t, gone),
         NEW bytes \in SUBSET Nat, \A b \in Nat : b \in bytes <=> k <= b /\ b <= p
  PROVE  /\ Covers(TRUE, f, l, p + 1, p, t, gone \cup bytes)
         /\ Covers(FALSE, f, l, p + 1, p, t, gone \cup bytes)
         /\ Covers(FALSE, f, l, k, p, t, gone \cup bytes)
BY DEF Covers

(* A device that is opened has the kept bytes again.                       *)
LEMMA CoversOpen ==
  ASSUME NEW open \in BOOLEAN, NEW f \in Nat, NEW l \in Nat, NEW k \in Nat, NEW p \in Nat,
         NEW t \in Nat, NEW gone \in SUBSET Nat, Covers(open, f, l, k, p, t, gone),
         NEW bytes \in SUBSET Nat, \A b \in Nat : b \in bytes <=> k <= b /\ b <= p
  PROVE  Covers(TRUE, f, l, k, p, t, gone \ bytes)
BY DEF Covers

(* n bytes come: m for the caller, and the others are kept.                *)
LEMMA CoversCome ==
  ASSUME NEW f \in Nat, NEW l \in Nat, NEW p \in Nat, NEW t \in Nat, NEW gone \in SUBSET Nat,
         Covers(TRUE, f, l, p + 1, p, t, gone), f + l = p + 1,
         NEW n \in Nat, NEW m \in Nat, m <= n
  PROVE  Covers(TRUE, f, l + m, p + m + 1, p + n, t, gone)
BY DEF Covers

(* The caller has his bytes, or is told that they are lost.                *)
LEMMA CoversReturn ==
  ASSUME NEW open \in BOOLEAN, NEW f \in Nat, NEW l \in Nat, NEW k \in Nat, NEW p \in Nat,
         NEW t \in Nat, NEW gone \in SUBSET Nat, Covers(open, f, l, k, p, t, gone),
         NEW now \in Nat, now = IF l = 0 THEN t ELSE f + l - 1,
         NEW left \in SUBSET Nat, \A b \in Nat : b \in left <=> b \in gone /\ b > now
  PROVE  Covers(open, k, 0, k, p, now, left)
BY DEF Covers

LEMMA CoversLose ==
  ASSUME NEW open \in BOOLEAN, NEW f \in Nat, NEW l \in Nat, NEW k \in Nat, NEW p \in Nat,
         NEW t \in Nat, NEW gone \in SUBSET Nat, Covers(open, f, l, k, p, t, gone),
         NEW bytes \in SUBSET Nat, \A b \in Nat : b \in bytes <=> f <= b /\ b < f + l
  PROVE  Covers(open, k, 0, k, p, t, gone \cup bytes)
BY DEF Covers

-----------------------------------------------------------------------------
(* Runs of bytes.                                                          *)
LEMMA PartIs ==
  ASSUME NEW s \in Seq(Nat), NEW o \in Nat, NEW r \in Nat, o + r <= Len(s)
  PROVE  /\ SubSeq(s, o + 1, o + r) \in Seq(Nat) /\ Len(SubSeq(s, o + 1, o + r)) = r
         /\ \A i \in 1..r : SubSeq(s, o + 1, o + r)[i] = s[o + i]
<1> DEFINE g == [i \in 1..r |-> s[o + i]]
<1>1. \A i \in 1..r : o + i \in 1..Len(s) /\ s[o + i] \in Nat
  <2> SUFFICES ASSUME NEW i \in 1..r
               PROVE  o + i \in 1..Len(s) /\ s[o + i] \in Nat
    OBVIOUS
  <2>1. o + i \in 1..Len(s)
    OBVIOUS
  <2> QED BY <2>1, ElementOfSeq
<1>2. SubSeq(s, o + 1, o + r) = g
  <2>1. (o + 1)..(o + r) \subseteq 1..Len(s)
    OBVIOUS
  <2>2. o + r - (o + 1) + 1 = r /\ \A i \in 1..r : o + 1 + i - 1 = o + i
    OBVIOUS
  <2>3. SubSeq(s, o + 1, o + r) = [i \in 1..r |-> s[o + 1 + i - 1]]
    BY <2>1, <2>2
  <2> QED BY <2>2, <2>3
<1>3. g \in Seq(Nat) /\ Len(g) = r
  BY <1>1
<1>4. \A i \in 1..r : g[i] = s[o + i]
  OBVIOUS
<1> HIDE DEF g
<1> QED BY <1>2, <1>3, <1>4

LEMMA KeptIs ==
  ASSUME ReadTypes
  PROVE  /\ Kept \in Seq(Nat) /\ Len(Kept) = readbuffer_remaining
         /\ \A i \in 1..readbuffer_remaining : Kept[i] = readbuffer[readbuffer_offset + i]
<1>1. /\ readbuffer_offset \in Nat /\ readbuffer_remaining \in Nat /\ readbuffer \in Seq(Nat)
      /\ readbuffer_offset + readbuffer_remaining <= Len(readbuffer)
  BY DEF ReadTypes
<1> QED BY <1>1, PartIs DEF Kept

(* The same of the next state, where nothing is kept.                      *)
LEMMA NothingKept ==
  ASSUME ReadTypes', readbuffer_remaining' = 0
  PROVE  Len(Kept') = 0 /\ \A f \in Nat : RunOf(Kept', f)
<1>1. readbuffer_offset' \in Nat /\ readbuffer' \in Seq(Nat) /\ 0 \in Nat
      /\ readbuffer_offset' + 0 <= Len(readbuffer')
  BY DEF ReadTypes
<1>2. Kept' = SubSeq(readbuffer', readbuffer_offset' + 1, readbuffer_offset' + 0)
  BY DEF Kept
<1>3. Len(Kept') = 0
  BY <1>1, <1>2, PartIs
<1> QED BY <1>3 DEF RunOf

LEMMA RunPart ==
  ASSUME NEW s \in Seq(Nat), NEW f \in Nat, RunOf(s, f), NEW m \in Nat, m <= Len(s)
  PROVE  SubSeq(s, 1, m) \in Seq(Nat) /\ Len(SubSeq(s, 1, m)) = m /\ RunOf(SubSeq(s, 1, m), f)
<1> DEFINE g == [i \in 1..m |-> s[i]]
<1>1. \A i \in 1..m : s[i] \in Nat /\ s[i] = f + i - 1
  BY ElementOfSeq DEF RunOf
<1>2. g \in Seq(Nat) /\ Len(g) = m
  BY <1>1
<1>3. SubSeq(s, 1, m) = g
  <2>1. 1..m \subseteq 1..Len(s) /\ m - 1 + 1 = m /\ \A i \in 1..m : 1 + i - 1 = i
    OBVIOUS
  <2>2. SubSeq(s, 1, m) = [i \in 1..m |-> s[1 + i - 1]]
    BY <2>1
  <2> QED BY <2>1, <2>2
<1>4. \A i \in 1..m : g[i] = f + i - 1
  BY <1>1
<1> HIDE DEF g
<1> QED BY <1>2, <1>3, <1>4 DEF RunOf

LEMMA RunConcat ==
  ASSUME NEW s \in Seq(Nat), NEW u \in Seq(Nat), NEW f \in Nat,
         RunOf(s, f), RunOf(u, f + Len(s))
  PROVE  s \o u \in Seq(Nat) /\ Len(s \o u) = Len(s) + Len(u) /\ RunOf(s \o u, f)
<1> DEFINE l == Len(s)
           m == Len(u)
           all == s \o u
<1>1. /\ all \in Seq(Nat) /\ Len(all) = l + m
      /\ \A i \in 1..(l + m) : all[i] = IF i <= l THEN s[i] ELSE u[i - l]
  BY ConcatProperties
<1>2. l \in Nat /\ m \in Nat
  OBVIOUS
<1>3. (\A i \in 1..l : s[i] = f + i - 1) /\ (\A i \in 1..m : u[i] = f + l + i - 1)
  BY DEF RunOf
<1> HIDE DEF all, l, m
<1>4. ASSUME NEW i \in 1..(l + m) PROVE all[i] = f + i - 1
  <2>1. CASE i <= l
    <3>1. i \in 1..l
      BY <1>2, <2>1
    <3>2. all[i] = s[i]
      BY <1>1, <2>1
    <3> QED BY <1>3, <3>1, <3>2
  <2>2. CASE ~(i <= l)
    <3>1. i - l \in 1..m /\ f + l + (i - l) - 1 = f + i - 1
      BY <1>2, <2>2
    <3> QED BY <1>1, <1>3, <2>2, <3>1
  <2> QED BY <2>1, <2>2
<1> QED BY <1>1, <1>2, <1>4 DEF RunOf, all, l, m

LEMMA RunSet ==
  ASSUME NEW s \in Seq(Nat), NEW f \in Nat, RunOf(s, f)
  PROVE  ToSet(s) \subseteq Nat /\ \A b \in Nat : b \in ToSet(s) <=> f <= b /\ b < f + Len(s)
<1>1. DOMAIN s = 1..Len(s) /\ Len(s) \in Nat /\ \A i \in 1..Len(s) : s[i] = f + i - 1
  BY DEF RunOf
<1>2. ToSet(s) = {s[i] : i \in 1..Len(s)}
  BY <1>1 DEF ToSet
<1>3. ASSUME NEW b \in Nat, f <= b, b < f + Len(s) PROVE b \in ToSet(s)
  <2>1. b - f + 1 \in 1..Len(s) /\ f + (b - f + 1) - 1 = b
    BY <1>1, <1>3
  <2> QED BY <1>1, <1>2, <2>1
<1>4. ASSUME NEW b \in ToSet(s) PROVE b \in Nat /\ f <= b /\ b < f + Len(s)
  <2>1. PICK i \in 1..Len(s) : b = s[i]
    BY <1>2
  <2> QED BY <1>1, <2>1
<1> QED BY <1>3, <1>4

LEMMA RunLast ==
  ASSUME NEW s \in Seq(Nat), NEW f \in Nat, RunOf(s, f), NEW t \in Nat, t < f
  PROVE  LET now == IF s = <<>> THEN t ELSE Last(s)
         IN  now \in Nat /\ now = IF Len(s) = 0 THEN t ELSE f + Len(s) - 1
<1>1. Len(s) \in Nat /\ \A i \in 1..Len(s) : s[i] = f + i - 1
  BY DEF RunOf
<1>2. CASE s = <<>>
  BY <1>2
<1>3. CASE s # <<>>
  <2>1. Len(s) # 0
    BY <1>3
  <2>2. Len(s) \in 1..Len(s)
    BY <1>1, <2>1
  <2>3. Last(s) = f + Len(s) - 1
    BY <1>1, <2>2 DEF Last
  <2> QED BY <1>1, <1>3, <2>1, <2>3
<1> QED BY <1>2, <1>3

-----------------------------------------------------------------------------
(* The invariant now, with a name for each number, and what gives it next. *)
Numbers(n, f, p, l, k) ==
  /\ p + n = sent /\ Arrival(n) /\ l = Len(reading.buf) /\ reading.buf \in Seq(Nat)
  /\ k = p - readbuffer_remaining + 1
  /\ RunOf(reading.buf, f) /\ RunOf(Kept, k)
  /\ Covers(usb_dev, f, l, k, p, taken, lost)
  /\ reading.flight # "none" => f + l = p + 1 /\ k = p + 1 /\ usb_dev

USE DEF Numbers, openVars

LEMMA ReadNow == ASSUME ReadInv PROVE \E n, f, p, l, k \in Nat : Numbers(n, f, p, l, k)
<1>1. PICK n \in Nat, f \in Nat : n <= sent /\ Arrival(n) /\ Data(sent - n, f)
  BY DEF ReadInv
<1> DEFINE p == sent - n
           l == Len(reading.buf)
           k == KeptFrom(p)
<1>2. /\ p \in Nat /\ p + n = sent /\ l \in Nat /\ reading.buf \in Seq(Nat)
      /\ readbuffer_remaining \in Nat /\ taken \in Nat /\ lost \subseteq Nat
      /\ usb_dev \in BOOLEAN
  BY <1>1 DEF ReadInv, ReadTypes, Reads
<1>3. k = p - readbuffer_remaining + 1
  BY DEF KeptFrom
<1>4. Covers(usb_dev, f, l, k, p, taken, lost) /\ RunOf(reading.buf, f) /\ RunOf(Kept, k)
      /\ (reading.flight # "none" => f + l = p + 1)
  BY <1>1 DEF Data
<1> HIDE DEF p, l, k
<1>5. k \in Nat
  BY <1>2, <1>3, <1>4 DEF Covers
<1>6. reading.flight # "none" => k = p + 1 /\ usb_dev
  BY <1>2, <1>3 DEF ReadInv, CallShape
<1>7. l = Len(reading.buf)
  BY DEF l
<1> QED BY <1>1, <1>2, <1>3, <1>4, <1>5, <1>6, <1>7

LEMMA ReadNext ==
  ASSUME ReadTypes', CallShape',
         NEW n \in Nat, NEW f \in Nat, NEW p \in Nat, p + n = sent', Arrival(n)',
         RunOf(reading'.buf, f), RunOf(Kept', p - readbuffer_remaining' + 1),
         Covers(usb_dev', f, Len(reading'.buf), p - readbuffer_remaining' + 1, p,
         taken', lost'),
         reading'.flight # "none" => f + Len(reading'.buf) = p + 1
  PROVE  ReadInv'
<1>1. sent' \in Nat /\ n <= sent' /\ sent' - n = p
  OBVIOUS
<1>2. Data(p, f)'
  BY DEF Data, KeptFrom
<1>3. Data(sent - n, f)'
  BY <1>1, <1>2
<1> QED BY <1>1, <1>3 DEF ReadInv

-----------------------------------------------------------------------------
(* Each step of a read keeps the invariant.                                *)
LEMMA ReadInit == FtdiInit => ReadInv
<1> SUFFICES ASSUME FtdiInit PROVE ReadInv  OBVIOUS
<1>1. <<>> \in Seq(Nat) /\ Len(<<>>) = 0
  OBVIOUS
<1>2. readbuffer_chunksize \in ReadChunks /\ readbuffer_chunksize \in Nat
  BY FtdiAssumption DEF FtdiInit
<1>3. ReadTypes
  <2>1. reading \in Reads
    BY <1>1 DEF FtdiInit, NoRead, Reads
  <2>2. Len(readbuffer) <= readbuffer_chunksize
    BY <1>1, <1>2 DEF FtdiInit
  <2>3. /\ usb_dev = FALSE /\ readbuffer = <<>> /\ readbuffer_offset = 0
        /\ readbuffer_remaining = 0 /\ sent = 0 /\ taken = 0 /\ lost = {}
    BY DEF FtdiInit
  <2>4. readbuffer_offset + readbuffer_remaining <= Len(readbuffer)
    BY <1>1, <2>3
  <2> QED BY <1>1, <1>2, <2>1, <2>2, <2>3, <2>4 DEF ReadTypes
<1>4. CallShape
  BY <1>1 DEF FtdiInit, NoRead, CallShape
<1>5. Len(Kept) = 0
  BY <1>3, KeptIs DEF FtdiInit
<1>6. Covers(FALSE, 1, 0, 1, 0, 0, {})
  BY DEF Covers
<1>7. Data(0, 1)
  <2>1. reading.buf = <<>> /\ reading.flight = "none" /\ readbuffer_remaining = 0
    BY DEF FtdiInit, NoRead
  <2>2. KeptFrom(0) = 1
    BY <2>1 DEF KeptFrom
  <2>3. usb_dev = FALSE /\ taken = 0 /\ lost = {} /\ Len(reading.buf) = 0
    BY <1>1, <2>1 DEF FtdiInit
  <2>4. Covers(usb_dev, 1, Len(reading.buf), KeptFrom(0), 0, taken, lost)
    BY <1>6, <2>2, <2>3
  <2>5. RunOf(reading.buf, 1) /\ RunOf(Kept, KeptFrom(0))
    BY <1>5, <2>3 DEF RunOf
  <2> QED BY <2>1, <2>4, <2>5 DEF Data
<1>8. Arrival(0) /\ sent = 0 /\ sent - 0 = 0
  BY DEF Arrival, FtdiInit, NoRead
<1> QED BY <1>3, <1>4, <1>7, <1>8 DEF ReadInv

LEMMA ReadSame ==
  ASSUME ReadInv, UNCHANGED <<usb_dev, bufferVars, readbuffer_chunksize, readVars>>
  PROVE  ReadInv'
<1>1. ReadTypes' /\ CallShape'
  BY DEF ReadInv, ReadTypes, CallShape, bufferVars, readVars
<1>2. PICK n, f, p, l, k \in Nat : Numbers(n, f, p, l, k)
  BY ReadNow
<1>3. Arrival(n)' /\ Kept' = Kept
  BY <1>2 DEF Arrival, Answer, Kept, bufferVars, readVars
<1> QED BY <1>1, <1>2, <1>3, ReadNext DEF bufferVars, readVars

(* The numbers of the kept bytes.                                          *)
LEMMA KeptSet ==
  ASSUME ReadTypes, NEW n \in Nat, NEW f \in Nat, NEW p \in Nat, NEW l \in Nat,
         NEW k \in Nat, Numbers(n, f, p, l, k)
  PROVE  /\ ToSet(Kept) \in SUBSET Nat /\ ToSet(Kept) \ {0} = ToSet(Kept)
         /\ \A b \in Nat : b \in ToSet(Kept) <=> k <= b /\ b <= p
<1>1. Kept \in Seq(Nat) /\ Len(Kept) = readbuffer_remaining /\ readbuffer_remaining \in Nat
  BY KeptIs DEF ReadTypes
<1>2. /\ ToSet(Kept) \subseteq Nat
      /\ \A b \in Nat : b \in ToSet(Kept) <=> k <= b /\ b < k + readbuffer_remaining
  BY <1>1, RunSet
<1>3. k > 0 /\ k + readbuffer_remaining = p + 1
  <2>1. taken \in Nat /\ usb_dev \in BOOLEAN /\ lost \in SUBSET Nat
    BY DEF ReadTypes
  <2> QED BY <1>1, <2>1 DEF Covers
<1>4. \A b \in Nat : b \in ToSet(Kept) <=> k <= b /\ b <= p
  BY <1>1, <1>2, <1>3
<1> QED BY <1>2, <1>3, <1>4

(* The kept bytes are thrown away, and the user is told.                   *)
LEMMA KeptLost ==
  ASSUME ReadInv, KeepNothing, UNCHANGED <<readbuffer, reading, sent, taken>>, Lose(Kept),
         UNCHANGED usb_dev \/ (reading.flight = "none" /\ usb_dev' \in BOOLEAN),
         \/ UNCHANGED readbuffer_chunksize
         \/ reading.flight # "ended" /\ readbuffer_chunksize' \in ReadChunks
  PROVE  ReadInv'
<1>1. ReadTypes /\ CallShape
  BY DEF ReadInv
<1>2. PICK n, f, p, l, k \in Nat : Numbers(n, f, p, l, k)
  BY ReadNow
<1>3. /\ usb_dev \in BOOLEAN /\ usb_dev' \in BOOLEAN /\ taken \in Nat /\ lost \in SUBSET Nat
  BY <1>1 DEF ReadTypes
<1>4. PICK bytes \in SUBSET Nat :
        (\A b \in Nat : b \in bytes <=> k <= b /\ b <= p) /\ lost' = lost \cup bytes
  <2> HIDE DEF Numbers
  <2>1. /\ ToSet(Kept) \in SUBSET Nat
        /\ \A b \in Nat : b \in ToSet(Kept) <=> k <= b /\ b <= p
    BY <1>1, <1>2, KeptSet
  <2>2. lost' = lost \cup ToSet(Kept)
    BY <1>1, <1>2, KeptSet DEF Lose
  <2> QED BY <2>1, <2>2
<1>5. Covers(usb_dev', f, l, p + 1, p, taken, lost')
  <2>1. /\ Covers(TRUE, f, l, p + 1, p, taken, lost \cup bytes)
        /\ Covers(FALSE, f, l, p + 1, p, taken, lost \cup bytes)
    BY <1>2, <1>3, <1>4, CoversDrop
  <2>2. CASE usb_dev' = TRUE
    BY <1>4, <2>1, <2>2
  <2>3. CASE usb_dev' = FALSE
    BY <1>4, <2>1, <2>3
  <2> QED BY <1>3, <2>2, <2>3
<1>6. ReadTypes'
  <2>1. 0 \in Nat /\ 0 + 0 = 0 /\ 0 <= Len(readbuffer)
    BY <1>1 DEF ReadTypes
  <2>2. lost' \subseteq Nat
    BY <1>3, <1>4
  <2>3. readbuffer_chunksize' \in ReadChunks
    BY <1>1 DEF ReadTypes
  <2> QED BY <1>1, <1>3, <2>1, <2>2, <2>3 DEF ReadTypes, KeepNothing
<1>7. CallShape'
  BY <1>1, <1>3 DEF CallShape, KeepNothing
<1>8. Arrival(n)'
  <2>1. CASE reading.flight = "ended"
    BY <1>2, <2>1 DEF Arrival, Answer
  <2>2. CASE reading.flight # "ended"
    BY <1>2, <2>2 DEF Arrival
  <2> QED BY <2>1, <2>2
<1>9. RunOf(Kept', p + 1) /\ readbuffer_remaining' = 0 /\ p - 0 + 1 = p + 1
  <2>1. readbuffer_remaining' = 0
    BY DEF KeepNothing
  <2> QED BY <1>6, <2>1, NothingKept
<1> QED BY <1>2, <1>5, <1>6, <1>7, <1>8, <1>9, ReadNext

(* The bytes stay where they are: out of reach in a device that is closed, *)
(* or back in one that is opened again and not reset.                      *)
LEMMA KeptStays ==
  ASSUME ReadInv, reading.flight = "none",
         UNCHANGED <<bufferVars, readbuffer_chunksize, reading, sent, taken>>,
         \/ Lose(Kept) /\ usb_dev' = FALSE
         \/ lost' = lost \ ToSet(Kept) /\ usb_dev' = TRUE
  PROVE  ReadInv'
<1>1. ReadTypes /\ CallShape
  BY DEF ReadInv
<1>2. PICK n, f, p, l, k \in Nat : Numbers(n, f, p, l, k)
  BY ReadNow
<1>3. taken \in Nat /\ lost \in SUBSET Nat /\ usb_dev \in BOOLEAN /\ usb_dev' \in BOOLEAN
  BY <1>1 DEF ReadTypes
<1>4. /\ ToSet(Kept) \in SUBSET Nat /\ ToSet(Kept) \ {0} = ToSet(Kept)
      /\ \A b \in Nat : b \in ToSet(Kept) <=> k <= b /\ b <= p
  <2> HIDE DEF Numbers
  <2> QED BY <1>1, <1>2, KeptSet
<1>5. Covers(usb_dev', f, l, k, p, taken, lost') /\ lost' \subseteq Nat
  <2>1. CASE Lose(Kept) /\ usb_dev' = FALSE
    <3>1. lost' = lost \cup ToSet(Kept)
      BY <1>4, <2>1 DEF Lose
    <3> HIDE DEF Kept
    <3>2. Covers(FALSE, f, l, k, p, taken, lost \cup ToSet(Kept))
      BY <1>2, <1>3, <1>4, CoversDrop
    <3> QED BY <1>3, <1>4, <2>1, <3>1, <3>2
  <2>2. CASE lost' = lost \ ToSet(Kept) /\ usb_dev' = TRUE
    <3>1. Covers(TRUE, f, l, k, p, taken, lost \ ToSet(Kept))
      BY <1>2, <1>3, <1>4, CoversOpen
    <3> QED BY <1>3, <2>2, <3>1
  <2> QED BY <2>1, <2>2
<1>6. ReadTypes'
  BY <1>1, <1>3, <1>5 DEF ReadTypes, bufferVars
<1>7. CallShape' /\ Arrival(n)' /\ Kept' = Kept
  BY <1>1, <1>2 DEF CallShape, Arrival, Kept, bufferVars
<1> QED BY <1>2, <1>5, <1>6, <1>7, ReadNext DEF bufferVars

LEMMA OpenKeeps == ASSUME ReadInv, NEW t, Open(t) PROVE ReadInv'
<1>1. /\ reading.flight = "none"
      /\ UNCHANGED <<readbuffer, readbuffer_chunksize, reading, sent, taken>>
  BY DEF Open, InFlight, chunkVars
<1>2. CASE NotOpened
  BY <1>1, <1>2, ReadSame DEF NotOpened, bufferVars, readVars
<1>3. CASE HalfOpened
  BY <1>1, <1>3, KeptStays DEF HalfOpened, bufferVars
<1>4. CASE OpenedInVain
  BY <1>1, <1>4, KeptStays DEF OpenedInVain, bufferVars
<1>5. CASE WasReset(t)
  <2>1. Lose(Kept) /\ KeepNothing /\ (usb_dev' = TRUE \/ usb_dev' = FALSE)
    BY <1>5 DEF WasReset
  <2> QED BY <1>1, <2>1, KeptLost
<1> QED BY <1>2, <1>3, <1>4, <1>5 DEF Open

LEMMA CloseKeeps == ASSUME ReadInv, Close PROVE ReadInv'
<1>1. /\ Lose(Kept) /\ usb_dev' = FALSE /\ reading.flight = "none"
      /\ UNCHANGED <<bufferVars, readbuffer_chunksize, reading, sent, taken>>
  BY DEF Close, InFlight, chunkVars
<1> QED BY <1>1, KeptStays

LEMMA PurgeKeeps == ASSUME ReadInv, Purge PROVE ReadInv'
<1>1. /\ Lose(Kept) /\ KeepNothing
      /\ UNCHANGED <<usb_dev, readbuffer, readbuffer_chunksize, reading, sent, taken>>
  BY DEF Purge, chunkVars
<1> QED BY <1>1, KeptLost

LEMMA ChunkKeeps == ASSUME ReadInv, NEW c \in ReadChunks, ReadSetChunksize(c) PROVE ReadInv'
<1>1. /\ Lose(Kept) /\ KeepNothing /\ reading.how = "no" /\ readbuffer_chunksize' = c
      /\ UNCHANGED <<usb_dev, readbuffer, reading, sent, taken>>
  BY DEF ReadSetChunksize
<1>2. reading.flight # "ended"
  BY <1>1 DEF ReadInv, CallShape
<1> QED BY <1>1, <1>2, KeptLost

LEMMA SubmitFailsKeeps == ASSUME ReadInv, NEW size \in ReadSizes, ReadSubmitFails(size) PROVE ReadInv'
<1>1. /\ Lose(Kept) /\ KeepNothing
      /\ UNCHANGED <<usb_dev, readbuffer, readbuffer_chunksize, reading, sent, taken>>
  BY DEF ReadSubmitFails, chunkVars
<1> QED BY <1>1, KeptLost

(* Between two calls.                                                      *)
LEMMA NoCall ==
  ASSUME ReadInv, AsOpened, reading.how = "no"
  PROVE  /\ usb_dev = TRUE /\ reading.flight = "none" /\ reading.buf = <<>>
         /\ \E f, k \in Nat : /\ k = sent - readbuffer_remaining + 1 /\ RunOf(Kept, k)
                              /\ Covers(TRUE, f, 0, k, sent, taken, lost)
<1>1. usb_dev = TRUE
  BY DEF AsOpened, ReadInv, ReadTypes
<1>2. reading.flight = "none" /\ reading.buf = <<>>
  BY DEF ReadInv, CallShape
<1>3. PICK n, f, p, l, k \in Nat : Numbers(n, f, p, l, k)
  BY ReadNow
<1>4. l = 0 /\ n = 0
  BY <1>2, <1>3 DEF Arrival
<1>5. p = sent
  BY <1>3, <1>4
<1>6. Covers(TRUE, f, 0, k, p, taken, lost)
  BY <1>1, <1>3, <1>4
<1> QED BY <1>1, <1>2, <1>3, <1>5, <1>6

(* The bytes kept, and a part of them taken.                               *)
LEMMA TakeKeptIs ==
  ASSUME ReadTypes, NEW size \in Nat, TakeKept(size), UNCHANGED readbuffer,
         NEW k \in Nat, RunOf(Kept, k)
  PROVE  /\ SubSeq(Kept, 1, size) \in Seq(Nat) /\ Len(SubSeq(Kept, 1, size)) = size
         /\ RunOf(SubSeq(Kept, 1, size), k) /\ RunOf(Kept', k + size)
         /\ readbuffer_offset' \in Nat /\ readbuffer_remaining' \in Nat
         /\ readbuffer_remaining' = readbuffer_remaining - size
         /\ readbuffer_offset' + readbuffer_remaining' <= Len(readbuffer)
<1>1. /\ readbuffer_offset \in Nat /\ readbuffer_remaining \in Nat /\ readbuffer \in Seq(Nat)
      /\ readbuffer_offset + readbuffer_remaining <= Len(readbuffer)
  BY DEF ReadTypes
<1>2. /\ size <= readbuffer_remaining
      /\ readbuffer_remaining' = readbuffer_remaining - size
      /\ readbuffer_offset' = readbuffer_offset + size
  BY DEF TakeKept
<1>3. /\ Kept \in Seq(Nat) /\ Len(Kept) = readbuffer_remaining
      /\ \A i \in 1..readbuffer_remaining : Kept[i] = readbuffer[readbuffer_offset + i]
  BY KeptIs
<1>4. /\ SubSeq(Kept, 1, size) \in Seq(Nat) /\ Len(SubSeq(Kept, 1, size)) = size
      /\ RunOf(SubSeq(Kept, 1, size), k)
  BY <1>2, <1>3, RunPart
<1>5. /\ readbuffer_offset' \in Nat /\ readbuffer_remaining' \in Nat
      /\ readbuffer_offset' + readbuffer_remaining' <= Len(readbuffer)
  BY <1>1, <1>2
<1>6. RunOf(Kept', k + size)
  <2>1. Kept' = SubSeq(readbuffer, readbuffer_offset' + 1,
                       readbuffer_offset' + readbuffer_remaining')
    BY DEF Kept
  <2>2. /\ Len(Kept') = readbuffer_remaining'
        /\ \A i \in 1..readbuffer_remaining' : Kept'[i] = readbuffer[readbuffer_offset' + i]
    BY <1>1, <1>5, <2>1, PartIs
  <2>3. ASSUME NEW i \in 1..readbuffer_remaining' PROVE Kept'[i] = k + size + i - 1
    <3>1. size + i \in 1..readbuffer_remaining
      BY <1>1, <1>2
    <3>2. readbuffer_offset' + i = readbuffer_offset + (size + i)
      BY <1>1, <1>2
    <3>3. Kept'[i] = Kept[size + i]
      BY <1>3, <2>2, <3>1, <3>2
    <3>4. Kept[size + i] = k + (size + i) - 1
      BY <1>3, <3>1 DEF RunOf
    <3> QED BY <1>1, <3>3, <3>4
  <2> QED BY <2>2, <2>3 DEF RunOf
<1> QED BY <1>2, <1>4, <1>5, <1>6

LEMMA ReadKeptKeeps ==
  ASSUME ReadInv, NEW size \in Nat, ReadKept(size) PROVE ReadInv' /\ taken <= taken'
<1> DEFINE part == SubSeq(Kept, 1, size)
<1>1. /\ AsOpened /\ reading.how = "no" /\ TakeKept(size) /\ Returned(part)
      /\ UNCHANGED <<usb_dev, readbuffer, readbuffer_chunksize, reading, sent>>
  BY DEF ReadKept, chunkVars
<1>2. ReadTypes /\ CallShape
  BY DEF ReadInv
<1>3. usb_dev = TRUE /\ reading.flight = "none" /\ reading.buf = <<>>
  BY <1>1, NoCall
<1>4. PICK f, k \in Nat : /\ k = sent - readbuffer_remaining + 1 /\ RunOf(Kept, k)
                          /\ Covers(TRUE, f, 0, k, sent, taken, lost)
  BY <1>1, NoCall
<1>5. /\ part \in Seq(Nat) /\ Len(part) = size
      /\ RunOf(part, k) /\ RunOf(Kept', k + size)
      /\ readbuffer_offset' \in Nat /\ readbuffer_remaining' \in Nat
      /\ readbuffer_remaining' = readbuffer_remaining - size
      /\ readbuffer_offset' + readbuffer_remaining' <= Len(readbuffer)
  BY <1>1, <1>2, <1>4, TakeKeptIs
<1> HIDE DEF part
<1>6. /\ taken \in Nat /\ lost \in SUBSET Nat /\ readbuffer_remaining \in Nat
      /\ sent \in Nat
  BY <1>2 DEF ReadTypes
<1>7. Covers(TRUE, k, size, k + size, sent, taken, lost)
  <2>1. size <= sent - k + 1
    BY <1>4, <1>5, <1>6
  <2> QED BY <1>4, <1>6, <2>1, CoversTake
<1>8. /\ taken' \in Nat /\ taken' = IF size = 0 THEN taken ELSE k + size - 1
      /\ taken <= taken'
  <2>1. taken < k
    BY <1>6, <1>7 DEF Covers
  <2>2. taken' \in Nat /\ taken' = IF size = 0 THEN taken ELSE k + size - 1
    BY <1>1, <1>5, <1>6, <2>1, RunLast DEF Returned
  <2> QED BY <1>6, <2>1, <2>2
<1>9. lost' \in SUBSET Nat /\ \A b \in Nat : b \in lost' <=> b \in lost /\ b > taken'
  BY <1>1, <1>6 DEF Returned
<1>10. Covers(TRUE, k + size, 0, k + size, sent, taken', lost')
  <2>1. k + size \in Nat
    OBVIOUS
  <2> QED BY <1>6, <1>7, <1>8, <1>9, <2>1, CoversReturn
<1>11. ReadTypes' /\ CallShape'
  <2>1. lost' \subseteq Nat
    BY <1>6, <1>9
  <2>2. CallShape'
    BY <1>1, <1>2, <1>3 DEF CallShape
  <2> QED BY <1>1, <1>2, <1>5, <1>8, <2>1, <2>2 DEF ReadTypes
<1>12. Arrival(0)' /\ sent + 0 = sent'
  BY <1>1, <1>3, <1>6 DEF Arrival
<1>13. /\ RunOf(reading'.buf, k + size) /\ Len(reading'.buf) = 0 /\ reading'.flight = "none"
       /\ sent - readbuffer_remaining' + 1 = k + size /\ k + size \in Nat
  <2>1. reading'.buf = <<>> /\ Len(<<>>) = 0
    BY <1>1, <1>3
  <2>2. sent - readbuffer_remaining' + 1 = k + size
    BY <1>4, <1>5, <1>6
  <2> QED BY <1>1, <1>3, <2>1, <2>2 DEF RunOf
<1> QED BY <1>1, <1>3, <1>5, <1>6, <1>8, <1>10, <1>11, <1>12, <1>13, ReadNext

LEMMA SubmitKeptKeeps == ASSUME ReadInv, NEW size \in Nat, ReadSubmitKept(size) PROVE ReadInv'
<1> DEFINE part == SubSeq(Kept, 1, size)
<1>1. /\ AsOpened /\ reading.how = "no" /\ TakeKept(size)
      /\ reading' = [NoRead EXCEPT !.how = "async", !.size = size, !.completed = TRUE,
                                   !.buf = part]
      /\ UNCHANGED <<usb_dev, readbuffer, readbuffer_chunksize, sent, taken, lost>>
  BY DEF ReadSubmitKept, chunkVars
<1>2. ReadTypes /\ CallShape
  BY DEF ReadInv
<1>3. usb_dev = TRUE /\ reading.flight = "none" /\ reading.buf = <<>>
  BY <1>1, NoCall
<1>4. PICK f, k \in Nat : /\ k = sent - readbuffer_remaining + 1 /\ RunOf(Kept, k)
                          /\ Covers(TRUE, f, 0, k, sent, taken, lost)
  BY <1>1, NoCall
<1>5. /\ part \in Seq(Nat) /\ Len(part) = size
      /\ RunOf(part, k) /\ RunOf(Kept', k + size)
      /\ readbuffer_offset' \in Nat /\ readbuffer_remaining' \in Nat
      /\ readbuffer_remaining' = readbuffer_remaining - size
      /\ readbuffer_offset' + readbuffer_remaining' <= Len(readbuffer)
  BY <1>1, <1>2, <1>4, TakeKeptIs
<1> HIDE DEF part
<1>6. /\ taken \in Nat /\ lost \in SUBSET Nat /\ readbuffer_remaining \in Nat
      /\ sent \in Nat
  BY <1>2 DEF ReadTypes
<1>7. Covers(TRUE, k, size, k + size, sent, taken, lost)
  <2>1. size <= sent - k + 1
    BY <1>4, <1>5, <1>6
  <2> QED BY <1>4, <1>6, <2>1, CoversTake
<1>8. /\ reading' \in Reads /\ reading'.how = "async" /\ reading'.size = size
      /\ reading'.buf = part /\ reading'.completed = TRUE /\ reading'.flight = "none"
  BY <1>1, <1>5 DEF NoRead, Reads
<1>9. ReadTypes' /\ CallShape'
  <2>1. CallShape'
    BY <1>5, <1>8 DEF CallShape
  <2> QED BY <1>1, <1>2, <1>5, <1>8, <2>1 DEF ReadTypes
<1>10. Arrival(0)' /\ sent + 0 = sent'
  BY <1>1, <1>6, <1>8 DEF Arrival
<1>11. sent - readbuffer_remaining' + 1 = k + size
  BY <1>4, <1>5, <1>6
<1>12. /\ RunOf(reading'.buf, k) /\ Len(reading'.buf) = size /\ reading'.flight = "none"
       /\ RunOf(Kept', sent - readbuffer_remaining' + 1)
       /\ Covers(usb_dev', k, Len(reading'.buf), sent - readbuffer_remaining' + 1, sent,
                 taken', lost')
  BY <1>1, <1>3, <1>5, <1>7, <1>8, <1>11
<1> QED BY <1>6, <1>9, <1>10, <1>12, ReadNext

LEMMA BeginsKeeps ==
  ASSUME ReadInv, NEW size \in Nat, NEW how \in {"sync", "async"}, ReadBegins(how, size)
  PROVE  ReadInv'
<1>1. /\ AsOpened /\ reading.how = "no" /\ size > readbuffer_remaining /\ KeepNothing
      /\ reading' = [NoRead EXCEPT !.how = how, !.size = size, !.buf = Kept,
                                   !.flight = "queued"]
      /\ UNCHANGED <<usb_dev, readbuffer, readbuffer_chunksize, sent, taken, lost>>
  BY DEF ReadBegins, Begin, chunkVars
<1>2. ReadTypes /\ CallShape
  BY DEF ReadInv
<1>3. usb_dev = TRUE /\ reading.flight = "none" /\ reading.buf = <<>>
  BY <1>1, NoCall
<1>4. PICK f, k \in Nat : /\ k = sent - readbuffer_remaining + 1 /\ RunOf(Kept, k)
                          /\ Covers(TRUE, f, 0, k, sent, taken, lost)
  BY <1>1, NoCall
<1>5. Kept \in Seq(Nat) /\ Len(Kept) = readbuffer_remaining
  BY <1>2, KeptIs
<1>6. /\ taken \in Nat /\ lost \in SUBSET Nat /\ readbuffer_remaining \in Nat
      /\ sent \in Nat
  BY <1>2 DEF ReadTypes
<1>7. Covers(TRUE, k, readbuffer_remaining, sent + 1, sent, taken, lost)
  <2>1. readbuffer_remaining <= sent - k + 1 /\ k + readbuffer_remaining = sent + 1
    BY <1>4, <1>6
  <2>2. Covers(TRUE, k, readbuffer_remaining, k + readbuffer_remaining, sent, taken, lost)
    BY <1>4, <1>6, <2>1, CoversTake
  <2> QED BY <2>1, <2>2
<1>8. /\ reading' \in Reads /\ reading'.how = how /\ reading'.size = size
      /\ reading'.buf = Kept /\ reading'.completed = FALSE /\ reading'.flight = "queued"
  BY <1>1, <1>5 DEF NoRead, Reads
<1>9. ReadTypes'
  <2>1. 0 \in Nat /\ 0 + 0 = 0 /\ 0 <= Len(readbuffer)
    BY <1>2 DEF ReadTypes
  <2> QED BY <1>1, <1>2, <1>8, <2>1 DEF ReadTypes, KeepNothing
<1>10. CallShape'
  BY <1>1, <1>3, <1>5, <1>6, <1>8 DEF CallShape, KeepNothing
<1>11. Arrival(0)' /\ sent + 0 = sent'
  BY <1>1, <1>6, <1>8 DEF Arrival
<1>12. /\ readbuffer_remaining' = 0 /\ sent - 0 + 1 = sent + 1
       /\ k + readbuffer_remaining = sent + 1
  BY <1>1, <1>4, <1>6 DEF KeepNothing
<1>13. RunOf(Kept', sent + 1) /\ sent + 1 \in Nat
  BY <1>6, <1>9, <1>12, NothingKept
<1> QED BY <1>1, <1>3, <1>4, <1>5, <1>6, <1>7, <1>8, <1>9, <1>10, <1>11, <1>12, <1>13,
        ReadNext

LEMMA EndsKeeps == ASSUME ReadInv, ReadEnds PROVE ReadInv'
<1>1. PICK n \in 0..(MaxSent - sent), s \in {"COMPLETED", "TIMED_OUT"} :
        LET length == LengthOf(n, readbuffer_chunksize, s)
        IN  /\ length <= readbuffer_chunksize
            /\ s = "TIMED_OUT" => n % Payload = 0
            /\ readbuffer' = Packets(sent + 1, n, length)
            /\ reading' = [reading EXCEPT !.flight = "ended", !.length = length,
                                          !.status = s]
            /\ sent' = sent + n
  BY DEF ReadEnds
<1>2. /\ reading.flight = "queued"
      /\ UNCHANGED <<usb_dev, readbuffer_offset, readbuffer_remaining, readbuffer_chunksize,
                     taken, lost>>
  BY DEF ReadEnds, chunkVars
<1>3. ReadTypes /\ CallShape
  BY DEF ReadInv
<1>4. PICK m, f, p, l, k \in Nat : Numbers(m, f, p, l, k)
  BY ReadNow
<1>5. m = 0
  BY <1>2, <1>4 DEF Arrival
<1>6. p = sent /\ usb_dev /\ f + l = p + 1 /\ k = p + 1
  BY <1>2, <1>4, <1>5
<1>7. n \in Nat /\ p + n = sent' /\ sent \in Nat /\ readbuffer_chunksize \in ReadChunks
  BY <1>1, <1>3, <1>6 DEF ReadTypes
<1> DEFINE length == LengthOf(n, readbuffer_chunksize, s)
<1>8. /\ length \in Nat /\ length <= readbuffer_chunksize
      /\ readbuffer' \in Seq(Nat) /\ Len(readbuffer') = length
  BY <1>1, <1>3, <1>7, FreshAnswer
<1>9. /\ reading' \in Reads /\ reading'.how = reading.how /\ reading'.size = reading.size
      /\ reading'.buf = reading.buf /\ reading'.completed = reading.completed
      /\ reading'.flight = "ended" /\ reading'.length = length /\ reading'.status = s
  <2>1. reading \in Reads
    BY <1>3 DEF ReadTypes
  <2>2. reading' = [reading EXCEPT !.flight = "ended", !.length = length, !.status = s]
    BY <1>1
  <2> HIDE DEF length
  <2> QED BY <1>8, <2>1, <2>2 DEF Reads
<1>10. Arrival(n)'
  <2>1. sent' - n + 1 = sent + 1
    BY <1>6, <1>7
  <2>2. readbuffer' = Packets(sent' - n + 1, n, reading'.length)
    BY <1>1, <1>9, <2>1
  <2>3. reading'.length = LengthOf(n, readbuffer_chunksize', reading'.status)
    BY <1>2, <1>9
  <2>4. /\ reading'.length <= readbuffer_chunksize'
        /\ reading'.status = "TIMED_OUT" => n % Payload = 0
    BY <1>1, <1>2, <1>8, <1>9
  <2> QED BY <1>9, <2>2, <2>3, <2>4 DEF Arrival, Answer
<1> HIDE DEF length
<1>11. /\ readbuffer_offset' = 0 /\ readbuffer_remaining' = 0
       /\ reading'.completed = FALSE /\ reading'.how # "no"
  <2>1. reading \in Reads
    BY <1>3 DEF ReadTypes
  <2> QED BY <1>2, <1>3, <1>9, <2>1 DEF CallShape, Reads
<1>12. ReadTypes'
  <2>1. 0 \in Nat /\ 0 + 0 = 0 /\ 0 <= Len(readbuffer')
    BY <1>8
  <2>2. \E c \in ReadChunks : Len(readbuffer') <= c
    BY <1>7, <1>8
  <2>3. sent' \in Nat
    BY <1>6, <1>7
  <2> QED BY <1>2, <1>3, <1>8, <1>9, <1>11, <2>1, <2>2, <2>3 DEF ReadTypes
<1>13. CallShape'
  BY <1>2, <1>3, <1>6, <1>9, <1>11 DEF CallShape
<1>14. RunOf(Kept', p + 1) /\ p + 1 \in Nat /\ p - 0 + 1 = p + 1
  BY <1>11, <1>12, NothingKept
<1> QED BY <1>2, <1>4, <1>6, <1>7, <1>9, <1>10, <1>11, <1>12, <1>13, <1>14, ReadNext

(* All the bytes of an answer are in the buffer.                           *)
LEMMA AnswerSet ==
  ASSUME NEW buffer, NEW f, NEW n, NEW length, PacketsOf(buffer, f, n, length), f > 0,
         n = 0 \/ length > 2
  PROVE  /\ ToSet(buffer) \subseteq Nat
         /\ \A b \in Nat : b \in ToSet(buffer) \ {0} <=> f <= b /\ b < f + n
<1>1. /\ f \in Nat /\ n \in Nat /\ length \in Nat /\ buffer \in Seq(Nat) /\ Len(buffer) = length
      /\ \A j \in 1..length : buffer[j] = 0 \/ (f <= buffer[j] /\ buffer[j] < f + n)
  BY PacketsInOrder DEF PacketsOf
<1>2. ToSet(buffer) = {buffer[j] : j \in 1..length}
  BY <1>1 DEF ToSet
<1>3. \A j \in 1..length : buffer[j] \in Nat
  BY <1>1, ElementOfSeq
<1>4. ASSUME NEW b \in ToSet(buffer) \ {0} PROVE f <= b /\ b < f + n
  BY <1>1, <1>2
<1>5. ASSUME NEW b \in Nat, f <= b, b < f + n PROVE b \in ToSet(buffer) \ {0}
  <2>1. length > 2
    BY <1>1, <1>5
  <2>2. PICK m \in Nat : m < n /\ b = f + m
    <3>1. b - f \in Nat /\ b - f < n /\ b = f + (b - f)
      BY <1>1, <1>5
    <3> QED BY <3>1
  <2>3. Moved(buffer, length)[3 + m] = b
    BY <2>1, <2>2, MovedIs
  <2>4. 3 + m \in 1..length
    <3>1. n + 2 <= length
      BY <2>1, StrippedIs
    <3> QED BY <1>1, <2>2, <3>1
  <2>5. \E j \in 1..length : Moved(buffer, length)[3 + m] = buffer[j]
    BY <2>1, <2>4, MovedIs
  <2> QED BY <1>1, <1>2, <1>5, <2>3, <2>5
<1> QED BY <1>2, <1>3, <1>4, <1>5

(* What has come, of which m bytes are for the caller.                     *)
Came(n, f, p, l, m) ==
  /\ p + n = sent /\ m <= n /\ m = IF Fits THEN n ELSE Room
  /\ l = Len(reading.buf) /\ l + m <= reading.size /\ f + l = p + 1
  /\ Filled \in Seq(Nat) /\ Len(Filled) = l + m /\ RunOf(Filled, f)
  /\ Len(Received) = n /\ (reading.length <= 2 <=> n = 0)
  /\ Covers(TRUE, f, l + m, p + m + 1, sent, taken, lost)

LEMMA AnswerNow ==
  ASSUME ReadInv, reading.flight = "ended"
  PROVE  /\ usb_dev = TRUE /\ readbuffer_offset = 0 /\ readbuffer_remaining = 0
         /\ Room \in Nat
         /\ \E n, f, p, l, m \in Nat : Answer(n) /\ RunOf(reading.buf, f) /\ Came(n, f, p, l, m)
<1>1. ReadTypes /\ CallShape
  BY DEF ReadInv
<1>2. usb_dev = TRUE /\ readbuffer_offset = 0 /\ readbuffer_remaining = 0
  BY <1>1 DEF ReadTypes, CallShape
<1>3. PICK n, f, p, l, k \in Nat : Numbers(n, f, p, l, k)
  BY ReadNow
<1>4. Answer(n) /\ f + l = p + 1 /\ k = p + 1 /\ l = Len(reading.buf)
      /\ reading.buf \in Seq(Nat) /\ RunOf(reading.buf, f) /\ p + n = sent
  BY <1>3 DEF Arrival
<1>5. taken \in Nat /\ lost \in SUBSET Nat /\ sent \in Nat /\ n <= sent
  BY <1>1, <1>4 DEF ReadTypes
<1>6. /\ Received \in Seq(Nat) /\ Len(Received) = n /\ RunOf(Received, sent - n + 1)
      /\ reading.length <= 2 <=> n = 0
  BY <1>1, <1>4, <1>5, AnswerIs
<1>7. Room \in Nat /\ Room = reading.size - l /\ reading.size \in Nat
  BY <1>1, <1>4 DEF ReadTypes, CallShape, Reads, Room
<1> DEFINE m == IF Fits THEN n ELSE Room
<1>8. m \in Nat /\ m <= n /\ l + m <= reading.size
  BY <1>4, <1>6, <1>7, SMTT(30) DEF Fits
<1>9. /\ Filled \in Seq(Nat) /\ Len(Filled) = l + m /\ RunOf(Filled, f)
  <2>1. RunOf(Received, f + l)
    <3>1. sent - n + 1 = f + l
      BY <1>4, <1>5
    <3> QED BY <1>6, <3>1
  <2>2. CASE Fits
    BY <1>4, <1>6, <2>1, <2>2, RunConcat DEF Filled
  <2>3. CASE ~Fits
    <3>1. Room <= Len(Received)
      BY <1>6, <1>8, <2>3
    <3>2. /\ SubSeq(Received, 1, Room) \in Seq(Nat) /\ Len(SubSeq(Received, 1, Room)) = Room
          /\ RunOf(SubSeq(Received, 1, Room), f + l)
      BY <1>6, <1>7, <2>1, <3>1, RunPart, SMTT(30)
    <3> QED BY <1>4, <2>3, <3>2, RunConcat DEF Filled
  <2> QED BY <2>2, <2>3
<1>10. m = IF Fits THEN n ELSE Room
  OBVIOUS
<1> HIDE DEF m
<1>11. Covers(TRUE, f, l + m, p + m + 1, sent, taken, lost)
  <2>1. Covers(TRUE, f, l, p + 1, p, taken, lost)
    BY <1>2, <1>3, <1>4
  <2>2. Covers(TRUE, f, l + m, p + m + 1, p + n, taken, lost)
    BY <1>4, <1>5, <1>8, <2>1, CoversCome
  <2> QED BY <1>4, <2>2
<1>12. Came(n, f, p, l, m)
  BY <1>4, <1>6, <1>8, <1>9, <1>10, <1>11 DEF Came
<1> QED BY <1>2, <1>4, <1>7, <1>8, <1>12

(* What KeepRest keeps.                                                    *)
LEMMA KeepRestIs ==
  ASSUME ReadTypes, KeepRest, reading.length > 2, ~Fits, Room \in Nat,
         NEW n \in Nat, NEW p \in Nat, Answer(n), p + n = sent, Len(Received) = n
  PROVE  /\ readbuffer' \in Seq(Nat) /\ Len(readbuffer') = Len(readbuffer)
         /\ readbuffer_offset' \in Nat /\ readbuffer_remaining' \in Nat
         /\ readbuffer_remaining' = n - Room
         /\ readbuffer_offset' + readbuffer_remaining' <= Len(readbuffer')
         /\ RunOf(Kept', p + Room + 1)
<1> DEFINE moved == Moved(readbuffer, reading.length)
<1>1. n <= sent /\ sent - n + 1 = p + 1
  OBVIOUS
<1>2. /\ moved \in Seq(Nat) /\ Len(moved) = reading.length /\ n + 2 <= reading.length
      /\ \A i \in Nat : i < n => moved[3 + i] = p + 1 + i
      /\ Len(readbuffer) = reading.length
  <2>1. /\ moved \in Seq(Nat) /\ Len(moved) = reading.length /\ n + 2 <= reading.length
        /\ Len(readbuffer) = reading.length
    BY <1>1, AnswerIs, SMTT(30)
  <2>2. \A i \in Nat : i < n => moved[3 + i] = sent - n + 1 + i
    BY <1>1, AnswerIs, SMTT(30)
  <2> HIDE DEF moved
  <2> QED BY <1>1, <2>1, <2>2
<1>3. readbuffer' = moved /\ readbuffer_offset' = 2 + Room /\ readbuffer_remaining' = n - Room
  BY DEF KeepRest
<1>4. n > Room
  BY DEF Fits
<1>5. /\ readbuffer_offset' \in Nat /\ readbuffer_remaining' \in Nat
      /\ readbuffer_offset' + readbuffer_remaining' <= Len(readbuffer')
  BY <1>2, <1>3, <1>4
<1> HIDE DEF moved
<1>6. RunOf(Kept', p + Room + 1)
  <2>1. Kept' = SubSeq(moved, readbuffer_offset' + 1,
                       readbuffer_offset' + readbuffer_remaining')
    BY <1>3 DEF Kept
  <2>2. /\ Len(Kept') = readbuffer_remaining'
        /\ \A i \in 1..readbuffer_remaining' : Kept'[i] = moved[readbuffer_offset' + i]
    BY <1>2, <1>3, <1>5, <2>1, PartIs
  <2>3. ASSUME NEW i \in 1..readbuffer_remaining' PROVE Kept'[i] = p + Room + 1 + i - 1
    <3>1. Room + i - 1 \in Nat /\ Room + i - 1 < n /\ readbuffer_offset' + i = 3 + (Room + i - 1)
      BY <1>3, <1>4
    <3>2. moved[3 + (Room + i - 1)] = p + 1 + (Room + i - 1)
      BY <1>2, <3>1
    <3> QED BY <2>2, <3>1, <3>2
  <2> QED BY <2>2, <2>3 DEF RunOf
<1> QED BY <1>2, <1>3, <1>5, <1>6

LEMMA NoReadIs == /\ NoRead \in Reads /\ NoRead.how = "no" /\ NoRead.flight = "none"
                  /\ NoRead.buf = <<>> /\ NoRead.completed = FALSE /\ NoRead.size = 0
                  /\ Len(NoRead.buf) = 0 /\ \A f \in Nat : RunOf(NoRead.buf, f)
<1>1. <<>> \in Seq(Nat) /\ Len(<<>>) = 0
  OBVIOUS
<1> QED BY <1>1 DEF NoRead, Reads, RunOf

(* The call is over.                                                       *)
LEMMA CallOver ==
  ASSUME ReadTypes', reading' = NoRead, NEW k \in Nat, k = sent' - readbuffer_remaining' + 1,
         RunOf(Kept', k), Covers(usb_dev', k, 0, k, sent', taken', lost')
  PROVE  ReadInv'
<1>1. CallShape'
  BY NoReadIs DEF CallShape
<1>2. Arrival(0)' /\ sent' \in Nat /\ sent' + 0 = sent'
  <2>1. reading'.flight = "none" /\ sent' \in Nat
    BY NoReadIs DEF ReadTypes
  <2>2. Arrival(0)'
    BY <2>1 DEF Arrival
  <2>3. PICK x \in Nat : x = sent'
    BY <2>1
  <2>4. x + 0 = x
    OBVIOUS
  <2> QED BY <2>1, <2>2, <2>3, <2>4
<1>3. Len(reading'.buf) = 0 /\ RunOf(reading'.buf, k) /\ reading'.flight = "none"
  BY NoReadIs
<1> QED BY <1>1, <1>2, <1>3, ReadNext

(* What Returned() makes of a run.                                         *)
LEMMA ReturnedIs ==
  ASSUME NEW open \in BOOLEAN, NEW f \in Nat, NEW k \in Nat, NEW p \in Nat,
         taken \in Nat, lost \in SUBSET Nat, NEW buf \in Seq(Nat), RunOf(buf, f),
         Returned(buf),
         NEW l \in Nat, l = Len(buf), Covers(open, f, l, k, p, taken, lost)
  PROVE  /\ taken' \in Nat /\ lost' \in SUBSET Nat /\ taken <= taken'
         /\ Covers(open, k, 0, k, p, taken', lost')
<1>1. taken < f
  BY DEF Covers
<1>2. taken' \in Nat /\ taken' = IF l = 0 THEN taken ELSE f + l - 1
  BY <1>1, RunLast DEF Returned
<1>3. lost' \in SUBSET Nat /\ \A b \in Nat : b \in lost' <=> b \in lost /\ b > taken'
  BY DEF Returned
<1>4. taken <= taken'
  BY <1>1, <1>2
<1> QED BY <1>2, <1>3, <1>4, CoversReturn

LEMMA FailsKeeps == ASSUME ReadInv, ReadFails PROVE ReadInv'
<1>1. /\ reading.flight = "ended" /\ reading' = NoRead /\ Lose(reading.buf \o readbuffer)
      /\ UNCHANGED <<usb_dev, readbuffer, readbuffer_offset, readbuffer_remaining,
                     readbuffer_chunksize, sent, taken>>
  BY DEF ReadFails, SyncAnswered, bufferVars, chunkVars
<1>2. ReadTypes
  BY DEF ReadInv
<1>3. usb_dev = TRUE /\ readbuffer_offset = 0 /\ readbuffer_remaining = 0
  BY <1>1, AnswerNow
<1>4. PICK n, f, p, l, k \in Nat : Numbers(n, f, p, l, k)
  BY ReadNow
<1>5. Answer(n) /\ f + l = p + 1 /\ k = p + 1 /\ p + n = sent
  BY <1>1, <1>4 DEF Arrival
<1>6. taken \in Nat /\ lost \in SUBSET Nat /\ sent \in Nat /\ n <= sent
      /\ sent - n + 1 = p + 1 /\ readbuffer \in Seq(Nat)
  BY <1>2, <1>5 DEF ReadTypes
<1>7. PacketsOf(readbuffer, p + 1, n, reading.length) /\ (reading.length <= 2 <=> n = 0)
  BY <1>2, <1>5, <1>6, AnswerIs
<1>8. n = 0 \/ reading.length > 2
  <2>1. reading.length \in Nat
    BY <1>7 DEF PacketsOf
  <2> QED BY <1>7, <2>1
<1> DEFINE bytes == ToSet(reading.buf \o readbuffer) \ {0}
<1>9. bytes \in SUBSET Nat /\ \A b \in Nat : b \in bytes <=> f <= b /\ b < f + (l + n)
  <2>1. /\ ToSet(readbuffer) \subseteq Nat
        /\ \A b \in Nat : b \in ToSet(readbuffer) \ {0} <=> p + 1 <= b /\ b < p + 1 + n
    BY <1>7, <1>8, AnswerSet
  <2>2. /\ ToSet(reading.buf) \subseteq Nat
        /\ \A b \in Nat : b \in ToSet(reading.buf) <=> f <= b /\ b < f + l
    BY <1>4, RunSet
  <2>3. ToSet(reading.buf \o readbuffer) = ToSet(reading.buf) \cup ToSet(readbuffer)
    <3>1. reading.buf \in Seq(Nat) /\ readbuffer \in Seq(Nat)
      BY <1>4, <1>6
    <3>2. Range(reading.buf \o readbuffer) = Range(reading.buf) \cup Range(readbuffer)
      BY <3>1, RangeConcatenation
    <3> QED BY <3>2 DEF ToSet, Range
  <2>4. f > 0
    BY <1>4, <1>6 DEF Covers
  <2> QED BY <1>5, <2>1, <2>2, <2>3, <2>4
<1>10. lost' = lost \cup bytes
  BY <1>1 DEF Lose
<1> HIDE DEF bytes
<1>11. Covers(TRUE, f, l + n, p + n + 1, p + n, taken, lost)
  <2>1. Covers(TRUE, f, l, p + 1, p, taken, lost)
    BY <1>3, <1>4, <1>5
  <2>2. f + l = p + 1 /\ n <= n
    BY <1>5
  <2> QED BY ONLY <1>6, <2>1, <2>2, CoversCome, f \in Nat, l \in Nat, p \in Nat, n \in Nat
<1>12. Covers(TRUE, sent + 1, 0, sent + 1, sent, taken, lost')
  <2>1. p + n + 1 \in Nat /\ l + n \in Nat /\ p + n \in Nat
    OBVIOUS
  <2>2. Covers(TRUE, p + n + 1, 0, p + n + 1, p + n, taken, lost \cup bytes)
    BY <1>6, <1>9, <1>11, <2>1, CoversLose
  <2> QED BY <1>5, <1>10, <2>2
<1>13. ReadTypes'
  <2>1. lost' \subseteq Nat
    BY <1>6, <1>9, <1>10
  <2> QED BY <1>1, <1>2, <2>1, NoReadIs DEF ReadTypes
<1>14. readbuffer_remaining' = 0 /\ sent + 1 \in Nat /\ sent' - 0 + 1 = sent + 1 /\ sent' = sent
  BY <1>1, <1>3, <1>6
<1>15. RunOf(Kept', sent + 1)
  BY <1>13, <1>14, NothingKept
<1> QED BY <1>1, <1>3, <1>12, <1>13, <1>14, <1>15, CallOver

(* A packet that does not fit takes the bytes of the call with it.         *)
LEMMA OverflowsKeeps == ASSUME ReadInv, ReadOverflows PROVE ReadInv'
<1>1. /\ reading.flight = "queued" /\ reading' = NoRead
      /\ UNCHANGED <<usb_dev, readbuffer, readbuffer_offset, readbuffer_remaining,
                     readbuffer_chunksize, taken>>
  BY DEF ReadOverflows, bufferVars, chunkVars
<1>2. PICK n \in 0..(MaxSent - sent) :
        sent' = sent + n /\ lost' = lost \cup ToSet(reading.buf) \cup (sent + 1)..sent'
  BY DEF ReadOverflows
<1>3. ReadTypes /\ CallShape
  BY DEF ReadInv
<1>4. PICK m, f, p, l, k \in Nat : Numbers(m, f, p, l, k)
  BY ReadNow
<1>5. m = 0
  BY <1>1, <1>4 DEF Arrival
<1>6. p = sent /\ usb_dev = TRUE /\ f + l = p + 1 /\ k = p + 1
  <2>1. usb_dev \in BOOLEAN
    BY <1>3 DEF ReadTypes
  <2> QED BY <1>1, <1>4, <1>5, <2>1
<1>7. n \in Nat /\ sent \in Nat /\ taken \in Nat /\ lost \in SUBSET Nat
      /\ readbuffer_remaining = 0 /\ p + n = sent'
  BY <1>1, <1>2, <1>3, <1>6 DEF ReadTypes, CallShape
<1> DEFINE bytes == ToSet(reading.buf) \cup (p + 1)..(p + n)
<1>8. bytes \in SUBSET Nat /\ \A b \in Nat : b \in bytes <=> f <= b /\ b < f + (l + n)
  <2>1. /\ ToSet(reading.buf) \subseteq Nat
        /\ \A b \in Nat : b \in ToSet(reading.buf) <=> f <= b /\ b < f + l
    BY <1>4, RunSet
  <2> QED BY <1>6, <2>1
<1>9. lost' = lost \cup bytes
  BY <1>2, <1>6, <1>7
<1> HIDE DEF bytes
<1>10. Covers(TRUE, f, l + n, p + n + 1, p + n, taken, lost)
  <2>1. Covers(TRUE, f, l, p + 1, p, taken, lost)
    BY <1>4, <1>6
  <2>2. f + l = p + 1 /\ n <= n
    BY <1>6, <1>7
  <2> QED BY ONLY <1>7, <2>1, <2>2, CoversCome, f \in Nat, l \in Nat, p \in Nat, n \in Nat
<1>11. Covers(TRUE, p + n + 1, 0, p + n + 1, p + n, taken, lost')
  <2>1. p + n + 1 \in Nat /\ l + n \in Nat /\ p + n \in Nat
    BY <1>7
  <2>2. Covers(TRUE, p + n + 1, 0, p + n + 1, p + n, taken, lost \cup bytes)
    BY <1>7, <1>8, <1>10, <2>1, CoversLose
  <2> QED BY <1>9, <2>2
<1>12. ReadTypes'
  <2>1. lost' \subseteq Nat
    BY <1>7, <1>8, <1>9
  <2>2. sent' \in Nat
    BY <1>7
  <2> QED BY <1>1, <1>3, <2>1, <2>2, NoReadIs DEF ReadTypes
<1>13. p + n + 1 \in Nat /\ p + n + 1 = sent' - readbuffer_remaining' + 1
       /\ readbuffer_remaining' = 0
  BY <1>1, <1>7
<1>14. RunOf(Kept', p + n + 1)
  BY <1>12, <1>13, NothingKept
<1>15. Covers(usb_dev', p + n + 1, 0, p + n + 1, sent', taken', lost')
  BY <1>1, <1>6, <1>7, <1>11
<1> QED BY <1>1, <1>12, <1>13, <1>14, <1>15, CallOver

LEMMA DoneKeeps == ASSUME ReadInv, ReadDone PROVE ReadInv' /\ taken <= taken'
<1>1. /\ reading.completed /\ reading' = NoRead
      /\ UNCHANGED <<usb_dev, readbuffer, readbuffer_offset, readbuffer_remaining,
                     readbuffer_chunksize, sent>>
      /\ Returned(reading.buf) \/ (Lose(reading.buf) /\ UNCHANGED taken)
  BY DEF ReadDone, bufferVars, chunkVars
<1>2. ReadTypes /\ reading.flight = "none"
  BY <1>1 DEF ReadInv, CallShape
<1>3. PICK n, f, p, l, k \in Nat : Numbers(n, f, p, l, k)
  BY ReadNow
<1>4. n = 0
  BY <1>2, <1>3 DEF Arrival
<1>5. p = sent
  BY <1>3, <1>4
<1>6. taken \in Nat /\ lost \in SUBSET Nat /\ sent \in Nat /\ usb_dev \in BOOLEAN
      /\ reading.buf \in Seq(Nat) /\ l = Len(reading.buf) /\ RunOf(reading.buf, f)
  BY <1>2, <1>3 DEF ReadTypes
<1>7. /\ taken' \in Nat /\ lost' \in SUBSET Nat /\ taken <= taken'
      /\ Covers(usb_dev, k, 0, k, p, taken', lost')
  <2>1. CASE Returned(reading.buf)
    BY <1>3, <1>6, <2>1, ReturnedIs
  <2>2. CASE Lose(reading.buf) /\ UNCHANGED taken
    <3> DEFINE bytes == ToSet(reading.buf) \ {0}
    <3>1. f > 0
      BY <1>3, <1>6 DEF Covers
    <3>2. bytes \in SUBSET Nat /\ \A b \in Nat : b \in bytes <=> f <= b /\ b < f + l
      BY <1>6, <3>1, RunSet
    <3>3. lost' = lost \cup bytes
      BY <2>2 DEF Lose
    <3> HIDE DEF bytes
    <3>4. Covers(usb_dev, k, 0, k, p, taken, lost \cup bytes)
      BY <1>3, <1>6, <3>2, CoversLose
    <3> QED BY <1>6, <2>2, <3>2, <3>3, <3>4
  <2> QED BY <1>1, <2>1, <2>2
<1>8. ReadTypes'
  BY <1>1, <1>2, <1>7, NoReadIs DEF ReadTypes
<1>9. RunOf(Kept', k) /\ k = sent' - readbuffer_remaining' + 1
  <2>1. Kept' = Kept
    BY <1>1 DEF Kept
  <2> QED BY <1>1, <1>3, <1>5, <2>1
<1>10. Covers(usb_dev', k, 0, k, sent', taken', lost')
  BY <1>1, <1>5, <1>7
<1> QED BY <1>1, <1>7, <1>8, <1>9, <1>10, CallOver

LEMMA ReturnsKeeps == ASSUME ReadInv, ReadReturns PROVE ReadInv' /\ taken <= taken'
<1>1. /\ reading.flight = "ended" /\ reading' = NoRead /\ Returned(Filled)
      /\ reading.length <= 2 \/ Len(Received) >= Room
      /\ UNCHANGED <<usb_dev, readbuffer_chunksize, sent>>
  BY DEF ReadReturns, SyncAnswered, chunkVars
<1>2. ReadTypes
  BY DEF ReadInv
<1>3. usb_dev = TRUE /\ readbuffer_offset = 0 /\ readbuffer_remaining = 0 /\ Room \in Nat
  BY <1>1, AnswerNow
<1>4. PICK n, f, p, l, m \in Nat : Answer(n) /\ RunOf(reading.buf, f) /\ Came(n, f, p, l, m)
  BY <1>1, AnswerNow
<1>5. /\ p + n = sent /\ m <= n /\ m = IF Fits THEN n ELSE Room
      /\ Filled \in Seq(Nat) /\ Len(Filled) = l + m /\ RunOf(Filled, f)
      /\ Len(Received) = n /\ (reading.length <= 2 <=> n = 0)
      /\ Covers(TRUE, f, l + m, p + m + 1, sent, taken, lost)
  BY <1>4 DEF Came
<1>6. /\ taken \in Nat /\ lost \in SUBSET Nat /\ sent \in Nat /\ readbuffer \in Seq(Nat)
      /\ reading.length \in Nat
  BY <1>2 DEF ReadTypes, Reads
<1>7. /\ taken' \in Nat /\ lost' \in SUBSET Nat /\ taken <= taken'
      /\ Covers(TRUE, p + m + 1, 0, p + m + 1, sent, taken', lost')
  <2>1. p + m + 1 \in Nat /\ l + m \in Nat
    OBVIOUS
  <2> QED BY <1>1, <1>5, <1>6, <2>1, ReturnedIs
<1>8. /\ readbuffer' \in Seq(Nat) /\ Len(readbuffer') = Len(readbuffer)
      /\ readbuffer_offset' \in Nat /\ readbuffer_remaining' \in Nat
      /\ readbuffer_offset' + readbuffer_remaining' <= Len(readbuffer')
      /\ readbuffer_remaining' = n - m
  <2>1. CASE reading.length <= 2
    <3>1. UNCHANGED bufferVars
      BY <1>6, <2>1 DEF ReadReturns
    <3>2. n = 0 /\ m = 0
      BY <1>5, <2>1
    <3> QED BY <1>2, <1>3, <3>1, <3>2 DEF bufferVars, ReadTypes
  <2>2. CASE reading.length > 2 /\ Fits
    <3>1. readbuffer_offset' = 2 /\ UNCHANGED <<readbuffer, readbuffer_remaining>>
      BY <1>6, <2>2 DEF ReadReturns
    <3>2. m = n
      BY <1>5, <2>2
    <3>3. Len(readbuffer) = reading.length
      <4>1. n <= sent
        BY <1>5
      <4> QED BY <1>2, <1>4, <4>1, AnswerIs
    <3> QED BY <1>3, <1>6, <2>2, <3>1, <3>2, <3>3
  <2>3. CASE reading.length > 2 /\ ~Fits
    <3>1. KeepRest
      BY <1>6, <2>3 DEF ReadReturns
    <3>2. m = Room
      BY <1>5, <2>3
    <3> QED BY <1>2, <1>3, <1>4, <1>5, <2>3, <3>1, <3>2, KeepRestIs
  <2> QED BY <1>6, <2>1, <2>2, <2>3
<1>9. ReadTypes'
  BY <1>1, <1>2, <1>7, <1>8, NoReadIs DEF ReadTypes
<1>10. RunOf(Kept', p + m + 1)
  <2>1. CASE m = n
    <3>1. readbuffer_remaining' = 0
      BY <1>8, <2>1
    <3>2. p + m + 1 \in Nat
      OBVIOUS
    <3> QED BY <1>9, <3>1, <3>2, NothingKept
  <2>2. CASE m # n
    <3>1. ~Fits /\ m = Room /\ reading.length > 2
      BY <1>5, <1>6, <2>2
    <3>2. KeepRest
      BY <1>6, <3>1 DEF ReadReturns
    <3> QED BY <1>2, <1>3, <1>4, <1>5, <3>1, <3>2, KeepRestIs
  <2> QED BY <2>1, <2>2
<1>11. p + m + 1 = sent' - readbuffer_remaining' + 1 /\ sent' = sent /\ p + m + 1 \in Nat
  <2>1. p + m + 1 = sent - (n - m) + 1
    BY <1>5
  <2>2. sent' = sent /\ readbuffer_remaining' = n - m
    BY <1>1, <1>8
  <2> QED BY <2>1, <2>2
<1>12. Covers(usb_dev', p + m + 1, 0, p + m + 1, sent', taken', lost')
  BY <1>1, <1>3, <1>7
<1> QED BY <1>1, <1>7, <1>9, <1>10, <1>11, <1>12, CallOver

(* The call goes on, or its callback was the last.                         *)
LEMMA CallGoesOn ==
  ASSUME ReadInv, reading.flight = "ended",
         UNCHANGED <<usb_dev, readbuffer_chunksize, sent, taken, lost>>,
         \/ reading' = [reading EXCEPT !.buf = Filled, !.flight = "queued"]
         \/ /\ reading.how = "async"
            /\ reading' = [reading EXCEPT !.buf = Filled, !.flight = "none",
                                          !.completed = TRUE],
         \/ Fits /\ readbuffer_offset' = 0 /\ readbuffer_remaining' = 0 /\ UNCHANGED readbuffer
         \/ reading.length > 2 /\ ~Fits /\ KeepRest /\ reading'.flight = "none"
  PROVE  ReadInv'
<1>1. ReadTypes /\ CallShape
  BY DEF ReadInv
<1>2. usb_dev = TRUE /\ readbuffer_offset = 0 /\ readbuffer_remaining = 0 /\ Room \in Nat
  BY AnswerNow
<1>3. PICK n, f, p, l, m \in Nat : Answer(n) /\ RunOf(reading.buf, f) /\ Came(n, f, p, l, m)
  BY AnswerNow
<1>4. /\ p + n = sent /\ m <= n /\ m = IF Fits THEN n ELSE Room
      /\ l = Len(reading.buf) /\ l + m <= reading.size /\ f + l = p + 1
      /\ Filled \in Seq(Nat) /\ Len(Filled) = l + m /\ RunOf(Filled, f)
      /\ Len(Received) = n
      /\ Covers(TRUE, f, l + m, p + m + 1, sent, taken, lost)
  BY <1>3 DEF Came
<1>5. reading \in Reads /\ sent \in Nat /\ readbuffer \in Seq(Nat)
  BY <1>1 DEF ReadTypes
<1>6. /\ reading' \in Reads /\ reading'.buf = Filled /\ reading'.how = reading.how
      /\ reading'.size = reading.size
      /\ \/ reading'.flight = "queued" /\ reading'.completed = reading.completed
         \/ reading'.flight = "none" /\ reading.how = "async"
  <2>1. CASE reading' = [reading EXCEPT !.buf = Filled, !.flight = "queued"]
    BY <1>4, <1>5, <2>1 DEF Reads
  <2>2. CASE /\ reading.how = "async"
             /\ reading' = [reading EXCEPT !.buf = Filled, !.flight = "none",
                                           !.completed = TRUE]
    BY <1>4, <1>5, <2>2 DEF Reads
  <2> QED BY <2>1, <2>2
<1>7. /\ readbuffer' \in Seq(Nat) /\ Len(readbuffer') = Len(readbuffer)
      /\ readbuffer_offset' \in Nat /\ readbuffer_remaining' \in Nat
      /\ readbuffer_offset' + readbuffer_remaining' <= Len(readbuffer')
      /\ readbuffer_remaining' = n - m
      /\ reading'.flight # "none" => readbuffer_offset' = 0 /\ readbuffer_remaining' = 0 /\ m = n
  <2>1. CASE Fits /\ readbuffer_offset' = 0 /\ readbuffer_remaining' = 0 /\ UNCHANGED readbuffer
    BY <1>4, <1>5, <2>1
  <2>2. CASE reading.length > 2 /\ ~Fits /\ KeepRest /\ reading'.flight = "none"
    <3>1. m = Room
      BY <1>4, <2>2
    <3> QED BY <1>1, <1>2, <1>3, <1>4, <2>2, <3>1, KeepRestIs
  <2> QED BY <2>1, <2>2
<1>8. ReadTypes'
  BY <1>1, <1>6, <1>7 DEF ReadTypes
<1>9. CallShape'
  <2>1. reading'.how # "no"
    BY <1>1, <1>6 DEF CallShape
  <2>2. reading.completed = FALSE
    BY <1>1, <1>5 DEF CallShape, Reads
  <2>3. Len(reading'.buf) <= reading'.size
    BY <1>4, <1>6
  <2>4. reading'.completed => reading'.flight = "none"
    BY <1>6, <2>2
  <2>5. reading'.how = "sync" => reading'.flight # "none"
    BY <1>6
  <2> QED BY <1>2, <1>7, <2>1, <2>3, <2>4, <2>5 DEF CallShape
<1>10. RunOf(Kept', p + m + 1)
  <2>1. CASE Fits /\ readbuffer_offset' = 0 /\ readbuffer_remaining' = 0 /\ UNCHANGED readbuffer
    <3>1. p + m + 1 \in Nat
      OBVIOUS
    <3> QED BY <1>8, <2>1, <3>1, NothingKept
  <2>2. CASE reading.length > 2 /\ ~Fits /\ KeepRest /\ reading'.flight = "none"
    <3>1. m = Room
      BY <1>4, <2>2
    <3> QED BY <1>1, <1>2, <1>3, <1>4, <2>2, <3>1, KeepRestIs
  <2> QED BY <2>1, <2>2
<1>11. Arrival(0)' /\ sent + 0 = sent'
  <2>1. Arrival(0)'
    BY <1>6 DEF Arrival
  <2> QED BY <1>5, <2>1
<1>12. sent - readbuffer_remaining' + 1 = p + m + 1
  BY <1>4, <1>7
<1>13. reading'.flight # "none" => f + (l + m) = sent + 1
  BY <1>4, <1>7, SMTT(30)
<1> QED BY <1>2, <1>4, <1>5, <1>6, <1>8, <1>9, <1>10, <1>11, <1>12, <1>13, ReadNext

LEMMA LoopsKeeps ==
  ASSUME ReadInv, ReadLoops \/ ReadCallbackEnds \/ ReadCallbackResubmits PROVE ReadInv'
<1>1. /\ reading.flight = "ended"
      /\ UNCHANGED <<usb_dev, readbuffer_chunksize, sent, taken, lost>>
  BY DEF ReadLoops, ReadCallbackEnds, ReadCallbackResubmits, SyncAnswered, AsyncAnswered,
         chunkVars
<1>2. \/ reading' = [reading EXCEPT !.buf = Filled, !.flight = "queued"]
      \/ /\ reading.how = "async"
         /\ reading' = [reading EXCEPT !.buf = Filled, !.flight = "none", !.completed = TRUE]
  BY DEF ReadLoops, ReadCallbackEnds, ReadCallbackResubmits, AsyncAnswered
<1>3. readbuffer_offset = 0 /\ readbuffer_remaining = 0 /\ Room \in Nat
  BY <1>1, AnswerNow
<1>4. Len(Received) \in Nat /\ (reading.length <= 2 => Len(Received) = 0)
  <2>1. PICK n, f, p, l, m \in Nat : Came(n, f, p, l, m)
    BY <1>1, AnswerNow, SMTT(30)
  <2> QED BY <2>1 DEF Came
<1>5. CASE ReadLoops
  <2>1. Fits /\ readbuffer_offset' = 0 /\ readbuffer_remaining' = 0 /\ UNCHANGED readbuffer
    BY <1>3, <1>4, <1>5 DEF ReadLoops, KeepNothing, Fits
  <2> QED BY <1>1, <1>2, <2>1, CallGoesOn
<1>6. CASE ReadCallbackResubmits
  <2>1. Fits
    BY <1>3, <1>4, <1>6 DEF ReadCallbackResubmits, Fits
  <2>2. readbuffer_offset' = 0 /\ readbuffer_remaining' = 0 /\ UNCHANGED readbuffer
    BY <1>3, <1>6 DEF ReadCallbackResubmits, KeepNothing
  <2> QED BY <1>1, <1>2, <2>1, <2>2, CallGoesOn
<1>7. CASE ReadCallbackEnds
  <2>1. reading.length > 2 /\ reading'.flight = "none"
    <3>1. reading \in Reads
      BY DEF ReadInv, ReadTypes
    <3> QED BY <1>7, <3>1 DEF ReadCallbackEnds, Reads
  <2>2. CASE Fits
    <3>1. readbuffer_offset' = 0 /\ readbuffer_remaining' = 0 /\ UNCHANGED readbuffer
      BY <1>7, <2>2 DEF ReadCallbackEnds, KeepNothing
    <3> QED BY <1>1, <1>2, <2>2, <3>1, CallGoesOn
  <2>3. CASE ~Fits
    <3>1. KeepRest
      BY <1>7, <2>3 DEF ReadCallbackEnds
    <3> QED BY <1>1, <1>2, <2>1, <2>3, <3>1, CallGoesOn
  <2> QED BY <2>2, <2>3
<1> QED BY <1>5, <1>6, <1>7

(* The steps that do not read leave all of it alone.                       *)
LEMMA ReadStep == ASSUME ReadInv, [FtdiNext]_vars PROVE ReadInv'
<1> DEFINE Same == UNCHANGED <<usb_dev, bufferVars, readbuffer_chunksize, readVars>>
<1>1. ASSUME NEW t \in ChipTypes, Open(t) PROVE ReadInv'
  BY <1>1, OpenKeeps
<1>2. CASE Close \/ Purge
  BY <1>2, CloseKeeps, PurgeKeeps
<1>3. ASSUME SetBitmode PROVE Same
  BY <1>3 DEF SetBitmode, chunkVars
<1>4. ASSUME NEW b \in Rates, SetBaudrate(b) PROVE Same
  BY <1>4 DEF SetBaudrate, chunkVars
<1>5. ASSUME NEW c \in ReadChunks, ReadSetChunksize(c) PROVE ReadInv'
  BY <1>5, ChunkKeeps
<1>6. ASSUME NEW c \in WriteChunks, WriteSetChunksize(c) PROVE Same
  BY <1>6 DEF WriteSetChunksize
<1>7. ASSUME Reading PROVE ReadInv'
  <2>1. ASSUME NEW n \in ReadSizes, ReadKept(n) \/ ReadSubmitKept(n) \/ ReadSubmitFails(n)
        PROVE  ReadInv'
    <3>1. n \in Nat
      BY FtdiAssumption
    <3> QED BY <2>1, <3>1, ReadKeptKeeps, SubmitKeptKeeps, SubmitFailsKeeps
  <2>2. ASSUME NEW n \in ReadSizes, NEW how \in {"sync", "async"}, ReadBegins(how, n)
        PROVE  ReadInv'
    <3>1. n \in Nat
      BY FtdiAssumption
    <3> QED BY <2>2, <3>1, BeginsKeeps
  <2>3. CASE ReadEnds \/ ReadOverflows
    BY <2>3, EndsKeeps, OverflowsKeeps
  <2>4. CASE ReadFails \/ ReadReturns \/ ReadDone
    BY <2>4, FailsKeeps, ReturnsKeeps, DoneKeeps
  <2>5. CASE ReadLoops \/ ReadCallbackEnds \/ ReadCallbackResubmits
    BY <2>5, LoopsKeeps
  <2> QED BY <1>7, <2>1, <2>2, <2>3, <2>4, <2>5 DEF Reading
<1>8. ASSUME NEW w \in Writers, Writing(w) PROVE Same
  <2>1. ASSUME NEW n \in WriteSizes, NEW how \in {"sync", "async"}, WriteBegins(w, how, n)
        PROVE  Same
    BY <2>1 DEF WriteBegins, chunkVars
  <2>2. ASSUME WriteEnds(w) \/ WriteReturns(w) \/ WriteCallback(w) \/ WriteDone(w) PROVE Same
    BY <2>2 DEF WriteEnds, WriteReturns, WriteCallback, WriteDone, chunkVars
  <2> QED BY <1>8, <2>1, <2>2 DEF Writing
<1>9. ASSUME UNCHANGED vars PROVE Same
  BY <1>9 DEF vars, chunkVars
<1>10. Same => ReadInv'
  BY ReadSame
<1> HIDE DEF Same
<1> QED
  BY <1>1, <1>2, <1>3, <1>4, <1>5, <1>6, <1>7, <1>8, <1>9, <1>10 DEF FtdiNext

-----------------------------------------------------------------------------
(* Of a device that was opened, all from before the open has been returned *)
(* or is lost.                                                             *)
OpenInv ==
  /\ opened \in BOOLEAN /\ since \in Nat /\ since <= sent
  /\ opened => \A b \in Nat : taken < b /\ b <= since => b \in lost

LEMMA OpenInit == FtdiInit => OpenInv
<1>1. ASSUME FtdiInit PROVE opened = FALSE /\ since = 0 /\ sent = 0
  BY <1>1 DEF FtdiInit
<1> QED BY <1>1 DEF OpenInv

(* Nothing that was lost is found again, unless it is returned.            *)
LEMMA OpenSame ==
  ASSUME ReadInv, ReadInv', OpenInv, UNCHANGED <<opened, since>>,
         sent <= sent', taken <= taken', \A b \in lost : taken' < b => b \in lost'
  PROVE  OpenInv'
<1>1. /\ sent \in Nat /\ sent' \in Nat /\ taken \in Nat /\ taken' \in Nat
      /\ since \in Nat /\ since <= sent
  BY DEF ReadInv, ReadTypes, OpenInv
<1>2. since' = since /\ opened' = opened /\ opened \in BOOLEAN
  BY DEF OpenInv
<1>3. since <= sent'
  BY <1>1
<1>4. ASSUME opened, NEW b \in Nat, taken' < b, b <= since PROVE b \in lost'
  <2>1. taken < b
    BY <1>1, <1>4
  <2> QED BY <1>4, <2>1 DEF OpenInv
<1> QED BY <1>1, <1>2, <1>3, <1>4 DEF OpenInv

LEMMA OpenIsNew == ASSUME ReadInv, OpenInv, NEW t, Open(t) PROVE OpenInv'
<1>1. ~opened /\ reading.flight = "none" /\ reading.how = "no" /\ UNCHANGED <<sent, taken>>
  BY DEF Open, InFlight
<1>2. \/ UNCHANGED <<opened, since>>
      \/ opened' = TRUE /\ since' = sent /\ Lose(Kept)
  BY DEF Open, NotOpened, HalfOpened, OpenedInVain, WasReset
<1>3. CASE UNCHANGED <<opened, since>>
  BY <1>1, <1>3 DEF OpenInv
<1>4. CASE opened' = TRUE /\ since' = sent /\ Lose(Kept)
  <2>1. ReadTypes /\ reading.buf = <<>>
    BY <1>1 DEF ReadInv, CallShape
  <2>2. PICK n, f, p, l, k \in Nat : Numbers(n, f, p, l, k)
    BY ReadNow
  <2>3. n = 0 /\ l = 0
    BY <1>1, <2>1, <2>2 DEF Arrival
  <2>4. p = sent /\ sent \in Nat
    BY <2>2, <2>3
  <2>5. \A b \in Nat : b \in ToSet(Kept) <=> k <= b /\ b <= p
    BY <2>1, <2>2, KeptSet
  <2>6. lost' = lost \cup ToSet(Kept)
    BY <1>4, <2>1, <2>2, KeptSet DEF Lose
  <2>7. ASSUME NEW b \in Nat, taken < b, b <= sent PROVE b \in lost'
    <3>1. \/ f <= b /\ b < f + 0
          \/ usb_dev /\ k <= b /\ b <= p
          \/ b \in lost
      BY <2>2, <2>3, <2>4, <2>7 DEF Covers
    <3> QED BY <2>5, <2>6, <3>1
  <2> QED BY <1>1, <1>4, <2>4, <2>7 DEF OpenInv
<1> QED BY <1>2, <1>3, <1>4

LEMMA OpenStep == ASSUME ReadInv, ReadInv', OpenInv, [FtdiNext]_vars PROVE OpenInv'
<1> DEFINE Grows == /\ UNCHANGED <<opened, since>> /\ sent <= sent' /\ taken <= taken'
                    /\ \A b \in lost : taken' < b => b \in lost'
           Same == UNCHANGED <<opened, since, sent, taken>> /\ lost \subseteq lost'
<1>1. sent \in Nat /\ taken \in Nat
  BY DEF ReadInv, ReadTypes
<1>2. Same => Grows
  BY <1>1
<1>3. ASSUME Close PROVE OpenInv'
  BY <1>3 DEF Close, OpenInv
<1>4. ASSUME Purge \/ SetBitmode PROVE Same
  BY <1>4 DEF Purge, SetBitmode, Lose, readVars
<1>5. ASSUME NEW c, SetBaudrate(c) \/ ReadSetChunksize(c) \/ WriteSetChunksize(c) PROVE Same
  BY <1>5 DEF SetBaudrate, ReadSetChunksize, WriteSetChunksize, Lose, readVars
<1>6. ASSUME Reading PROVE Grows
  <2>1. ASSUME NEW n \in ReadSizes, ReadSubmitKept(n) \/ ReadSubmitFails(n) PROVE Same
    BY <2>1 DEF ReadSubmitKept, ReadSubmitFails, Lose
  <2>2. ASSUME NEW n \in ReadSizes, NEW how \in {"sync", "async"}, ReadBegins(how, n)
        PROVE  Same
    BY <2>2 DEF ReadBegins
  <2>3. ASSUME ReadFails \/ ReadLoops \/ ReadCallbackEnds \/ ReadCallbackResubmits PROVE Same
    BY <2>3 DEF ReadFails, ReadLoops, ReadCallbackEnds, ReadCallbackResubmits, Lose
  <2>4. ASSUME ReadEnds \/ ReadOverflows PROVE Grows
    <3>1. PICK n \in 0..(MaxSent - sent) : sent' = sent + n
      BY <2>4 DEF ReadEnds, ReadOverflows
    <3>2. sent <= sent'
      BY <1>1, <3>1
    <3>3. UNCHANGED <<opened, since, taken>> /\ lost \subseteq lost'
      BY <2>4 DEF ReadEnds, ReadOverflows
    <3> QED BY <1>1, <3>2, <3>3
  <2>5. ASSUME NEW n \in ReadSizes, ReadKept(n) PROVE Grows
    <3>1. n \in Nat
      BY FtdiAssumption
    <3>2. taken <= taken'
      BY <2>5, <3>1, ReadKeptKeeps
    <3> QED BY <1>1, <2>5, <3>2 DEF ReadKept, Returned
  <2>6. ASSUME ReadReturns PROVE Grows
    <3>1. taken <= taken'
      BY <2>6, ReturnsKeeps
    <3> QED BY <1>1, <2>6, <3>1 DEF ReadReturns, Returned
  <2>7. ASSUME ReadDone PROVE Grows
    <3>1. taken <= taken'
      BY <2>7, DoneKeeps
    <3> QED BY <1>1, <2>7, <3>1 DEF ReadDone, Returned, Lose
  <2> HIDE DEF Same, Grows
  <2> QED BY <1>2, <1>6, <2>1, <2>2, <2>3, <2>4, <2>5, <2>6, <2>7 DEF Reading
<1>7. ASSUME NEW w \in Writers, Writing(w) PROVE Same
  <2>1. ASSUME NEW n \in WriteSizes, NEW how \in {"sync", "async"}, WriteBegins(w, how, n)
        PROVE  Same
    BY <2>1 DEF WriteBegins, readVars
  <2>2. ASSUME WriteEnds(w) \/ WriteReturns(w) \/ WriteCallback(w) \/ WriteDone(w) PROVE Same
    BY <2>2 DEF WriteEnds, WriteReturns, WriteCallback, WriteDone, readVars
  <2> QED BY <1>7, <2>1, <2>2 DEF Writing
<1>8. ASSUME UNCHANGED vars PROVE Same
  BY <1>8 DEF vars, readVars
<1>9. ASSUME NEW t \in ChipTypes, Open(t) PROVE OpenInv'
  BY <1>9, OpenIsNew
<1>10. Grows => OpenInv'
  BY OpenSame
<1> HIDE DEF Same, Grows
<1> QED
  BY <1>2, <1>3, <1>4, <1>5, <1>6, <1>7, <1>8, <1>9, <1>10 DEF FtdiNext

-----------------------------------------------------------------------------
(* Bytes in the order of the chip, with status bytes anywhere between.     *)
Rising(s) == \A i, j \in DOMAIN s : i < j /\ s[i] # 0 /\ s[j] # 0 => s[i] < s[j]

LEMMA RisingConcat ==
  ASSUME NEW s \in Seq(Nat), NEW u \in Seq(Nat), Rising(s), Rising(u), NEW p \in Nat,
         \A b \in ToSet(s) : b < p, \A b \in ToSet(u) \ {0} : b >= p
  PROVE  s \o u \in Seq(Nat) /\ Rising(s \o u) /\ ToSet(s \o u) = ToSet(s) \cup ToSet(u)
<1> DEFINE l == Len(s)
           m == Len(u)
           all == s \o u
<1>1. /\ all \in Seq(Nat) /\ Len(all) = l + m /\ DOMAIN all = 1..(l + m)
      /\ \A i \in 1..(l + m) : all[i] = IF i <= l THEN s[i] ELSE u[i - l]
  BY ConcatProperties
<1>2. l \in Nat /\ m \in Nat /\ DOMAIN s = 1..l /\ DOMAIN u = 1..m
  OBVIOUS
<1>3. /\ \A i \in 1..l : s[i] \in Nat /\ s[i] < p
      /\ \A i \in 1..m : u[i] \in Nat /\ (u[i] # 0 => u[i] >= p)
  BY ElementOfSeq DEF ToSet
<1>4. ToSet(all) = ToSet(s) \cup ToSet(u)
  <2>1. Range(all) = Range(s) \cup Range(u)
    BY RangeConcatenation
  <2> QED BY <2>1 DEF ToSet, Range
<1> HIDE DEF all, l, m
<1>5. ASSUME NEW i \in 1..(l + m), NEW j \in 1..(l + m), i < j, all[i] # 0, all[j] # 0
      PROVE  all[i] < all[j]
  <2>1. CASE j <= l
    <3>1. i \in 1..l /\ j \in 1..l /\ i <= l
      BY <1>2, <1>5, <2>1
    <3>2. all[i] = s[i] /\ all[j] = s[j]
      BY <1>1, <2>1, <3>1
    <3> QED BY <1>2, <1>5, <3>1, <3>2 DEF Rising
  <2>2. CASE i <= l /\ ~(j <= l)
    <3>1. i \in 1..l /\ j - l \in 1..m
      BY <1>2, <2>2
    <3>2. all[i] = s[i] /\ all[j] = u[j - l]
      BY <1>1, <2>2
    <3>3. s[i] < p /\ u[j - l] >= p /\ s[i] \in Nat /\ u[j - l] \in Nat
      BY <1>3, <1>5, <3>1, <3>2
    <3> QED BY <3>2, <3>3
  <2>3. CASE ~(i <= l)
    <3>1. i - l \in 1..m /\ j - l \in 1..m /\ i - l < j - l /\ ~(j <= l)
      BY <1>2, <1>5, <2>3
    <3>2. all[i] = u[i - l] /\ all[j] = u[j - l]
      BY <1>1, <2>3, <3>1
    <3> QED BY <1>2, <1>5, <3>1, <3>2 DEF Rising
  <2> QED BY <1>2, <2>1, <2>2, <2>3
<1> QED BY <1>1, <1>4, <1>5 DEF Rising, all

LEMMA RunRises ==
  ASSUME NEW s \in Seq(Nat), NEW f \in Nat, RunOf(s, f) PROVE Rising(s)
<1>1. DOMAIN s = 1..Len(s) /\ \A i \in 1..Len(s) : s[i] = f + i - 1
  BY DEF RunOf
<1> QED BY <1>1 DEF Rising

LEMMA ReadOrder == ASSUME ReadInv, OpenInv PROVE ReadsInOrder
<1> DEFINE come == IF reading.flight = "ended" THEN readbuffer ELSE <<>>
           kept == IF usb_dev THEN Kept ELSE <<>>
<1>1. ReadTypes
  BY DEF ReadInv
<1>2. PICK n, f, p, l, k \in Nat : Numbers(n, f, p, l, k)
  BY ReadNow
<1>3. /\ taken \in Nat /\ lost \in SUBSET Nat /\ sent \in Nat /\ readbuffer \in Seq(Nat)
      /\ readbuffer_remaining \in Nat /\ usb_dev \in BOOLEAN
  BY <1>1 DEF ReadTypes
<1>4. f > 0 /\ k > 0 /\ f + l <= k /\ k <= p + 1 /\ k + readbuffer_remaining = p + 1
  BY <1>2, <1>3 DEF Covers
<1>5. <<>> \in Seq(Nat) /\ ToSet(<<>>) = {} /\ Rising(<<>>)
  BY DEF ToSet, Rising
<1>6. /\ reading.buf \in Seq(Nat) /\ Rising(reading.buf) /\ ToSet(reading.buf) \subseteq Nat
      /\ \A b \in Nat : b \in ToSet(reading.buf) <=> f <= b /\ b < f + l
  BY <1>2, RunRises, RunSet
<1>7. /\ Kept \in Seq(Nat) /\ Rising(Kept) /\ ToSet(Kept) \subseteq Nat
      /\ \A b \in Nat : b \in ToSet(Kept) <=> k <= b /\ b <= p
  <2>1. Kept \in Seq(Nat) /\ Len(Kept) = readbuffer_remaining
    BY <1>1, KeptIs
  <2>2. Rising(Kept) /\ ToSet(Kept) \subseteq Nat
    BY <1>2, <2>1, RunRises, RunSet
  <2>3. \A b \in Nat : b \in ToSet(Kept) <=> k <= b /\ b < k + readbuffer_remaining
    BY <1>2, <2>1, RunSet
  <2> QED BY <1>3, <1>4, <2>1, <2>2, <2>3
<1>8. /\ come \in Seq(Nat) /\ Rising(come) /\ ToSet(come) \subseteq Nat
      /\ \A b \in Nat : b \in ToSet(come) \ {0} <=> p < b /\ b <= sent
      /\ reading.flight # "ended" => come = <<>>
  <2>1. CASE reading.flight = "ended"
    <3>1. Answer(n) /\ n <= sent /\ sent - n + 1 = p + 1 /\ p + 1 + n = sent + 1
      BY <1>2, <1>3, <2>1 DEF Arrival
    <3>2. PacketsOf(readbuffer, p + 1, n, reading.length) /\ (reading.length <= 2 <=> n = 0)
      BY <1>1, <3>1, AnswerIs
    <3>3. n = 0 \/ reading.length > 2
      <4>1. reading.length \in Nat
        BY <3>2 DEF PacketsOf
      <4> QED BY <3>2, <4>1
    <3>4. /\ ToSet(readbuffer) \subseteq Nat
          /\ \A b \in Nat : b \in ToSet(readbuffer) \ {0} <=> p + 1 <= b /\ b < p + 1 + n
      BY <3>2, <3>3, AnswerSet
    <3>5. Rising(readbuffer)
      <4>1. /\ DOMAIN readbuffer = 1..reading.length
            /\ \A i, j \in 1..reading.length :
                 i < j /\ readbuffer[i] # 0 /\ readbuffer[j] # 0 => readbuffer[i] < readbuffer[j]
        BY <3>2, PacketsInOrder DEF PacketsOf, Packets
      <4> QED BY <4>1 DEF Rising
    <3>6. \A b \in Nat : b \in ToSet(readbuffer) \ {0} <=> p < b /\ b <= sent
      BY <1>3, <3>1, <3>4
    <3> QED BY <1>3, <2>1, <3>4, <3>5, <3>6
  <2>2. CASE reading.flight # "ended"
    <3>1. p = sent
      BY <1>2, <2>2 DEF Arrival
    <3> QED BY <1>3, <1>5, <2>2, <3>1
  <2> QED BY <2>1, <2>2
<1>9. /\ kept \in Seq(Nat) /\ Rising(kept) /\ ToSet(kept) \subseteq Nat
      /\ \A b \in Nat : b \in ToSet(kept) <=> usb_dev /\ k <= b /\ b <= p
  BY <1>3, <1>5, <1>7
<1>10. come = <<>> \/ (k = p + 1 /\ usb_dev = TRUE /\ kept = <<>>)
  <2>1. CASE reading.flight = "ended"
    <3>1. k = p + 1 /\ usb_dev = TRUE /\ readbuffer_remaining = 0
      BY <1>1, <2>1, AnswerNow, <1>2
    <3>2. Kept = <<>>
      BY <1>1, <3>1, KeptIs
    <3> QED BY <3>1, <3>2
  <2>2. CASE reading.flight # "ended"
    BY <2>2
  <2> QED BY <2>1, <2>2
<1> HIDE DEF come, kept
<1>11. Known = (reading.buf \o come) \o kept
  BY DEF Known, come, kept
<1>12. /\ reading.buf \o come \in Seq(Nat) /\ Rising(reading.buf \o come)
       /\ ToSet(reading.buf \o come) = ToSet(reading.buf) \cup ToSet(come)
  <2>1. \A b \in ToSet(reading.buf) : b < p + 1
    BY <1>4, <1>6
  <2>2. \A b \in ToSet(come) \ {0} : b >= p + 1
    BY <1>8
  <2>3. p + 1 \in Nat
    OBVIOUS
  <2> QED BY <1>6, <1>8, <2>1, <2>2, <2>3, RisingConcat
<1>13. Known \in Seq(Nat) /\ Rising(Known)
       /\ ToSet(Known) = ToSet(reading.buf) \cup ToSet(come) \cup ToSet(kept)
  <2>1. CASE come = <<>>
    <3>1. ToSet(come) = {}
      BY <1>5, <2>1
    <3>2. \A b \in ToSet(reading.buf \o come) : b < k
      BY <1>4, <1>6, <1>12, <3>1
    <3>3. \A b \in ToSet(kept) \ {0} : b >= k
      BY <1>9
    <3> QED BY <1>9, <1>11, <1>12, <3>2, <3>3, RisingConcat
  <2>2. CASE kept = <<>>
    <3>1. ToSet(kept) = {} /\ (reading.buf \o come) \o <<>> = reading.buf \o come
      BY <1>5, <1>12, <2>2
    <3> QED BY <1>11, <1>12, <2>2, <3>1
  <2> QED BY <1>10, <2>1, <2>2
<1>14. ToSet(Known) \ {0} = ((taken + 1)..sent) \ lost
  <2>1. ASSUME NEW b \in Nat
        PROVE  b \in ToSet(Known) \ {0} <=> b \in ((taken + 1)..sent) \ lost
    <3>1. \/ f <= b /\ b < f + l
          \/ usb_dev /\ k <= b /\ b <= p
          <=> taken < b /\ b <= p /\ b \notin lost
      BY <1>2 DEF Covers
    <3>2. b \in lost => b <= p
      BY <1>2 DEF Covers
    <3>3. b \in ToSet(Known) \ {0}
          <=> \/ f <= b /\ b < f + l
              \/ usb_dev /\ k <= b /\ b <= p
              \/ p < b /\ b <= sent
      <4>1. b \in ToSet(Known) \ {0}
            <=> b # 0 /\ (b \in ToSet(reading.buf) \/ b \in ToSet(kept) \/ b \in ToSet(come) \ {0})
        BY <1>13
      <4>2. b \in ToSet(reading.buf) <=> f <= b /\ b < f + l
        BY <1>6
      <4>3. b \in ToSet(kept) <=> usb_dev /\ k <= b /\ b <= p
        BY <1>9
      <4>4. b \in ToSet(come) \ {0} <=> p < b /\ b <= sent
        BY <1>8
      <4> HIDE DEF Kept, Known
      <4> QED BY <1>4, <4>1, <4>2, <4>3, <4>4
    <3>4. p < b => taken < b
      BY <1>2, <1>3, <1>4 DEF Covers
    <3>5. p <= sent
      BY <1>2, <1>3
    <3> QED BY <1>3, <3>1, <3>2, <3>3, <3>4, <3>5
  <2>2. ToSet(Known) \subseteq Nat
    BY <1>6, <1>8, <1>9, <1>13
  <2> QED BY <1>3, <2>1, <2>2
<1>15. 0 \notin ToSet(reading.buf) \cup ToSet(Kept)
  BY <1>4, <1>6, <1>7
<1>16. opened => (taken + 1)..since \subseteq lost
  BY <1>3 DEF OpenInv
<1> QED BY <1>13, <1>14, <1>15, <1>16 DEF ReadsInOrder, Rising

(* Reads return the chip's bytes in the order it gave them and each once,  *)
(* whatever the sizes of the packets, of the chunks and of the reads, and  *)
(* however an open fails; a device that was opened gives none from before. *)
THEOREM ReadsInOrderCorrect == FtdiSpec => []ReadsInOrder
<1>1. FtdiInit => ReadInv /\ OpenInv
  BY ReadInit, OpenInit
<1>2. ReadInv /\ OpenInv /\ [FtdiNext]_vars => (ReadInv /\ OpenInv)'
  BY ReadStep, OpenStep
<1>3. ReadInv /\ OpenInv => ReadsInOrder
  BY ReadOrder
<1> QED BY <1>1, <1>2, <1>3, PTL DEF FtdiSpec

-----------------------------------------------------------------------------
(* The words of a speed: an integer rate gives two words of 16 bits.       *)
Words == [value : 0..(2^16 - 1), index : 0..(2^16 - 1)]

UpTo(limit, x) == x \in Nat /\ x <= limit

LEMMA Powers == 2^14 = 16384 /\ 2^16 = 65536 /\ 2^17 = 131072
OBVIOUS

LEMMA EncodedIs == ASSUME NEW d, UpTo(131072, d) PROVE UpTo(131072, Encoded(d))
<1>1. d \div 8 \in Nat /\ d \div 8 <= 16384 /\ d % 8 \in 0..7
  BY DEF UpTo
<1>2. \A e \in 0..7 : frac_code[e] \in 0..7
  BY DEF frac_code
<1>3. PICK c \in 0..7 : c = frac_code[d % 8]
  BY <1>1, <1>2
<1>4. Encoded(d) = d \div 8 + c * 16384
  BY <1>3, Powers DEF Encoded
<1> QED BY <1>1, <1>4 DEF UpTo

LEMMA HalvedIs == ASSUME NEW n \in Nat PROVE Halved(n) \in Nat
BY DEF Halved

LEMMA ClkbitsIs ==
  ASSUME NEW b \in Int, b > 0, NEW clk, NEW clk_div, (clk \div clk_div) * 16 \in Nat
  PROVE  UpTo(131072, ftdi_to_clkbits(b, clk, clk_div).encoded)
<1> DEFINE full == clk \div clk_div
           two3rds == clk \div (clk_div + clk_div \div 2)
           half == clk \div (2 * clk_div)
           clk16 == full * 16
           nearest == Halved(clk16 \div b)
           best == IF nearest > 2^17 THEN 2^17 - 1 ELSE nearest
           last == [baud |-> Halved(clk16 \div best), encoded |-> Encoded(best)]
<1>1. clk16 \div b \in Nat
  BY Quotients
<1> HIDE DEF clk16
<1>2. nearest \in Nat
  BY <1>1, HalvedIs
<1> HIDE DEF nearest
<1>3. UpTo(131072, best)
  BY <1>2, Powers DEF UpTo
<1> HIDE DEF best
<1>4. UpTo(131072, Encoded(best))
  BY <1>3, EncodedIs
<1>5. UpTo(131072, last.encoded)
  BY <1>4
<1> HIDE DEF last
<1>6. ftdi_to_clkbits(b, clk, clk_div)
        = CASE b >= full -> [baud |-> full, encoded |-> 0]
            [] b < full /\ b >= two3rds -> [baud |-> two3rds, encoded |-> 1]
            [] b < two3rds /\ b >= half -> [baud |-> half, encoded |-> 2]
            [] OTHER -> last
  BY DEF ftdi_to_clkbits, last, best, nearest, clk16
<1> HIDE DEF full, two3rds, half
<1>7. \/ ftdi_to_clkbits(b, clk, clk_div) = [baud |-> full, encoded |-> 0]
      \/ ftdi_to_clkbits(b, clk, clk_div) = [baud |-> two3rds, encoded |-> 1]
      \/ ftdi_to_clkbits(b, clk, clk_div) = [baud |-> half, encoded |-> 2]
      \/ ftdi_to_clkbits(b, clk, clk_div) = last
  BY <1>6
<1> QED BY <1>5, <1>7 DEF UpTo

LEMMA RoundDownIs == ASSUME NEW d \in Nat PROVE AmRoundDown(d) \in 0..d
<1> DEFINE S == {t \in (d - 3)..d : t % 8 \in AmFractions}
<1>1. d \div 8 \in Nat /\ d % 8 \in 0..7 /\ d = (d \div 8) * 8 + (d % 8)
  OBVIOUS
<1>2. PICK q \in Nat, r \in 0..7 : d = q * 8 + r
  BY <1>1
<1>3. \A e \in 0..7 : (q * 8 + e) % 8 = e
  OBVIOUS
<1>4. \E x \in S : x >= 0 /\ \A y \in S : x >= y
  <2> DEFINE c == IF r = 3 THEN 2 ELSE IF r > 4 THEN 4 ELSE r
             x == q * 8 + c
  <2>1. c \in AmFractions /\ c \in 0..7 /\ c <= r /\ r - c <= 3
    BY DEF AmFractions
  <2>2. \A e \in 0..7 : e > c /\ e <= r => e \notin AmFractions
    BY DEF AmFractions
  <2> HIDE DEF c
  <2>3. x \in (d - 3)..d /\ x % 8 = c /\ x >= 0
    BY <1>2, <1>3, <2>1
  <2>4. ASSUME NEW y \in S PROVE x >= y
    <3>1. SUFFICES ASSUME y > x PROVE FALSE
      BY <2>3
    <3>2. PICK e \in 0..7 : y = q * 8 + e /\ e > c /\ e <= r
      <4>1. y - q * 8 \in 0..7 /\ y - q * 8 > c /\ y - q * 8 <= r
        BY <1>2, <2>1, <2>3, <3>1
      <4>2. y = q * 8 + (y - q * 8)
        OBVIOUS
      <4> QED BY <4>1, <4>2
    <3> QED BY <1>3, <2>2, <3>2
  <2> QED BY <2>1, <2>3, <2>4
<1>5. AmRoundDown(d) \in S /\ AmRoundDown(d) >= 0
  <2>1. AmRoundDown(d) = CHOOSE x \in S : \A y \in S : x >= y
    BY DEF AmRoundDown, Max
  <2> HIDE DEF S
  <2>2. AmRoundDown(d) \in S /\ \A y \in S : AmRoundDown(d) >= y
    BY <1>4, <2>1
  <2>3. \A y \in S : y \in Int
    BY DEF S
  <2> QED BY <1>4, <2>2, <2>3
<1> QED BY <1>5

(* What an AM chip is sent: nothing between 1 and 2, and four fractions.   *)
AmDivisor(d) == d \in Nat /\ (d = 8 \/ (16 <= d /\ d < 131072 /\ d % 8 \in AmFractions))

LEMMA RoundUpIs ==
  ASSUME NEW d \in Nat, NEW try \in Nat, try = d \/ try = d + 1
  PROVE  AmDivisor(AmRoundUp(d, try))
<1> DEFINE S == {t \in try..(try + 3) : t % 8 \in AmFractions}
           next == Min(S)
           least == Min({131064, next})
<1>1. \E x \in S : \A y \in S : x <= y
  <2>1. PICK q \in Nat, r \in 0..7 : try = q * 8 + r
    <3>1. try \div 8 \in Nat /\ try % 8 \in 0..7 /\ try = (try \div 8) * 8 + (try % 8)
      OBVIOUS
    <3> QED BY <3>1
  <2>2. \A e \in 0..7 : (q * 8 + e) % 8 = e /\ (q * 8 + 8) % 8 = 0
    OBVIOUS
  <2> DEFINE c == IF r = 3 THEN 4 ELSE IF r > 4 THEN 8 ELSE r
             x == q * 8 + c
  <2>3. (c = 8 \/ c \in AmFractions) /\ c \in 0..8 /\ c >= r /\ c - r <= 3 /\ 0 \in AmFractions
    BY DEF AmFractions
  <2>4. \A e \in 0..7 : e >= r /\ e < c => e \notin AmFractions
    BY DEF AmFractions
  <2> HIDE DEF c
  <2>5. x \in try..(try + 3) /\ x % 8 \in AmFractions
    <3>1. x \in try..(try + 3)
      BY <2>1, <2>3
    <3>2. CASE c = 8
      BY <2>2, <2>3, <3>1, <3>2
    <3>3. CASE c # 8
      <4>1. c \in 0..7
        BY <2>3, <3>3
      <4> QED BY <2>2, <2>3, <3>1, <3>3, <4>1
    <3> QED BY <3>2, <3>3
  <2>6. ASSUME NEW y \in S PROVE x <= y
    <3>1. SUFFICES ASSUME y < x PROVE FALSE
      BY <2>5
    <3>2. PICK e \in 0..7 : y = q * 8 + e /\ e >= r /\ e < c
      <4>1. y - q * 8 \in 0..7 /\ y - q * 8 >= r /\ y - q * 8 < c
        BY <2>1, <2>3, <2>5, <3>1
      <4>2. y = q * 8 + (y - q * 8)
        OBVIOUS
      <4> QED BY <4>1, <4>2
    <3> QED BY <2>2, <2>4, <3>2
  <2> QED BY <2>5, <2>6
<1>2. next \in Nat /\ next >= try /\ next % 8 \in AmFractions
  <2>1. next = CHOOSE x \in S : \A y \in S : x <= y
    BY DEF Min
  <2>2. \A y \in S : y \in Nat /\ y >= try /\ y % 8 \in AmFractions
    OBVIOUS
  <2> HIDE DEF S, next
  <2> QED BY <1>1, <2>1, <2>2
<1> HIDE DEF next
<1>3. (least = 131064 \/ least = next) /\ least <= 131064
  <2>1. \E x \in {131064, next} : \A y \in {131064, next} : x <= y
    <3>1. CASE next <= 131064
      BY <1>2, <3>1
    <3>2. CASE ~(next <= 131064)
      BY <1>2, <3>2
    <3> QED BY <3>1, <3>2
  <2>2. least \in {131064, next} /\ \A y \in {131064, next} : least <= y
    BY <2>1 DEF Min
  <2> QED BY <1>2, <2>2
<1> HIDE DEF least
<1>4. 131064 % 8 \in AmFractions
  BY DEF AmFractions
<1>5. AmRoundUp(d, try) \in {8, 16} \/ (d >= 16 /\ AmRoundUp(d, try) = least)
  <2>1. CASE try <= 8
    BY <2>1 DEF AmRoundUp
  <2>2. CASE ~(try <= 8) /\ d < 16
    BY <2>2 DEF AmRoundUp
  <2>3. CASE ~(try <= 8) /\ ~(d < 16)
    BY <2>3 DEF AmRoundUp, least, next
  <2> QED BY <2>1, <2>2, <2>3
<1>6. AmDivisor(16) /\ AmDivisor(8)
  BY DEF AmDivisor, AmFractions
<1>7. ASSUME d >= 16 PROVE AmDivisor(least)
  <2>1. CASE least = 131064
    BY <1>4, <2>1 DEF AmDivisor
  <2>2. CASE least = next
    BY <1>2, <1>3, <1>7, <2>2 DEF AmDivisor
  <2> QED BY <1>3, <2>1, <2>2
<1> QED BY <1>5, <1>6, <1>7

LEMMA ClkbitsAmIs ==
  ASSUME NEW b \in Int, b > 0 PROVE UpTo(131072, ftdi_to_clkbits_AM(b).encoded)
<1> DEFINE divisor == AmRoundDown(24000000 \div b)
           lower == AmRoundUp(divisor, divisor)
           upper == AmRoundUp(divisor, divisor + 1)
           rate(d) == (24000000 + d \div 2) \div d
           best == IF Diff(rate(upper), b) < Diff(rate(lower), b) THEN upper ELSE lower
           code == IF best = 8 THEN 0 ELSE Encoded(best)
<1>1. divisor \in Nat
  <2>1. 24000000 \div b \in Nat
    BY Quotients
  <2> QED BY <2>1, RoundDownIs
<1> HIDE DEF divisor
<1>2. AmDivisor(lower) /\ AmDivisor(upper)
  <2>1. divisor + 1 \in Nat
    BY <1>1
  <2> QED BY <1>1, <2>1, RoundUpIs
<1> HIDE DEF lower, upper
<1>3. UpTo(131072, best)
  BY <1>2 DEF AmDivisor, UpTo
<1> HIDE DEF best
<1>4. UpTo(131072, code)
  BY <1>3, EncodedIs DEF UpTo
<1>5. ftdi_to_clkbits_AM(b) = [baud |-> rate(best), encoded |-> code]
  BY DEF ftdi_to_clkbits_AM, best, lower, upper, divisor
<1> HIDE DEF code
<1> QED BY <1>4, <1>5

LEMMA ConvertIs ==
  ASSUME NEW b \in Int, b > 0, NEW t
  PROVE  LET words == ftdi_convert_baudrate(b, t, Interface)
         IN  [value |-> words.value, index |-> words.index] \in Words
<1> DEFINE fast == t \in HTypes /\ b * 10 > H_CLK \div 16383
           bits == CASE fast -> ftdi_to_clkbits(b, H_CLK, 10)
                     [] ~fast /\ t # "AM" -> ftdi_to_clkbits(b, C_CLK, 16)
                     [] OTHER -> ftdi_to_clkbits_AM(b)
           word == bits.encoded + IF fast THEN 2^17 ELSE 0
           words == ftdi_convert_baudrate(b, t, Interface)
<1>1. /\ UpTo(131072, ftdi_to_clkbits(b, H_CLK, 10).encoded)
      /\ UpTo(131072, ftdi_to_clkbits(b, C_CLK, 16).encoded)
  <2>1. (H_CLK \div 10) * 16 \in Nat /\ (C_CLK \div 16) * 16 \in Nat
    BY DEF H_CLK, C_CLK
  <2> QED BY <2>1, ClkbitsIs
<1>2. UpTo(131072, ftdi_to_clkbits_AM(b).encoded)
  BY ClkbitsAmIs
<1>3. words = [baud |-> bits.baud, value |-> word % 2^16,
               index |-> IF t \in HTypes THEN (word \div 2^16) * 256 + Interface
                         ELSE word \div 2^16]
  BY DEF ftdi_convert_baudrate
<1> HIDE DEF fast, words
<1>4. UpTo(131072, bits.encoded)
  BY <1>1, <1>2
<1> HIDE DEF bits
<1>5. UpTo(262144, word)
  BY <1>4, Powers DEF UpTo
<1> HIDE DEF word
<1>6. /\ word % 65536 \in Nat /\ word % 65536 < 65536
      /\ word \div 65536 \in Nat /\ word \div 65536 <= 4
  BY <1>5 DEF UpTo
<1>7. words.value \in 0..(2^16 - 1)
  BY <1>3, <1>6, Powers
<1>8. words.index \in 0..(2^16 - 1)
  <2>1. (word \div 65536) * 256 + 1 \in Nat /\ (word \div 65536) * 256 + 1 < 65536
    BY <1>6
  <2> QED BY <1>3, <1>6, <2>1, Powers DEF Interface
<1>9. [value |-> words.value, index |-> words.index] \in Words
  BY <1>7, <1>8 DEF Words
<1> QED BY <1>9 DEF words

-----------------------------------------------------------------------------
(* The rest of the type invariant: speeds, sizes, counts, and what is in   *)
(* the library's buffer.                                                   *)
SpeedInv ==
  type \in Types /\ baudrate \in Int /\ bitbang_enabled \in BOOLEAN /\ line \in Words

SizeInv ==
  /\ writebuffer_chunksize \in WriteChunks /\ reading.size \in ReadSizes \cup {0}
  /\ \A w \in Writers : writing[w].size \in WriteSizes \cup {0}

BufferInv == sent <= MaxSent /\ \A i \in 1..Len(readbuffer) : readbuffer[i] <= sent

CountInv == opens \in 0..MaxOpens /\ faults \in 0..MaxFaults

LEMMA Bounds == MaxSent \in Nat /\ MaxOpens \in Nat /\ MaxFaults \in Nat
BY FtdiAssumption

LEMMA RestInit == FtdiInit => SpeedInv /\ SizeInv /\ BufferInv /\ CountInv
<1> SUFFICES ASSUME FtdiInit PROVE SpeedInv /\ SizeInv /\ BufferInv /\ CountInv
  OBVIOUS
<1>1. SpeedInv
  <2>1. NoLine \in Words
    BY Powers DEF NoLine, Words
  <2>2. "BM" \in Types /\ -1 \in Int
    BY DEF Types, BMTypes
  <2> QED BY <2>1, <2>2 DEF FtdiInit, SpeedInv
<1>2. SizeInv
  BY DEF FtdiInit, SizeInv, NoRead, NoWrite
<1>3. BufferInv
  <2>1. Len(readbuffer) = 0 /\ sent = 0
    BY DEF FtdiInit
  <2> QED BY <2>1, Bounds DEF BufferInv
<1>4. CountInv
  BY Bounds DEF FtdiInit, CountInv
<1> QED BY <1>1, <1>2, <1>3, <1>4

LEMMA SpeedStep == ASSUME SpeedInv, [FtdiNext]_vars PROVE SpeedInv'
<1> DEFINE Same == UNCHANGED speedVars
<1>1. ASSUME NEW t \in Types, NEW b \in Int, b > 0, ftdi_set_baudrate(b, t)
      PROVE  baudrate' \in Int /\ line' \in Words
  BY <1>1, ConvertIs DEF ftdi_set_baudrate
<1>2. ASSUME NEW t \in ChipTypes, Open(t) PROVE SpeedInv'
  <2>1. t \in Types
    BY FtdiAssumption
  <2>2. 9600 * BitbangFactor \in Int /\ 9600 * BitbangFactor > 0
    BY DEF BitbangFactor
  <2>3. \/ type' = t /\ ftdi_set_baudrate(9600 * BitbangFactor, t)
        \/ type' = t /\ UNCHANGED <<line, baudrate>>
        \/ UNCHANGED <<type, line, baudrate>>
    BY <1>2 DEF Open, NotOpened, HalfOpened, OpenedInVain, WasReset
  <2>4. UNCHANGED bitbang_enabled
    BY <1>2 DEF Open
  <2>5. ftdi_set_baudrate(9600 * BitbangFactor, t) => baudrate' \in Int /\ line' \in Words
    BY <1>1, <2>1, <2>2
  <2> QED BY <2>1, <2>3, <2>4, <2>5 DEF SpeedInv
<1>3. ASSUME NEW b \in Rates, SetBaudrate(b) PROVE SpeedInv'
  <2>1. b * BitbangFactor \in Int
    BY FtdiAssumption DEF BitbangFactor
  <2>2. b * BitbangFactor > 0 /\ ftdi_set_baudrate(b * BitbangFactor, type)
    BY <1>3 DEF SetBaudrate, Accepted
  <2>3. baudrate' \in Int /\ line' \in Words
    BY <1>1, <2>1, <2>2 DEF SpeedInv
  <2> QED BY <1>3, <2>3 DEF SetBaudrate, SpeedInv
<1>4. CASE SetBitmode
  BY <1>4 DEF SetBitmode, SpeedInv
<1>5. ASSUME Close \/ Purge \/ Reading PROVE Same
  <2>1. ASSUME NEW n \in ReadSizes, ReadKept(n) \/ ReadSubmitKept(n) \/ ReadSubmitFails(n)
        PROVE  Same
    BY <2>1 DEF ReadKept, ReadSubmitKept, ReadSubmitFails
  <2>2. ASSUME NEW n \in ReadSizes, NEW how \in {"sync", "async"}, ReadBegins(how, n)
        PROVE  Same
    BY <2>2 DEF ReadBegins
  <2>3. ASSUME \/ ReadEnds \/ ReadOverflows \/ ReadFails \/ ReadReturns \/ ReadLoops
               \/ ReadCallbackEnds \/ ReadCallbackResubmits \/ ReadDone
        PROVE Same
    BY <2>3 DEF ReadEnds, ReadOverflows, ReadFails, ReadReturns, ReadLoops,
                ReadCallbackEnds, ReadCallbackResubmits, ReadDone
  <2>4. ASSUME Close \/ Purge PROVE Same
    BY <2>4 DEF Close, Purge
  <2> HIDE DEF Same
  <2> QED BY <1>5, <2>1, <2>2, <2>3, <2>4 DEF Reading
<1>6. ASSUME NEW c, ReadSetChunksize(c) \/ WriteSetChunksize(c) PROVE Same
  BY <1>6 DEF ReadSetChunksize, WriteSetChunksize
<1>7. ASSUME NEW w \in Writers, Writing(w) PROVE Same
  <2>1. ASSUME NEW n \in WriteSizes, NEW how \in {"sync", "async"}, WriteBegins(w, how, n)
        PROVE  Same
    BY <2>1 DEF WriteBegins
  <2>2. ASSUME WriteEnds(w) \/ WriteReturns(w) \/ WriteCallback(w) \/ WriteDone(w) PROVE Same
    BY <2>2 DEF WriteEnds, WriteReturns, WriteCallback, WriteDone
  <2> QED BY <1>7, <2>1, <2>2 DEF Writing
<1>8. ASSUME UNCHANGED vars PROVE Same
  BY <1>8 DEF vars
<1>9. Same => SpeedInv'
  BY DEF speedVars, SpeedInv
<1> HIDE DEF Same
<1> QED BY <1>2, <1>3, <1>4, <1>5, <1>6, <1>7, <1>8, <1>9 DEF FtdiNext

LEMMA CountStep == ASSUME CountInv, [FtdiNext]_vars PROVE CountInv'
<1> DEFINE Counts == /\ UNCHANGED opens \/ (opens < MaxOpens /\ opens' = opens + 1)
                     /\ UNCHANGED faults \/ Fault
<1>1. ASSUME NEW t, Open(t) PROVE Counts
  BY <1>1 DEF Open, NotOpened, HalfOpened, OpenedInVain, WasReset
<1>2. ASSUME Close \/ Purge \/ SetBitmode PROVE Counts
  BY <1>2 DEF Close, Purge, SetBitmode, boundVars
<1>3. ASSUME NEW b, SetBaudrate(b) \/ ReadSetChunksize(b) \/ WriteSetChunksize(b) PROVE Counts
  BY <1>3 DEF SetBaudrate, ReadSetChunksize, WriteSetChunksize, boundVars
<1>4. ASSUME Reading PROVE Counts
  <2>1. ASSUME NEW n \in ReadSizes, ReadKept(n) \/ ReadSubmitKept(n) \/ ReadSubmitFails(n)
        PROVE  Counts
    BY <2>1 DEF ReadKept, ReadSubmitKept, ReadSubmitFails, boundVars
  <2>2. ASSUME NEW n \in ReadSizes, NEW how \in {"sync", "async"}, ReadBegins(how, n)
        PROVE  Counts
    BY <2>2 DEF ReadBegins, boundVars
  <2>3. ASSUME \/ ReadOverflows \/ ReadFails \/ ReadReturns \/ ReadLoops
               \/ ReadCallbackEnds \/ ReadDone
        PROVE Counts
    BY <2>3 DEF ReadOverflows, ReadFails, ReadReturns, ReadLoops, ReadCallbackEnds,
                ReadDone, boundVars
  <2>4. ASSUME ReadEnds \/ ReadCallbackResubmits PROVE Counts
    <3>1. CASE ReadEnds
      <4>1. PICK s \in {"COMPLETED", "TIMED_OUT"} :
              (s = "TIMED_OUT" => Fault) /\ (s = "COMPLETED" => UNCHANGED faults)
        BY <3>1 DEF ReadEnds
      <4>2. UNCHANGED opens
        BY <3>1 DEF ReadEnds
      <4> QED BY <4>1, <4>2
    <3>2. CASE ReadCallbackResubmits
      BY <3>2 DEF ReadCallbackResubmits
    <3> QED BY <2>4, <3>1, <3>2
  <2> HIDE DEF Counts
  <2> QED BY <1>4, <2>1, <2>2, <2>3, <2>4 DEF Reading
<1>5. ASSUME NEW w \in Writers, Writing(w) PROVE Counts
  <2>1. ASSUME NEW n \in WriteSizes, NEW how \in {"sync", "async"}, WriteBegins(w, how, n)
        PROVE  Counts
    BY <2>1 DEF WriteBegins, boundVars
  <2>2. ASSUME WriteEnds(w) PROVE Counts
    <3>1. PICK n \in 0..writing[w].length :
            IF n = writing[w].length THEN UNCHANGED faults ELSE Fault
      BY <2>2 DEF WriteEnds
    <3>2. UNCHANGED opens
      BY <2>2 DEF WriteEnds
    <3> QED BY <3>1, <3>2
  <2>3. ASSUME WriteReturns(w) \/ WriteDone(w) PROVE Counts
    BY <2>3 DEF WriteReturns, WriteDone, boundVars
  <2>4. ASSUME WriteCallback(w) PROVE Counts
    BY <2>4 DEF WriteCallback
  <2> HIDE DEF Counts
  <2> QED BY <1>5, <2>1, <2>2, <2>3, <2>4 DEF Writing
<1>6. ASSUME UNCHANGED vars PROVE Counts
  BY <1>6 DEF vars, boundVars
<1>7. Counts => CountInv'
  BY Bounds DEF CountInv, Fault
<1> HIDE DEF Counts
<1> QED BY <1>1, <1>2, <1>3, <1>4, <1>5, <1>6, <1>7 DEF FtdiNext

(* A step of one write, whose size is one of the sizes.                    *)
LEMMA OneSize ==
  ASSUME SizeInv, WriteInv, NEW w \in Writers, NEW tc,
         writing' = [writing EXCEPT ![w] = tc], tc.size \in WriteSizes \cup {0},
         UNCHANGED <<writebuffer_chunksize, reading>>
  PROVE  SizeInv'
<1>1. writing'[w] = tc /\ \A v \in Writers : v # w => writing'[v] = writing[v]
  BY DEF WriteInv
<1> QED BY <1>1 DEF SizeInv

LEMMA WriteSizesStep ==
  ASSUME SizeInv, WriteInv, NEW w \in Writers, Writing(w) PROVE SizeInv'
<1>1. writing[w] \in Writes /\ writing[w].size \in WriteSizes \cup {0}
      /\ writebuffer_chunksize \in Nat /\ Follows(writing[w], Len(wire[w]))
  BY DEF WriteInv, SizeInv
<1>2. UNCHANGED <<writebuffer_chunksize, reading>>
  <2>1. ASSUME NEW n \in WriteSizes, NEW how \in {"sync", "async"}, WriteBegins(w, how, n)
        PROVE  UNCHANGED <<writebuffer_chunksize, reading>>
    BY <2>1 DEF WriteBegins, chunkVars, readVars
  <2>2. ASSUME WriteEnds(w) \/ WriteReturns(w) \/ WriteCallback(w) \/ WriteDone(w)
        PROVE  UNCHANGED <<writebuffer_chunksize, reading>>
    BY <2>2 DEF WriteEnds, WriteReturns, WriteCallback, WriteDone, chunkVars, readVars
  <2> QED BY <2>1, <2>2 DEF Writing
<1>3. ASSUME NEW tc \in Writes, tc.offset <= tc.size, tc.size \in WriteSizes \cup {0}
      PROVE  NextPiece(tc).size \in WriteSizes \cup {0}
  BY <1>1, <1>3, NextPieceIs
<1>4. ASSUME NEW tc \in Writes, NEW r, tc.size \in WriteSizes \cup {0}
      PROVE  Done(tc, r).size \in WriteSizes \cup {0}
  BY <1>4 DEF Done, Writes
<1>5. ASSUME NEW n \in WriteSizes, NEW how \in {"sync", "async"}, WriteBegins(w, how, n)
      PROVE  SizeInv'
  <2> DEFINE tc == [NoWrite EXCEPT !.how = how, !.size = n]
  <2>1. n \in Nat
    BY FtdiAssumption
  <2>2. tc \in Writes /\ tc.offset = 0 /\ tc.size = n
    BY <2>1 DEF NoWrite, Writes
  <2>3. writing' = [writing EXCEPT ![w] = NextPiece(tc)]
    BY <1>5 DEF WriteBegins
  <2> HIDE DEF tc
  <2>4. NextPiece(tc).size \in WriteSizes \cup {0}
    BY <1>3, <2>1, <2>2
  <2> QED BY <1>2, <2>3, <2>4, OneSize
<1>6. ASSUME WriteEnds(w) PROVE SizeInv'
  <2>1. PICK n, s : writing' = [writing EXCEPT ![w].flight = "ended", ![w].length = n,
                                               ![w].status = s]
    BY <1>6 DEF WriteEnds
  <2>2. writing'[w].size = writing[w].size
    BY <1>1, <2>1 DEF WriteInv, Writes
  <2>3. \A v \in Writers : v # w => writing'[v] = writing[v]
    BY <2>1 DEF WriteInv
  <2> QED BY <1>1, <1>2, <2>2, <2>3 DEF SizeInv
<1>7. ASSUME WriteReturns(w) \/ WriteCallback(w) PROVE SizeInv'
  <2> DEFINE tc == Counted(w)
             ended == [tc EXCEPT !.completed = TRUE]
  <2>1. writing[w].flight = "ended"
    BY <1>7 DEF WriteReturns, WriteCallback, Answered
  <2>2. tc \in Writes /\ tc.offset <= tc.size /\ tc.size \in WriteSizes \cup {0}
    <3>1. Counted(w) \in Writes /\ Counted(w).offset <= Counted(w).size
      BY <2>1, CountedIs
    <3>2. Counted(w).size = writing[w].size
      BY <1>1 DEF Counted, Writes
    <3> QED BY <1>1, <3>1, <3>2
  <2>3. \/ writing' = [writing EXCEPT ![w] = Done(tc, -1)]
        \/ writing' = [writing EXCEPT ![w] = NextPiece(tc)]
        \/ writing' = [writing EXCEPT ![w] = Done(tc, tc.offset)]
        \/ writing' = [writing EXCEPT ![w] = ended]
    BY <1>7 DEF WriteReturns, WriteCallback
  <2> HIDE DEF tc
  <2>4. ended.size \in WriteSizes \cup {0}
    BY <2>2 DEF Writes
  <2>5. /\ Done(tc, -1).size \in WriteSizes \cup {0}
        /\ Done(tc, tc.offset).size \in WriteSizes \cup {0}
        /\ NextPiece(tc).size \in WriteSizes \cup {0}
    BY <1>3, <1>4, <2>2
  <2> HIDE DEF ended
  <2>6. CASE writing' = [writing EXCEPT ![w] = Done(tc, -1)]
    BY <1>2, <2>5, <2>6, OneSize
  <2>7. CASE writing' = [writing EXCEPT ![w] = NextPiece(tc)]
    BY <1>2, <2>5, <2>7, OneSize
  <2>8. CASE writing' = [writing EXCEPT ![w] = Done(tc, tc.offset)]
    BY <1>2, <2>5, <2>8, OneSize
  <2>9. CASE writing' = [writing EXCEPT ![w] = ended]
    BY <1>2, <2>4, <2>9, OneSize
  <2> QED BY <2>3, <2>6, <2>7, <2>8, <2>9
<1>8. ASSUME WriteDone(w) PROVE SizeInv'
  <2>1. PICK r : writing' = [writing EXCEPT ![w] = Done(writing[w], r)]
    BY <1>8 DEF WriteDone
  <2>2. Done(writing[w], r).size \in WriteSizes \cup {0}
    BY <1>1, <1>4
  <2> QED BY <1>2, <2>1, <2>2, OneSize
<1>9. Writing(w)
  OBVIOUS
<1> QED BY <1>5, <1>6, <1>7, <1>8, <1>9 DEF Writing

LEMMA SizeStep == ASSUME SizeInv, WriteInv, ReadInv, [FtdiNext]_vars PROVE SizeInv'
<1> DEFINE Same == UNCHANGED <<writing, writebuffer_chunksize>>
           Size == reading'.size \in ReadSizes \cup {0}
<1>1. reading \in Reads /\ reading.size \in ReadSizes \cup {0}
  BY DEF ReadInv, ReadTypes, SizeInv
<1>2. ASSUME NEW t \in ChipTypes, Open(t) PROVE Same /\ Size
  BY <1>1, <1>2 DEF Open, writeVars, chunkVars, readVars
<1>3. ASSUME Close \/ Purge \/ SetBitmode PROVE Same /\ Size
  <2>1. Same /\ UNCHANGED reading
    BY <1>3 DEF Close, Purge, SetBitmode, writeVars, chunkVars, readVars
  <2> QED BY <1>1, <2>1
<1>4. ASSUME NEW b \in Rates, SetBaudrate(b) PROVE Same /\ Size
  BY <1>1, <1>4 DEF SetBaudrate, writeVars, chunkVars, readVars
<1>5. ASSUME NEW c \in ReadChunks, ReadSetChunksize(c) PROVE Same /\ Size
  BY <1>1, <1>5 DEF ReadSetChunksize, writeVars
<1>6. ASSUME NEW c \in WriteChunks, WriteSetChunksize(c) PROVE SizeInv'
  BY <1>6 DEF WriteSetChunksize, writeVars, readVars, SizeInv
<1>7. ASSUME Reading PROVE Same /\ Size
  <2>1. ASSUME NEW n \in ReadSizes, ReadKept(n) \/ ReadSubmitFails(n) PROVE Same /\ Size
    <3>1. Same /\ UNCHANGED reading
      BY <2>1 DEF ReadKept, ReadSubmitFails, writeVars, chunkVars
    <3> QED BY <1>1, <3>1
  <2>2. ASSUME NEW n \in ReadSizes, ReadSubmitKept(n) PROVE Same /\ Size
    BY <2>2 DEF ReadSubmitKept, NoRead, writeVars, chunkVars
  <2>3. ASSUME NEW n \in ReadSizes, NEW how \in {"sync", "async"}, ReadBegins(how, n)
        PROVE  Same /\ Size
    BY <2>3 DEF ReadBegins, Begin, NoRead, writeVars, chunkVars
  <2>4. ASSUME ReadOverflows \/ ReadFails \/ ReadReturns \/ ReadDone PROVE Same /\ Size
    BY <2>4, NoReadIs DEF ReadOverflows, ReadFails, ReadReturns, ReadDone, writeVars,
                          chunkVars
  <2>5. ASSUME ReadEnds \/ ReadLoops \/ ReadCallbackEnds \/ ReadCallbackResubmits PROVE Same /\ Size
    <3>1. Same
      BY <2>5 DEF ReadEnds, ReadLoops, ReadCallbackEnds, ReadCallbackResubmits, writeVars,
                  chunkVars
    <3>2. reading'.size = reading.size
      <4>1. CASE ReadEnds
        BY <1>1, <4>1 DEF ReadEnds, Reads
      <4>2. CASE ReadLoops \/ ReadCallbackEnds \/ ReadCallbackResubmits
        BY <1>1, <4>2 DEF ReadLoops, ReadCallbackEnds, ReadCallbackResubmits, Reads
      <4> QED BY <2>5, <4>1, <4>2
    <3> QED BY <1>1, <3>1, <3>2
  <2> HIDE DEF Same, Size
  <2> QED BY <1>7, <2>1, <2>2, <2>3, <2>4, <2>5 DEF Reading
<1>8. ASSUME NEW w \in Writers, Writing(w) PROVE SizeInv'
  BY <1>8, WriteSizesStep
<1>9. ASSUME UNCHANGED vars PROVE Same /\ Size
  BY <1>1, <1>9 DEF vars, writeVars, chunkVars, readVars
<1>10. Same /\ Size => SizeInv'
  BY DEF SizeInv
<1> HIDE DEF Same, Size
<1> QED BY <1>2, <1>3, <1>4, <1>5, <1>6, <1>7, <1>8, <1>9, <1>10 DEF FtdiNext

LEMMA FirstOf ==
  ASSUME NEW last \in Nat, NEW n \in Nat, n <= last
  PROVE  last - n + 1 \in Nat /\ (last - n + 1) + n = last + 1
OBVIOUS

(* The library's buffer has bytes that the chip has given.                 *)
LEMMA BufferStep ==
  ASSUME BufferInv, ReadInv, ReadInv', [FtdiNext]_vars PROVE BufferInv'
<1> DEFINE Same == UNCHANGED <<readbuffer, sent>>
           Rest == UNCHANGED sent /\ (readbuffer' = readbuffer
                                      \/ readbuffer' = Moved(readbuffer, reading.length))
<1>1. ASSUME NEW t \in ChipTypes, Open(t) PROVE Same
  BY <1>1 DEF Open, readVars
<1>2. ASSUME Close \/ Purge \/ SetBitmode PROVE Same
  BY <1>2 DEF Close, Purge, SetBitmode, bufferVars, readVars
<1>3. ASSUME NEW c, SetBaudrate(c) \/ ReadSetChunksize(c) \/ WriteSetChunksize(c) PROVE Same
  BY <1>3 DEF SetBaudrate, ReadSetChunksize, WriteSetChunksize, bufferVars, readVars
<1>4. ASSUME Reading, ~ReadEnds, ~ReadOverflows
      PROVE  Same \/ (reading.flight = "ended" /\ reading.length > 2 /\ Rest)
  <2>1. ASSUME NEW n \in ReadSizes, ReadKept(n) \/ ReadSubmitKept(n) \/ ReadSubmitFails(n)
        PROVE  Same
    BY <2>1 DEF ReadKept, ReadSubmitKept, ReadSubmitFails
  <2>2. ASSUME NEW n \in ReadSizes, NEW how \in {"sync", "async"}, ReadBegins(how, n)
        PROVE  Same
    BY <2>2 DEF ReadBegins
  <2>3. ASSUME ReadFails \/ ReadLoops \/ ReadCallbackResubmits \/ ReadDone PROVE Same
    BY <2>3 DEF ReadFails, ReadLoops, ReadCallbackResubmits, ReadDone, bufferVars
  <2>4. ASSUME ReadReturns
        PROVE  Same \/ (reading.flight = "ended" /\ reading.length > 2 /\ Rest)
    <3>1. reading.length \in Nat /\ reading.flight = "ended" /\ UNCHANGED sent
      BY <2>4 DEF ReadReturns, SyncAnswered, ReadInv, ReadTypes, Reads
    <3>2. CASE reading.length <= 2
      BY <2>4, <3>1, <3>2 DEF ReadReturns, bufferVars
    <3>3. CASE reading.length > 2
      BY <2>4, <3>1, <3>3 DEF ReadReturns, KeepRest
    <3> QED BY <3>1, <3>2, <3>3
  <2>5. ASSUME ReadCallbackEnds
        PROVE  reading.flight = "ended" /\ reading.length > 2 /\ Rest
    BY <2>5 DEF ReadCallbackEnds, AsyncAnswered, KeepRest
  <2> HIDE DEF Same, Rest
  <2> QED BY <1>4, <2>1, <2>2, <2>3, <2>4, <2>5 DEF Reading
<1>5. ASSUME NEW w \in Writers, Writing(w) PROVE Same
  <2>1. ASSUME NEW n \in WriteSizes, NEW how \in {"sync", "async"}, WriteBegins(w, how, n)
        PROVE  Same
    BY <2>1 DEF WriteBegins, bufferVars, readVars
  <2>2. ASSUME WriteEnds(w) \/ WriteReturns(w) \/ WriteCallback(w) \/ WriteDone(w) PROVE Same
    BY <2>2 DEF WriteEnds, WriteReturns, WriteCallback, WriteDone, bufferVars, readVars
  <2> QED BY <1>5, <2>1, <2>2 DEF Writing
<1>6. ASSUME UNCHANGED vars PROVE Same
  BY <1>6 DEF vars, bufferVars, readVars
<1>7. Same => BufferInv'
  BY DEF BufferInv
<1>8. ASSUME reading.flight = "ended", reading.length > 2, Rest PROVE BufferInv'
  <2>1. PICK n \in Nat, f \in Nat : n <= sent /\ Answer(n)
    BY <1>8 DEF ReadInv, Arrival
  <2>2. ReadTypes
    BY DEF ReadInv
  <2>3. PacketsOf(readbuffer, sent - n + 1, n, reading.length) /\ Len(readbuffer) = reading.length
    BY <2>1, <2>2, AnswerIs
  <2>4. /\ Len(Moved(readbuffer, reading.length)) = reading.length
        /\ \A i \in 1..reading.length : \E j \in 1..reading.length :
             Moved(readbuffer, reading.length)[i] = readbuffer[j]
    BY <1>8, <2>3, MovedIs
  <2>5. CASE readbuffer' = Moved(readbuffer, reading.length)
    BY <1>8, <2>3, <2>4, <2>5 DEF BufferInv
  <2>6. CASE readbuffer' = readbuffer
    BY <1>8, <2>6 DEF BufferInv
  <2> QED BY <1>8, <2>5, <2>6
<1>9. CASE ReadEnds
  <2>1. PICK n \in 0..(MaxSent - sent) : sent' = sent + n
    BY <1>9 DEF ReadEnds
  <2>2. sent \in Nat /\ sent' \in Nat /\ sent' <= MaxSent
    BY <2>1, Bounds DEF ReadInv, ReadTypes
  <2>3. reading'.flight = "ended"
    <3>1. reading \in Reads
      BY DEF ReadInv, ReadTypes
    <3> QED BY <1>9, <3>1 DEF ReadEnds, Reads
  <2>4. PICK m \in Nat, f \in Nat : m <= sent' /\ Arrival(m)'
    BY DEF ReadInv
  <2>5. \E x, y \in Nat : /\ y + x = sent' + 1 /\ y \in Nat
                          /\ PacketsOf(readbuffer', y, x, reading'.length)
    <3>1. ReadTypes' /\ Answer(m)'
      BY <2>3, <2>4 DEF ReadInv, Arrival
    <3>2. /\ reading'.status = "TIMED_OUT" => m % Payload = 0
          /\ reading'.length = LengthOf(m, readbuffer_chunksize', reading'.status)
          /\ readbuffer' = Packets(sent' - m + 1, m, reading'.length)
      BY <3>1 DEF Answer
    <3>3. /\ reading'.length \in Nat
          /\ \/ m % Payload = 0 /\ reading'.length = (m \div Payload) * PacketSize
             \/ reading'.length = (m \div Payload) * PacketSize + 2 + (m % Payload)
      BY <3>2, LengthIs
    <3>4. sent' - m + 1 \in Nat /\ (sent' - m + 1) + m = sent' + 1
      BY <2>2, <2>4, FirstOf
    <3>5. PacketsOf(readbuffer', sent' - m + 1, m, reading'.length)
      BY <3>2, <3>3, <3>4 DEF PacketsOf
    <3> QED BY <3>4, <3>5
  <2>6. PICK x, y \in Nat : y + x = sent' + 1 /\ PacketsOf(readbuffer', y, x, reading'.length)
    BY <2>5
  <2>7. /\ readbuffer' \in Seq(Nat) /\ Len(readbuffer') = reading'.length
        /\ \A j \in 1..reading'.length :
             readbuffer'[j] = 0 \/ (y <= readbuffer'[j] /\ readbuffer'[j] < y + x)
    BY <2>6, PacketsInOrder
  <2>8. ASSUME NEW j \in 1..Len(readbuffer') PROVE readbuffer'[j] <= sent'
    <3>1. readbuffer'[j] \in Nat
      BY <2>7, ElementOfSeq
    <3>2. readbuffer'[j] = 0 \/ readbuffer'[j] < sent' + 1
      BY <2>6, <2>7
    <3> QED BY <2>2, <3>1, <3>2
  <2> QED BY <2>2, <2>8 DEF BufferInv
<1>10. CASE ReadOverflows
  <2>1. PICK n \in 0..(MaxSent - sent) : sent' = sent + n
    BY <1>10 DEF ReadOverflows
  <2>2. sent \in Nat /\ sent' \in Nat /\ sent <= sent' /\ sent' <= MaxSent
    BY <2>1, Bounds DEF ReadInv, ReadTypes
  <2>3. readbuffer' = readbuffer /\ readbuffer \in Seq(Nat)
    BY <1>10 DEF ReadOverflows, bufferVars, ReadInv, ReadTypes
  <2>4. ASSUME NEW j \in 1..Len(readbuffer) PROVE readbuffer[j] <= sent'
    <3>1. readbuffer[j] \in Nat /\ readbuffer[j] <= sent
      BY <2>3, ElementOfSeq DEF BufferInv
    <3> QED BY <2>2, <3>1
  <2> QED BY <2>2, <2>3, <2>4 DEF BufferInv
<1> HIDE DEF Same, Rest
<1> QED BY <1>1, <1>2, <1>3, <1>4, <1>5, <1>6, <1>7, <1>8, <1>9, <1>10 DEF FtdiNext

LEMMA FtdiTypes ==
  ASSUME ReadInv, OpenInv, WriteInv, SpeedInv, SizeInv, BufferInv, CountInv
  PROVE  FtdiTypeOK
<1>1. ReadTypes /\ CallShape
  BY DEF ReadInv
<1>2. PICK n, f, p, l, k \in Nat : Numbers(n, f, p, l, k)
  BY ReadNow
<1>3. /\ taken \in Nat /\ lost \in SUBSET Nat /\ sent \in Nat /\ sent <= MaxSent
      /\ readbuffer \in Seq(Nat) /\ readbuffer_remaining \in Nat /\ MaxSent \in Nat
  BY <1>1, Bounds DEF ReadTypes, BufferInv
<1>4. /\ p <= sent /\ taken < f /\ f + l <= k /\ k <= p + 1
      /\ \A b \in lost : taken < b /\ b <= p
  BY <1>2, <1>3 DEF Covers
<1>5. sent \in 0..MaxSent /\ taken \in 0..sent /\ lost \subseteq 1..sent
  <2>1. taken <= sent
    BY <1>3, <1>4
  <2>2. \A b \in lost : b \in 1..sent
    BY <1>3, <1>4
  <2> QED BY <1>3, <2>1, <2>2
<1>6. readbuffer \in Seq(0..MaxSent)
  <2>1. \A i \in 1..Len(readbuffer) : readbuffer[i] \in 0..MaxSent
    <3> SUFFICES ASSUME NEW i \in 1..Len(readbuffer) PROVE readbuffer[i] \in 0..MaxSent
      OBVIOUS
    <3>1. readbuffer[i] \in Nat
      BY <1>3, ElementOfSeq
    <3>2. readbuffer[i] <= sent
      BY DEF BufferInv
    <3> QED BY <1>3, <3>1, <3>2
  <2>2. readbuffer \in [1..Len(readbuffer) -> Nat] /\ Len(readbuffer) \in Nat
    BY <1>3, LenProperties
  <2>3. readbuffer \in [1..Len(readbuffer) -> 0..MaxSent]
    BY <2>1, <2>2
  <2> QED BY <2>2, <2>3, SeqDef
<1>7. reading.buf \in Seq(1..MaxSent)
  <2>1. \A i \in 1..Len(reading.buf) : reading.buf[i] \in 1..MaxSent
    <3> SUFFICES ASSUME NEW i \in 1..Len(reading.buf) PROVE reading.buf[i] \in 1..MaxSent
      OBVIOUS
    <3>1. reading.buf[i] = f + i - 1 /\ i <= l /\ i \in Nat /\ i >= 1
      BY <1>2 DEF RunOf
    <3> QED BY <1>3, <1>4, <3>1
  <2>2. reading.buf \in [1..Len(reading.buf) -> Nat] /\ Len(reading.buf) \in Nat
    BY <1>2, LenProperties
  <2>3. reading.buf \in [1..Len(reading.buf) -> 1..MaxSent]
    BY <2>1, <2>2
  <2> QED BY <2>2, <2>3, SeqDef
<1>8. reading \in [how : {"no", "sync", "async"}, size : ReadSizes \cup {0},
                   buf : Seq(1..MaxSent), completed : BOOLEAN,
                   flight : {"none", "queued", "ended"}, length : Nat,
                   status : {"COMPLETED", "TIMED_OUT"}]
  <2>1. reading \in Reads /\ reading.size \in ReadSizes \cup {0}
    BY <1>1 DEF ReadTypes, SizeInv
  <2> QED BY <1>7, <2>1 DEF Reads
<1>9. writing \in [Writers -> [how : {"no", "sync", "async", "done"},
                               size : WriteSizes \cup {0}, offset : Nat,
                               completed : BOOLEAN,
                               flight : {"none", "queued", "ended"}, from : Nat,
                               length : Nat, status : {"COMPLETED", "TIMED_OUT"},
                               result : Nat \cup {-1}]]
  <2>1. writing \in [Writers -> Writes] /\ \A w \in Writers : writing[w].size \in WriteSizes \cup {0}
    BY DEF WriteInv, SizeInv
  <2> QED BY <2>1 DEF Writes
<1>10. wire \in [Writers -> Seq(Nat)]
  BY DEF WriteInv
<1>11. /\ usb_dev \in BOOLEAN /\ readbuffer_offset \in Nat /\ readbuffer_remaining \in Nat
       /\ readbuffer_offset + readbuffer_remaining <= Len(readbuffer)
       /\ \E c \in ReadChunks : Len(readbuffer) <= c
       /\ readbuffer_chunksize \in ReadChunks /\ Len(reading.buf) <= reading.size
  BY <1>1 DEF ReadTypes, CallShape
<1>12. /\ type \in Types /\ baudrate \in Int /\ bitbang_enabled \in BOOLEAN
       /\ line \in [value : 0..(2^16 - 1), index : 0..(2^16 - 1)]
  BY DEF SpeedInv, Words
<1>13. /\ writebuffer_chunksize \in WriteChunks
       /\ opens \in 0..MaxOpens /\ faults \in 0..MaxFaults
  BY DEF SizeInv, CountInv
<1>14. opened \in BOOLEAN /\ since \in 0..sent
  BY <1>3 DEF OpenInv
<1> HIDE DEF Numbers
<1> QED BY <1>5, <1>6, <1>8, <1>9, <1>10, <1>11, <1>12, <1>13, <1>14 DEF FtdiTypeOK

(* Every variable keeps its type: in particular the two words of any speed *)
(* fit in 16 bits, what is kept lies inside of the buffer, and the buffer  *)
(* is never larger than a chunk.                                           *)
THEOREM FtdiTypeCorrect == FtdiSpec => []FtdiTypeOK
<1> DEFINE Rest == SpeedInv /\ SizeInv /\ BufferInv /\ CountInv
           Inv == ReadInv /\ OpenInv /\ WriteInv /\ Rest
<1>1. FtdiInit => Inv
  BY ReadInit, OpenInit, WriteInit, RestInit
<1>2. Inv /\ [FtdiNext]_vars => Inv'
  BY ReadStep, OpenStep, WriteStep, SpeedStep, SizeStep, BufferStep, CountStep
<1>3. Inv => FtdiTypeOK
  BY FtdiTypes
<1> QED BY <1>1, <1>2, <1>3, PTL DEF FtdiSpec

-----------------------------------------------------------------------------
(* The rate that a chip makes of the words, against the promised one.      *)
Near(x, y) == x \in Int /\ y \in Int /\ x <= y + 1 /\ y <= x + 1

Part(code) == CASE code = 1 -> 4 [] code = 3 -> 1 [] code = 4 -> 3 [] OTHER -> code

Eighths(whole, code) ==
  CASE whole = 0 /\ Part(code) = 0 -> 8
    [] whole = 1 /\ Part(code) = 0 -> 12
    [] OTHER -> 8 * whole + Part(code)

Base(fast) == IF fast THEN 12000000 ELSE 3000000

LEMMA PartInverts == \A e \in 0..7 : frac_code[e] \in 0..7 /\ Part(frac_code[e]) = e
<1>1. \A e \in 0..7 : frac_code[e] = <<0, 3, 2, 4, 1, 5, 6, 7>>[e + 1]
  BY DEF frac_code
<1>2. /\ frac_code[0] = 0 /\ frac_code[1] = 3 /\ frac_code[2] = 2 /\ frac_code[3] = 4
      /\ frac_code[4] = 1 /\ frac_code[5] = 5 /\ frac_code[6] = 6 /\ frac_code[7] = 7
  BY <1>1
<1>3. ASSUME NEW e \in 0..7 PROVE frac_code[e] \in 0..7 /\ Part(frac_code[e]) = e
  <2>1. e = 0 \/ e = 1 \/ e = 2 \/ e = 3 \/ e = 4 \/ e = 5 \/ e = 6 \/ e = 7
    OBVIOUS
  <2> QED BY <1>2, <2>1 DEF Part
<1> QED BY <1>3

LEMMA EighthsIs ==
  ASSUME NEW w \in Nat, w >= 2, NEW c PROVE Eighths(w, c) = 8 * w + Part(c)
<1>1. ~(w = 0) /\ ~(w = 1)
  OBVIOUS
<1> QED BY <1>1 DEF Eighths

(* A divisor of two or more is read as it was written.                     *)
LEMMA EncodedReads ==
  ASSUME NEW d \in Nat, 16 <= d, d < 131072
  PROVE  \E w \in Nat, c \in 0..7 :
           /\ w < 16384 /\ Encoded(d) = w + c * 16384 /\ Eighths(w, c) = d
           /\ d % 8 \in AmFractions => c < 4
<1>1. d \div 8 \in Nat /\ d % 8 \in 0..7 /\ d = 8 * (d \div 8) + (d % 8)
  OBVIOUS
<1>2. PICK w \in Nat, e \in 0..7 : w = d \div 8 /\ e = d % 8 /\ d = 8 * w + e
  BY <1>1
<1>3. w >= 2 /\ w < 16384
  BY <1>2
<1>4. PICK c \in 0..7 : c = frac_code[e] /\ Part(c) = e
  BY PartInverts
<1>5. Encoded(d) = w + c * 16384
  BY <1>2, <1>4, Powers DEF Encoded
<1>6. Eighths(w, c) = d
  BY <1>2, <1>3, <1>4, EighthsIs
<1>7. e \in AmFractions => c < 4
  <2>1. frac_code[0] = 0 /\ frac_code[1] = 3 /\ frac_code[2] = 2 /\ frac_code[4] = 1
    BY DEF frac_code
  <2> QED BY <1>4, <2>1 DEF AmFractions
<1> QED BY <1>2, <1>3, <1>5, <1>6, <1>7

(* Two ways to round a quotient.                                           *)
LEMMA HalvedNear ==
  ASSUME NEW y \in Nat, NEW d \in Nat, d > 0
  PROVE  Near(y \div d, Halved((2 * y) \div d))
<1>1. PICK q \in Nat, r \in 0..(d - 1) : q = y \div d /\ y = q * d + r
  <2>1. y \div d \in Nat /\ y % d \in 0..(d - 1) /\ y = (y \div d) * d + (y % d)
    BY Quotients
  <2> QED BY <2>1
<1>2. (2 * y) \div d \in {2 * q, 2 * q + 1}
  <2>1. q * d \in Nat /\ (2 * q) * d = 2 * (q * d) /\ (2 * q + 1) * d = 2 * (q * d) + d
    OBVIOUS
  <2>2. CASE 2 * r < d
    <3>1. 2 * r \in 0..(d - 1) /\ 2 * y = (2 * q) * d + 2 * r
      BY <1>1, <2>1, <2>2
    <3>2. ((2 * q) * d + 2 * r) \div d = 2 * q
      BY <3>1, QuotientIs
    <3> QED BY <3>1, <3>2
  <2>3. CASE 2 * r >= d
    <3>1. 2 * r - d \in 0..(d - 1) /\ 2 * y = (2 * q + 1) * d + (2 * r - d)
      BY <1>1, <2>1, <2>3
    <3>2. ((2 * q + 1) * d + (2 * r - d)) \div d = 2 * q + 1
      BY <3>1, QuotientIs
    <3> QED BY <3>1, <3>2
  <2> QED BY <2>2, <2>3
<1>3. Halved(2 * q) = q /\ Halved(2 * q + 1) = q + 1
  BY DEF Halved
<1> QED BY <1>1, <1>2, <1>3 DEF Near

LEMMA MiddleNear ==
  ASSUME NEW y \in Nat, NEW d \in Nat, d > 0
  PROVE  Near(y \div d, (y + d \div 2) \div d)
<1>1. PICK q \in Nat, r \in 0..(d - 1) : q = y \div d /\ y = q * d + r
  <2>1. y \div d \in Nat /\ y % d \in 0..(d - 1) /\ y = (y \div d) * d + (y % d)
    BY Quotients
  <2> QED BY <2>1
<1>2. PICK h \in Nat : h = d \div 2 /\ h < d
  OBVIOUS
<1>3. q * d \in Nat /\ (q + 1) * d = q * d + d
  OBVIOUS
<1>4. (y + h) \div d \in {q, q + 1}
  <2>1. CASE r + h < d
    <3>1. r + h \in 0..(d - 1) /\ y + h = q * d + (r + h)
      BY <1>1, <1>2, <1>3, <2>1
    <3>2. (q * d + (r + h)) \div d = q
      BY <3>1, QuotientIs
    <3> QED BY <3>1, <3>2
  <2>2. CASE r + h >= d
    <3>1. r + h - d \in 0..(d - 1) /\ y + h = (q + 1) * d + (r + h - d)
      BY <1>1, <1>2, <1>3, <2>2
    <3>2. ((q + 1) * d + (r + h - d)) \div d = q + 1
      BY <3>1, QuotientIs
    <3> QED BY <3>1, <3>2
  <2> QED BY <2>1, <2>2
<1> QED BY <1>1, <1>2, <1>4 DEF Near

(* Bits that a chip with this base clock reads as the promised rate.       *)
Promises(base, codes, bits) ==
  \E w \in Nat, c \in 0..7 :
    /\ w < 16384 /\ c < codes /\ bits.encoded = w + c * 16384
    /\ Near((8 * base) \div Eighths(w, c), bits.baud)

LEMMA NearSame == ASSUME NEW x \in Int PROVE Near(x, x)
BY DEF Near

LEMMA FirstThree ==
  Eighths(0, 0) = 8 /\ Eighths(1, 0) = 12 /\ Eighths(2, 0) = 16
<1>1. Part(0) = 0
  BY DEF Part
<1> QED BY <1>1 DEF Eighths

LEMMA SlowDivisor ==
  ASSUME NEW base \in Nat, NEW b \in Nat, b > 0, b < (8 * base) \div 16
  PROVE  (base * 16) \div b \in Nat /\ (base * 16) \div b >= 32
<1>1. 32 * (b + 1) <= base * 16
  OBVIOUS
<1>2. PICK q \in Nat, r \in 0..(b - 1) : q = (base * 16) \div b /\ base * 16 = q * b + r
  <2>1. base * 16 \in Nat
    OBVIOUS
  <2>2. /\ (base * 16) \div b \in Nat /\ (base * 16) % b \in 0..(b - 1)
        /\ base * 16 = ((base * 16) \div b) * b + ((base * 16) % b)
    BY <2>1, Quotients
  <2> QED BY <2>2
<1>3. ASSUME q <= 31 PROVE FALSE
  <2>1. q * b <= 31 * b
    BY <1>3
  <2>2. q * b + r < 32 * b
    BY <2>1
  <2> QED BY <1>1, <1>2, <2>2
<1> QED BY <1>2, <1>3

LEMMA HalvedAt ==
  ASSUME NEW n \in Nat, n >= 32, n # 262143, n # 262144
  PROVE  Halved(n) \in Nat /\ Halved(n) >= 16 /\ Halved(n) # 131072
BY DEF Halved

LEMMA ClkbitsPromises ==
  ASSUME NEW b \in Nat, b > 0, NEW base \in Nat, NEW clk, NEW clk_div,
         clk \div clk_div = base,
         clk \div (clk_div + clk_div \div 2) = (8 * base) \div 12,
         clk \div (2 * clk_div) = (8 * base) \div 16,
         (base * 16) \div b # 262143, (base * 16) \div b # 262144
  PROVE  Promises(base, 8, ftdi_to_clkbits(b, clk, clk_div))
<1> DEFINE two3rds == (8 * base) \div 12
           half == (8 * base) \div 16
           nearest == Halved((base * 16) \div b)
           best == IF nearest > 2^17 THEN 2^17 - 1 ELSE nearest
           last == [baud |-> Halved((base * 16) \div best), encoded |-> Encoded(best)]
           bits == ftdi_to_clkbits(b, clk, clk_div)
<1>1. bits = CASE b >= base -> [baud |-> base, encoded |-> 0]
               [] b < base /\ b >= two3rds -> [baud |-> two3rds, encoded |-> 1]
               [] b < two3rds /\ b >= half -> [baud |-> half, encoded |-> 2]
               [] OTHER -> last
  BY DEF ftdi_to_clkbits
<1>2. two3rds \in Nat /\ half \in Nat /\ (8 * base) \div 8 = base
  OBVIOUS
<1>3. b < half => Promises(base, 8, last)
  <2> SUFFICES ASSUME b < half PROVE Promises(base, 8, last)
    OBVIOUS
  <2>1. (base * 16) \div b \in Nat /\ (base * 16) \div b >= 32
    BY SlowDivisor
  <2>2. nearest \in Nat /\ nearest >= 16 /\ nearest # 131072
    BY <2>1, HalvedAt
  <2> HIDE DEF nearest
  <2>3. best \in Nat /\ 16 <= best /\ best < 131072
    BY <2>2, Powers
  <2> HIDE DEF best
  <2>4. PICK w \in Nat, c \in 0..7 :
          w < 16384 /\ Encoded(best) = w + c * 16384 /\ Eighths(w, c) = best
    BY <2>3, EncodedReads
  <2>5. PICK y \in Nat : y = 8 * base /\ 2 * y = base * 16
    OBVIOUS
  <2>6. Near(y \div best, Halved((2 * y) \div best))
    <3>1. best > 0
      BY <2>3
    <3> QED BY <2>3, <3>1, HalvedNear
  <2>7. last.encoded = Encoded(best) /\ last.baud = Halved((base * 16) \div best)
    OBVIOUS
  <2> HIDE DEF last
  <2>8. Near((8 * base) \div Eighths(w, c), last.baud)
    BY <2>4, <2>5, <2>6, <2>7
  <2>9. c < 8
    OBVIOUS
  <2> QED BY <2>4, <2>7, <2>8, <2>9 DEF Promises
<1>4. ASSUME NEW e \in {0, 1, 2}, NEW rate \in Nat, rate = (8 * base) \div Eighths(e, 0)
      PROVE  Promises(base, 8, [baud |-> rate, encoded |-> e])
  <2>1. Near((8 * base) \div Eighths(e, 0), rate)
    BY <1>4, NearSame
  <2>2. e \in Nat /\ e < 16384 /\ e = e + 0 * 16384 /\ 0 \in 0..7 /\ 0 < 8
    OBVIOUS
  <2> QED BY <2>1, <2>2 DEF Promises
<1> HIDE DEF last
<1>5. \/ bits = [baud |-> base, encoded |-> 0]
      \/ bits = [baud |-> two3rds, encoded |-> 1]
      \/ bits = [baud |-> half, encoded |-> 2]
      \/ bits = last /\ b < half
  <2> HIDE DEF two3rds, half, bits
  <2>1. CASE b >= base
    BY <1>1, <2>1
  <2>2. CASE b < base /\ b >= two3rds
    BY <1>1, <1>2, <2>2
  <2>3. CASE b < base /\ b < two3rds /\ b >= half
    BY <1>1, <1>2, <2>3
  <2>4. CASE b < base /\ b < two3rds /\ b < half
    BY <1>1, <1>2, <2>4
  <2> QED BY <1>2, <2>1, <2>2, <2>3, <2>4
<1> HIDE DEF bits
<1>6. /\ Promises(base, 8, [baud |-> base, encoded |-> 0])
      /\ Promises(base, 8, [baud |-> two3rds, encoded |-> 1])
      /\ Promises(base, 8, [baud |-> half, encoded |-> 2])
  BY <1>2, <1>4, FirstThree
<1>7. Promises(base, 8, bits)
  BY <1>3, <1>5, <1>6
<1> QED BY <1>7 DEF bits

LEMMA AmPromises ==
  ASSUME NEW b \in Nat, b > 0 PROVE Promises(3000000, 4, ftdi_to_clkbits_AM(b))
<1> DEFINE divisor == AmRoundDown(24000000 \div b)
           lower == AmRoundUp(divisor, divisor)
           upper == AmRoundUp(divisor, divisor + 1)
           rate(d) == (24000000 + d \div 2) \div d
           best == IF Diff(rate(upper), b) < Diff(rate(lower), b) THEN upper ELSE lower
           code == IF best = 8 THEN 0 ELSE Encoded(best)
           bits == ftdi_to_clkbits_AM(b)
<1>1. divisor \in Nat
  <2>1. 24000000 \div b \in Nat
    BY Quotients
  <2> QED BY <2>1, RoundDownIs
<1> HIDE DEF divisor
<1>2. AmDivisor(lower) /\ AmDivisor(upper)
  <2>1. divisor + 1 \in Nat
    BY <1>1
  <2> QED BY <1>1, <2>1, RoundUpIs
<1> HIDE DEF lower, upper
<1>3. AmDivisor(best)
  BY <1>2
<1>4. bits.baud = rate(best) /\ bits.encoded = code
  BY DEF ftdi_to_clkbits_AM, best, lower, upper, divisor
<1> HIDE DEF best, bits
<1>5. Near(24000000 \div best, rate(best))
  <2>1. 24000000 \in Nat /\ best \in Nat /\ best > 0
    BY <1>3 DEF AmDivisor
  <2> QED BY <2>1, MiddleNear
<1> HIDE DEF rate
<1>6. PICK base : base = 3000000 /\ 24000000 = 8 * base
  OBVIOUS
<1>7. ASSUME best = 8 PROVE Promises(base, 4, bits)
  <2>1. Eighths(0, 0) = best /\ bits.encoded = 0 + 0 * 16384
    BY <1>4, <1>7, FirstThree
  <2>2. Near((8 * base) \div Eighths(0, 0), bits.baud)
    BY <1>4, <1>5, <1>6, <2>1
  <2>3. 0 \in Nat /\ 0 \in 0..7 /\ 0 < 16384 /\ 0 < 4
    OBVIOUS
  <2> QED BY <2>1, <2>2, <2>3 DEF Promises
<1>8. ASSUME best # 8 PROVE Promises(base, 4, bits)
  <2>1. best \in Nat /\ 16 <= best /\ best < 131072 /\ best % 8 \in AmFractions
    BY <1>3, <1>8 DEF AmDivisor
  <2>2. PICK w \in Nat, c \in 0..7 :
          w < 16384 /\ Encoded(best) = w + c * 16384 /\ Eighths(w, c) = best /\ c < 4
    BY <2>1, EncodedReads
  <2>3. bits.encoded = w + c * 16384
    BY <1>4, <1>8, <2>2
  <2>4. Near((8 * base) \div Eighths(w, c), bits.baud)
    BY <1>4, <1>5, <1>6, <2>2
  <2> QED BY <2>2, <2>3, <2>4 DEF Promises
<1>9. Promises(base, 4, bits)
  BY <1>7, <1>8
<1> QED BY <1>6, <1>9 DEF bits

(* The chip takes the two words apart as they were put together.           *)
Sent(w, c, f, t, base, request) ==
  LET word == w + c * 16384 + f * 131072
  IN  /\ w \in Nat /\ w < 16384 /\ c \in 0..7 /\ f \in {0, 1}
      /\ t \in HTypes \/ f = 0
      /\ t = "AM" => c < 4
      /\ base = IF f = 1 THEN 12000000 ELSE 3000000
      /\ request.value = word % 2^16
      /\ request.index = IF t \in HTypes THEN (word \div 2^16) * 256 + 1 ELSE word \div 2^16

LEMMA ChipReads ==
  ASSUME NEW w, NEW c, NEW f, NEW t, NEW base, NEW request, Sent(w, c, f, t, base, request)
  PROVE  ChipRate(t, request) = (8 * base) \div Eighths(w, c)
<1> DEFINE word == w + c * 16384 + f * 131072
<1> SUFFICES
      ASSUME w \in Nat, w < 16384, c \in 0..7, f \in {0, 1},
             t \in HTypes \/ f = 0, t = "AM" => c < 4,
             base = (IF f = 1 THEN 12000000 ELSE 3000000),
             request.value = word % 2^16,
             request.index = (IF t \in HTypes THEN (word \div 2^16) * 256 + 1
                              ELSE word \div 2^16)
      PROVE  ChipRate(t, request) = (8 * base) \div Eighths(w, c)
  BY DEF Sent
<1>1. PICK k \in 0..3, h \in {0, 1} :
        /\ c = k + 4 * h
        /\ word % 65536 = k * 16384 + w /\ word \div 65536 = h + 2 * f
        /\ (word % 65536) \div 16384 = k /\ (word % 65536) % 16384 = w
  <2>1. PICK k \in 0..3, h \in {0, 1} : c = k + 4 * h
    <3>1. CASE c <= 3
      <4>1. c \in 0..3 /\ 0 \in {0, 1} /\ c = c + 4 * 0
        BY <3>1
      <4> QED BY <4>1
    <3>2. CASE c > 3
      <4>1. c - 4 \in 0..3 /\ 1 \in {0, 1} /\ c = (c - 4) + 4 * 1
        BY <3>2
      <4> QED BY <4>1
    <3> QED BY <3>1, <3>2
  <2>2. PICK low \in Nat, top \in Nat :
          /\ low = k * 16384 + w /\ low < 65536
          /\ top = h + 2 * f /\ word = top * 65536 + low
    <3>1. k * 16384 + w \in Nat /\ k * 16384 + w < 65536 /\ h + 2 * f \in Nat
      OBVIOUS
    <3>2. word = (h + 2 * f) * 65536 + (k * 16384 + w)
      BY <2>1
    <3> QED BY <3>1, <3>2
  <2>3. word % 65536 = low /\ word \div 65536 = top
    BY <2>2
  <2>4. low \div 16384 = k /\ low % 16384 = w
    BY <2>2
  <2> QED BY <2>1, <2>2, <2>3, <2>4
<1> DEFINE high == IF t \in HTypes THEN (request.index \div 2^8) % 2
                   ELSE IF t = "AM" THEN 0 ELSE request.index % 2
           code == request.value \div 2^14 + 4 * high
           whole == request.value % 2^14
           clock == IF t \in HTypes /\ (request.index \div 2^9) % 2 = 1
                    THEN H_CLK \div 10 ELSE C_CLK \div 16
           part == CASE code = 1 -> 4 [] code = 3 -> 1 [] code = 4 -> 3 [] OTHER -> code
           eighths == CASE whole = 0 /\ part = 0 -> 8
                        [] whole = 1 /\ part = 0 -> 12
                        [] OTHER -> 8 * whole + part
<1>2. request.value \div 2^14 = k /\ request.value % 2^14 = w
  BY <1>1, Powers
<1>3. request.index = IF t \in HTypes THEN (h + 2 * f) * 256 + 1 ELSE h + 2 * f
  BY <1>1, Powers
<1>4. t = "AM" => t \notin HTypes /\ h = 0
  BY <1>1 DEF HTypes
<1>5. high = h
  <2>1. CASE t \in HTypes
    <3>1. ((h + 2 * f) * 256 + 1) \div 256 = h + 2 * f /\ (h + 2 * f) % 2 = h
      OBVIOUS
    <3>2. 2^8 = 256
      OBVIOUS
    <3> QED BY <1>3, <2>1, <3>1, <3>2
  <2>2. CASE t \notin HTypes
    <3>1. f = 0 /\ h % 2 = h
      BY <2>2
    <3> QED BY <1>3, <1>4, <2>2, <3>1
  <2> QED BY <2>1, <2>2
<1>6. clock = base
  <2>1. H_CLK \div 10 = 12000000 /\ C_CLK \div 16 = 3000000
    BY DEF H_CLK, C_CLK
  <2>2. CASE t \in HTypes
    <3>1. ((h + 2 * f) * 256 + 1) \div 512 = f /\ f % 2 = f
      OBVIOUS
    <3>2. 2^9 = 512
      OBVIOUS
    <3>3. (request.index \div 2^9) % 2 = f
      BY <1>3, <2>2, <3>1, <3>2
    <3> QED BY <2>1, <2>2, <3>3
  <2>3. CASE t \notin HTypes
    BY <2>1, <2>3
  <2> QED BY <2>2, <2>3
<1>7. code = c
  BY <1>1, <1>2, <1>5
<1>8. ChipRate(t, request) = (clock * 8) \div eighths
  BY DEF ChipRate
<1>9. whole = w
  BY <1>2
<1> HIDE DEF high, code, whole, clock
<1>10. part = Part(c)
  BY <1>7 DEF Part
<1> HIDE DEF part
<1>11. eighths = Eighths(w, c)
  BY <1>9, <1>10 DEF Eighths
<1> HIDE DEF eighths
<1>12. clock * 8 = 8 * base
  BY <1>6
<1> QED BY <1>8, <1>11, <1>12

LEMMA QuotientTimes ==
  ASSUME NEW y \in Nat, NEW b \in Nat, b > 0
  PROVE  /\ y \div b \in Nat
         /\ (y \div b) * b <= y /\ y < (y \div b) * b + b
<1>1. y \div b \in Nat /\ y % b \in 0..(b - 1) /\ y = (y \div b) * b + (y % b)
  BY Quotients
<1>2. PICK m \in Nat, r \in 0..(b - 1) : m = (y \div b) * b /\ y = m + r
  BY <1>1
<1> QED BY <1>1, <1>2

(* No rate of either clock asks for the divisor 2^17, which has no code.   *)
LEMMA NoSuchDivisor ==
  ASSUME NEW b \in Nat, b > 0
  PROVE  /\ (3000000 * 16) \div b # 262143 /\ (3000000 * 16) \div b # 262144
         /\ b >= 733 =>
              (12000000 * 16) \div b # 262143 /\ (12000000 * 16) \div b # 262144
<1>1. PICK q \in Nat : q = (3000000 * 16) \div b /\ q * b <= 48000000 /\ 48000000 < q * b + b
  BY QuotientTimes
<1>2. q # 262143 /\ q # 262144
  <2>1. ~(262143 * b <= 48000000 /\ 48000000 < 262143 * b + b)
    OBVIOUS
  <2>2. ~(262144 * b <= 48000000 /\ 48000000 < 262144 * b + b)
    OBVIOUS
  <2> QED BY <1>1, <2>1, <2>2
<1>3. PICK p \in Nat : p = (12000000 * 16) \div b /\ p * b <= 192000000
  BY QuotientTimes
<1>4. b >= 733 => p # 262143 /\ p # 262144
  <2>1. b >= 733 => ~(262143 * b <= 192000000) /\ ~(262144 * b <= 192000000)
    OBVIOUS
  <2> QED BY <1>3, <2>1
<1> QED BY <1>1, <1>2, <1>3, <1>4

LEMMA ConvertKeeps ==
  ASSUME NEW b \in Nat, b > 0, NEW t
  PROVE  LET words == ftdi_convert_baudrate(b, t, Interface)
         IN  Near(ChipRate(t, [value |-> words.value, index |-> words.index]), words.baud)
<1> DEFINE fast == t \in HTypes /\ b * 10 > H_CLK \div 16383
           bits == CASE fast -> ftdi_to_clkbits(b, H_CLK, 10)
                     [] ~fast /\ t # "AM" -> ftdi_to_clkbits(b, C_CLK, 16)
                     [] OTHER -> ftdi_to_clkbits_AM(b)
           word == bits.encoded + IF fast THEN 2^17 ELSE 0
           words == ftdi_convert_baudrate(b, t, Interface)
           request == [value |-> words.value, index |-> words.index]
<1>1. words = [baud |-> bits.baud, value |-> word % 2^16,
               index |-> IF t \in HTypes THEN (word \div 2^16) * 256 + Interface
                         ELSE word \div 2^16]
  BY DEF ftdi_convert_baudrate
<1>2. PICK f \in {0, 1} : f = IF fast THEN 1 ELSE 0
  OBVIOUS
<1>3. PICK base : base = IF f = 1 THEN 12000000 ELSE 3000000
  OBVIOUS
<1>4. fast => b >= 733
  BY DEF H_CLK
<1>5. t \in HTypes \/ f = 0
  BY <1>2
<1> HIDE DEF fast
<1>6. \E codes \in {4, 8} : (t = "AM" => codes = 4) /\ Promises(base, codes, bits)
  <2>1. ASSUME fast PROVE Promises(12000000, 8, bits) /\ t # "AM"
    <3>1. /\ H_CLK \div 10 = 12000000 /\ H_CLK \div (10 + 10 \div 2) = (8 * 12000000) \div 12
          /\ H_CLK \div (2 * 10) = (8 * 12000000) \div 16
      BY DEF H_CLK
    <3>2. Promises(12000000, 8, ftdi_to_clkbits(b, H_CLK, 10))
      BY <1>4, <2>1, <3>1, NoSuchDivisor, ClkbitsPromises
    <3>3. bits = ftdi_to_clkbits(b, H_CLK, 10) /\ t # "AM"
      BY <2>1 DEF fast, HTypes
    <3> QED BY <3>2, <3>3
  <2>2. ASSUME ~fast, t # "AM" PROVE Promises(3000000, 8, bits)
    <3>1. /\ C_CLK \div 16 = 3000000 /\ C_CLK \div (16 + 16 \div 2) = (8 * 3000000) \div 12
          /\ C_CLK \div (2 * 16) = (8 * 3000000) \div 16
      BY DEF C_CLK
    <3>2. Promises(3000000, 8, ftdi_to_clkbits(b, C_CLK, 16))
      BY <3>1, NoSuchDivisor, ClkbitsPromises
    <3>3. bits = ftdi_to_clkbits(b, C_CLK, 16)
      BY <2>2
    <3> QED BY <3>2, <3>3
  <2>3. ASSUME ~fast, t = "AM" PROVE Promises(3000000, 4, bits)
    <3>1. bits = ftdi_to_clkbits_AM(b)
      BY <2>3
    <3> QED BY <3>1, AmPromises
  <2> HIDE DEF bits
  <2>4. base = IF fast THEN 12000000 ELSE 3000000
    BY <1>2, <1>3
  <2>5. 4 \in {4, 8} /\ 8 \in {4, 8}
    OBVIOUS
  <2> QED BY <2>1, <2>2, <2>3, <2>4, <2>5
<1> HIDE DEF bits
<1>7. PICK w \in Nat, c \in 0..7 :
        /\ w < 16384 /\ (t = "AM" => c < 4) /\ bits.encoded = w + c * 16384
        /\ Near((8 * base) \div Eighths(w, c), bits.baud)
  BY <1>6 DEF Promises
<1>8. word = w + c * 16384 + f * 131072
  BY <1>2, <1>7, Powers
<1> HIDE DEF word
<1>9. /\ request.value = word % 2^16
      /\ request.index = IF t \in HTypes THEN (word \div 2^16) * 256 + 1 ELSE word \div 2^16
  BY <1>1 DEF Interface
<1>10. words.baud = bits.baud
  BY <1>1
<1> HIDE DEF request, words
<1>11. ChipRate(t, request) = (8 * base) \div Eighths(w, c)
  <2>1. Sent(w, c, f, t, base, request)
    BY <1>3, <1>5, <1>7, <1>8, <1>9 DEF Sent
  <2> QED BY <2>1, ChipReads
<1>12. Near(ChipRate(t, request), words.baud)
  BY <1>7, <1>10, <1>11
<1> QED BY <1>12 DEF request, words

LEMMA DiffIs ==
  ASSUME NEW x \in Int, NEW y \in Int
  PROVE  Diff(x, y) = (IF x >= y THEN x - y ELSE y - x) /\ Diff(x, y) \in Nat
<1> DEFINE S == {x - y, y - x}
           d == IF x >= y THEN x - y ELSE y - x
<1>1. d \in S /\ d \in Nat /\ \A z \in S : d >= z
  OBVIOUS
<1>2. \A z \in S : (\A u \in S : z >= u) => z = d
  BY <1>1
<1>3. Diff(x, y) = CHOOSE z \in S : \A u \in S : z >= u
  BY DEF Diff, Max
<1> HIDE DEF S, d
<1>4. Diff(x, y) = d
  BY <1>1, <1>2, <1>3
<1> QED BY <1>1, <1>4 DEF d

LEMMA ToleratedKeeps ==
  ASSUME NEW b \in Nat, NEW actual, NEW x, Near(x, actual), Tolerated(actual, b)
  PROVE  20 * Diff(x, b) <= b + 20
<1>1. x \in Int /\ actual \in Int /\ x <= actual + 1 /\ actual <= x + 1
  BY DEF Near
<1>2. IF actual < b THEN actual * 21 >= b * 20 ELSE b * 21 >= actual * 20
  BY DEF Tolerated
<1>3. 20 * (x - b) <= b + 20 /\ 20 * (b - x) <= b + 20
  BY <1>1, <1>2
<1>4. Diff(x, b) = x - b \/ Diff(x, b) = b - x
  BY <1>1, DiffIs
<1> QED BY <1>3, <1>4

(* The speed that an open sets is exact with every chip.                   *)
LEMMA ClkbitsExact ==
  ASSUME NEW b \in {9600, 38400}, NEW clk, NEW clk_div,
         \/ clk = 48000000 /\ clk_div = 16
         \/ clk = 120000000 /\ clk_div = 10
  PROVE  ftdi_to_clkbits(b, clk, clk_div).baud = b
<1> DEFINE full == clk \div clk_div
           two3rds == clk \div (clk_div + clk_div \div 2)
           half == clk \div (2 * clk_div)
           nearest == Halved((full * 16) \div b)
           best == IF nearest > 2^17 THEN 2^17 - 1 ELSE nearest
           last == [baud |-> Halved((full * 16) \div best), encoded |-> Encoded(best)]
<1>1. full \in Int /\ two3rds \in Int /\ half \in Int /\ b < half /\ b < two3rds /\ b < full
  OBVIOUS
<1>2. full = 3000000 \/ full = 12000000
  OBVIOUS
<1>3. ftdi_to_clkbits(b, clk, clk_div)
        = CASE b >= full -> [baud |-> full, encoded |-> 0]
            [] b < full /\ b >= two3rds -> [baud |-> two3rds, encoded |-> 1]
            [] b < two3rds /\ b >= half -> [baud |-> half, encoded |-> 2]
            [] OTHER -> last
  BY DEF ftdi_to_clkbits
<1>4. last.baud = Halved((full * 16) \div best)
  OBVIOUS
<1> HIDE DEF last
<1>5. ftdi_to_clkbits(b, clk, clk_div) = last
  <2> HIDE DEF full, two3rds, half
  <2> QED BY <1>1, <1>3
<1>6. Halved((full * 16) \div best) = b
  <2> HIDE DEF full, best
  <2>1. ASSUME NEW n \in Nat, n <= 10000, nearest = n PROVE best = n
    BY <2>1, Powers DEF best
  <2>2. CASE full = 3000000 /\ b = 9600
    <3>1. nearest = 2500
      BY <2>2 DEF Halved
    <3>2. best = 2500
      BY <2>1, <3>1
    <3> QED BY <2>2, <3>2 DEF Halved
  <2>3. CASE full = 3000000 /\ b = 38400
    <3>1. nearest = 625
      BY <2>3 DEF Halved
    <3>2. best = 625
      BY <2>1, <3>1
    <3> QED BY <2>3, <3>2 DEF Halved
  <2>4. CASE full = 12000000 /\ b = 9600
    <3>1. nearest = 10000
      BY <2>4 DEF Halved
    <3>2. best = 10000
      BY <2>1, <3>1
    <3> QED BY <2>4, <3>2 DEF Halved
  <2>5. CASE full = 12000000 /\ b = 38400
    <3>1. nearest = 2500
      BY <2>5 DEF Halved
    <3>2. best = 2500
      BY <2>1, <3>1
    <3> QED BY <2>5, <3>2 DEF Halved
  <2> QED BY <1>2, <2>2, <2>3, <2>4, <2>5
<1> QED BY <1>4, <1>5, <1>6

LEMMA AmSame ==
  ASSUME NEW d \in Nat, d % 8 \in AmFractions, d >= 16, d <= 131064
  PROVE  AmRoundDown(d) = d /\ AmRoundUp(d, d) = d
<1> DEFINE D == {t \in (d - 3)..d : t % 8 \in AmFractions}
           U == {t \in d..(d + 3) : t % 8 \in AmFractions}
<1>1. AmRoundDown(d) = d
  <2>1. AmRoundDown(d) = CHOOSE x \in D : \A y \in D : x >= y
    BY DEF AmRoundDown, Max
  <2>2. d \in D /\ \A x \in D : d >= x /\ x \in Int
    OBVIOUS
  <2>3. \A x \in D : d = x \/ ~(x >= d)
    BY <2>2
  <2> HIDE DEF D
  <2>4. \A x \in D : (\A y \in D : x >= y) => x = d
    BY <2>2, <2>3
  <2>5. \E x \in D : \A y \in D : x >= y
    BY <2>2
  <2>6. (CHOOSE x \in D : \A y \in D : x >= y) = d
    BY <2>4, <2>5
  <2> QED BY <2>1, <2>6
<1>2. Min(U) = d
  <2>1. Min(U) = CHOOSE x \in U : \A y \in U : x <= y
    BY DEF Min
  <2>2. d \in U /\ \A x \in U : d <= x /\ x \in Int
    OBVIOUS
  <2>3. \A x \in U : d = x \/ ~(x <= d)
    BY <2>2
  <2> HIDE DEF U
  <2>4. \A x \in U : (\A y \in U : x <= y) => x = d
    BY <2>2, <2>3
  <2>5. \E x \in U : \A y \in U : x <= y
    BY <2>2
  <2>6. (CHOOSE x \in U : \A y \in U : x <= y) = d
    BY <2>4, <2>5
  <2> QED BY <2>1, <2>6
<1>3. AmRoundUp(d, d) = Min({131064, Min(U)})
  BY DEF AmRoundUp
<1> HIDE DEF U
<1>4. Min({131064, d}) = d
  BY DEF Min
<1> QED BY <1>1, <1>2, <1>3, <1>4

LEMMA AmExact ==
  ASSUME NEW b \in {9600, 38400} PROVE ftdi_to_clkbits_AM(b).baud = b
<1>1. PICK d \in Nat : d = 24000000 \div b /\ d % 8 \in AmFractions /\ d >= 16 /\ d <= 131064
                       /\ (24000000 + d \div 2) \div d = b
  <2>1. CASE b = 9600
    <3>1. 24000000 \div b = 2500 /\ 2500 % 8 \in AmFractions
          /\ (24000000 + 2500 \div 2) \div 2500 = 9600
      BY <2>1 DEF AmFractions
    <3> QED BY <2>1, <3>1
  <2>2. CASE b = 38400
    <3>1. 24000000 \div b = 625 /\ 625 % 8 \in AmFractions
          /\ (24000000 + 625 \div 2) \div 625 = 38400
      BY <2>2 DEF AmFractions
    <3> QED BY <2>2, <3>1
  <2> QED BY <2>1, <2>2
<1>2. AmRoundDown(d) = d /\ AmRoundUp(d, d) = d
  BY <1>1, AmSame
<1> DEFINE upper == AmRoundUp(d, d + 1)
           rate(x) == (24000000 + x \div 2) \div x
           best == IF Diff(rate(upper), b) < Diff(rate(d), b) THEN upper ELSE d
           bits == [baud |-> rate(best),
           encoded |-> IF best = 8 THEN 0 ELSE Encoded(best)]
<1>3. ftdi_to_clkbits_AM(b) = bits
  BY <1>1, <1>2 DEF ftdi_to_clkbits_AM
<1>4. rate(upper) \in Int
  <2>1. d + 1 \in Nat
    OBVIOUS
  <2>2. AmDivisor(upper)
    BY <2>1, RoundUpIs
  <2> HIDE DEF upper
  <2>3. upper \in Nat /\ upper > 0 /\ 24000000 + upper \div 2 \in Nat
    BY <2>2 DEF AmDivisor
  <2> QED BY <2>3, Quotients
<1> HIDE DEF upper
<1>5. rate(d) = b
  BY <1>1
<1> HIDE DEF rate
<1>6. Diff(rate(upper), b) \in Nat /\ Diff(b, b) = 0
  <2>1. PICK x \in Int, y \in Int : x = rate(upper) /\ y = b
    BY <1>4
  <2>2. Diff(x, y) \in Nat
    BY DiffIs
  <2>3. Diff(y, y) = 0
    BY DiffIs
  <2> QED BY <2>1, <2>2, <2>3
<1>7. best = d
  BY <1>5, <1>6
<1>8. bits.baud = rate(best)
  OBVIOUS
<1> HIDE DEF bits, best
<1> QED BY <1>3, <1>5, <1>7, <1>8

LEMMA OpensExact ==
  ASSUME NEW b \in {9600, 38400}, NEW t
  PROVE  Tolerated(ftdi_convert_baudrate(b, t, Interface).baud, b)
<1> DEFINE fast == t \in HTypes /\ b * 10 > H_CLK \div 16383
           bits == CASE fast -> ftdi_to_clkbits(b, H_CLK, 10)
                     [] ~fast /\ t # "AM" -> ftdi_to_clkbits(b, C_CLK, 16)
                     [] OTHER -> ftdi_to_clkbits_AM(b)
<1>1. ftdi_convert_baudrate(b, t, Interface).baud = bits.baud
  BY DEF ftdi_convert_baudrate
<1>2. /\ ftdi_to_clkbits(b, H_CLK, 10).baud = b /\ ftdi_to_clkbits(b, C_CLK, 16).baud = b
      /\ ftdi_to_clkbits_AM(b).baud = b
  BY ClkbitsExact, AmExact DEF H_CLK, C_CLK
<1> HIDE DEF fast
<1>3. bits.baud = b
  BY <1>2
<1> HIDE DEF bits
<1>4. Tolerated(b, b)
  BY DEF Tolerated
<1> QED BY <1>1, <1>3, <1>4

LEMMA SetKeeps ==
  ASSUME NEW b \in Nat, b > 0, NEW t,
         Tolerated(ftdi_convert_baudrate(b, t, Interface).baud, b),
         ftdi_set_baudrate(b, t)
  PROVE  baudrate' = b /\ 20 * Diff(ChipRate(t, line'), b) <= b + 20
<1> DEFINE words == ftdi_convert_baudrate(b, t, Interface)
           request == [value |-> words.value, index |-> words.index]
<1>1. line' = request /\ baudrate' = b
  BY DEF ftdi_set_baudrate
<1>2. Near(ChipRate(t, request), words.baud)
  BY ConvertKeeps
<1>3. 20 * Diff(ChipRate(t, request), b) <= b + 20
  BY <1>2, ToleratedKeeps
<1> QED BY <1>1, <1>3

(* The rate of a chip that was opened is never more than a twentieth (and  *)
(* what the rounding of one unit makes of it) away from the one that was   *)
(* asked for, at any rate, with any of the chips, with bitbang mode or     *)
(* without, and however an open failed before.                             *)
THEOREM RateIsKeptCorrect == FtdiSpec => []RateIsKept
<1>1. FtdiInit => RateIsKept
  BY DEF FtdiInit, RateIsKept
<1>2. RateIsKept /\ [FtdiNext]_vars => RateIsKept'
  <2> SUFFICES ASSUME RateIsKept, [FtdiNext]_vars PROVE RateIsKept'
    OBVIOUS
  <2>1. ASSUME NEW b \in Nat, b > 0, NEW t,
               Tolerated(ftdi_convert_baudrate(b, t, Interface).baud, b),
               ftdi_set_baudrate(b, t), type' = t
        PROVE  RateIsKept'
    <3>1. baudrate' = b /\ 20 * Diff(ChipRate(t, line'), b) <= b + 20
      BY <2>1, SetKeeps
    <3> QED BY <2>1, <3>1 DEF RateIsKept
  <2>2. ASSUME NEW t \in ChipTypes, Open(t) PROVE RateIsKept'
    <3>1. PICK b \in {9600, 38400} : b = 9600 * BitbangFactor
      BY DEF BitbangFactor
    <3>2. \/ type' = t /\ ftdi_set_baudrate(b, t)
          \/ ~opened /\ UNCHANGED opened
      BY <2>2, <3>1 DEF Open, NotOpened, HalfOpened, OpenedInVain, WasReset
    <3>3. b \in Nat /\ b > 0 /\ Tolerated(ftdi_convert_baudrate(b, t, Interface).baud, b)
      BY OpensExact
    <3>4. ASSUME ~opened /\ UNCHANGED opened PROVE RateIsKept'
      BY <3>4 DEF RateIsKept
    <3> QED BY <2>1, <3>2, <3>3, <3>4
  <2>3. ASSUME NEW r \in Rates, SetBaudrate(r) PROVE RateIsKept'
    <3>1. r * BitbangFactor \in Int
      BY FtdiAssumption DEF BitbangFactor
    <3>2. PICK b \in Int : b = r * BitbangFactor
      BY <3>1
    <3>3. b > 0 /\ Tolerated(ftdi_convert_baudrate(b, type, Interface).baud, b)
          /\ ftdi_set_baudrate(b, type) /\ type' = type
      BY <2>3, <3>2 DEF SetBaudrate, Accepted
    <3> QED BY <2>1, <3>3
  <2> DEFINE Same == UNCHANGED opened /\ UNCHANGED speedVars
  <2>4. CASE SetBitmode
    BY <2>4 DEF SetBitmode, RateIsKept
  <2>5. ASSUME Purge \/ Reading PROVE Same
    <3>1. ASSUME NEW n \in ReadSizes, ReadKept(n) \/ ReadSubmitKept(n) \/ ReadSubmitFails(n)
          PROVE  Same
      BY <3>1 DEF ReadKept, ReadSubmitKept, ReadSubmitFails
    <3>2. ASSUME NEW n \in ReadSizes, NEW how \in {"sync", "async"}, ReadBegins(how, n)
          PROVE  Same
      BY <3>2 DEF ReadBegins
    <3>3. ASSUME \/ ReadEnds \/ ReadOverflows \/ ReadFails \/ ReadReturns \/ ReadLoops
                 \/ ReadCallbackEnds \/ ReadCallbackResubmits \/ ReadDone
          PROVE Same
      BY <3>3 DEF ReadEnds, ReadOverflows, ReadFails, ReadReturns, ReadLoops,
                  ReadCallbackEnds, ReadCallbackResubmits, ReadDone
    <3>4. ASSUME Purge PROVE Same
      BY <3>4 DEF Purge
    <3> HIDE DEF Same
    <3> QED BY <2>5, <3>1, <3>2, <3>3, <3>4 DEF Reading
  <2>6. ASSUME NEW c, ReadSetChunksize(c) \/ WriteSetChunksize(c) PROVE Same
    BY <2>6 DEF ReadSetChunksize, WriteSetChunksize
  <2>7. ASSUME NEW w \in Writers, Writing(w) PROVE Same
    <3>1. ASSUME NEW n \in WriteSizes, NEW how \in {"sync", "async"}, WriteBegins(w, how, n)
          PROVE  Same
      BY <3>1 DEF WriteBegins
    <3>2. ASSUME WriteEnds(w) \/ WriteReturns(w) \/ WriteCallback(w) \/ WriteDone(w) PROVE Same
      BY <3>2 DEF WriteEnds, WriteReturns, WriteCallback, WriteDone
    <3> QED BY <2>7, <3>1, <3>2 DEF Writing
  <2>8. ASSUME UNCHANGED vars PROVE Same
    BY <2>8 DEF vars
  <2>9. Same => RateIsKept'
    BY DEF RateIsKept, speedVars
  <2>10. CASE Close
    BY <2>10 DEF Close, RateIsKept
  <2> HIDE DEF Same
  <2> QED BY <2>2, <2>3, <2>4, <2>5, <2>6, <2>7, <2>8, <2>9, <2>10 DEF FtdiNext
<1> QED BY <1>1, <1>2, PTL DEF FtdiSpec
=============================================================================
