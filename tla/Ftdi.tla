-------------------------------- MODULE Ftdi --------------------------------
(***************************************************************************)
(* A ftdi_context of libftdi (ftdi.c): one user thread that opens, closes, *)
(* sets speeds, reads and writes, with the synchronous calls and with the  *)
(* asynchronous ones (ftdi_..._submit() and ftdi_transfer_data_done()),    *)
(* whose callbacks run whenever libusb handles events.  libusb and the     *)
(* chip are external: a transfer ends with the data the chip gives.        *)
(*                                                                         *)
(* The chip puts two status bytes at the head of every packet; the library *)
(* strips them and keeps what a read has not asked for.  The chip's bytes  *)
(* are numbered 1, 2, ... and a status byte is 0; so are those of a write. *)
(* A user reads by one call at a time (readbuffer serves only one), opens  *)
(* a context that is not open, and opens, changes the read chunk size or   *)
(* closes with no transfer under way.                                      *)
(***************************************************************************)
EXTENDS BaudRate, FiniteSets, SequencesExt

CONSTANTS
  Writers,                       (* calls that write, each used once        *)
  PacketSize,                    (* max_packet_size                         *)
  ReadChunks, WriteChunks,       (* chunk sizes a user may choose           *)
  ReadSizes, WriteSizes,
  ChipTypes, Rates,
  MaxSent, MaxOpens, MaxFaults   (* bounds                                  *)

ASSUME FtdiAssumption ==
  /\ PacketSize \in Nat /\ PacketSize > 2
  /\ \A c \in ReadChunks : c \in Nat /\ c > 0
  /\ WriteChunks \subseteq Nat \ {0}
  /\ ReadSizes \cup WriteSizes \subseteq Nat /\ ChipTypes \subseteq Types
  /\ Rates \subseteq Int /\ {MaxSent, MaxOpens, MaxFaults} \subseteq Nat

VARIABLES
  usb_dev, type, baudrate, bitbang_enabled,
  opened, since,                 (* the last open has returned 0, when so   *)
                                 (* much had been sent, and nobody closed   *)
  line,                          (* the words the chip got for its speed    *)
  readbuffer, readbuffer_offset, readbuffer_remaining, readbuffer_chunksize,
  writebuffer_chunksize,
  reading,                       (* the call that reads, its transfer       *)
  writing, wire,                 (* the calls that write, and what the chip *)
                                 (* has got of each                         *)
  sent,                          (* bytes the chip has given                *)
  taken, lost,                   (* the last byte that was returned, and    *)
                                 (* those the user has been told are lost   *)
  opens, faults

openVars == <<usb_dev, opened, since>>
speedVars == <<type, baudrate, bitbang_enabled, line>>
bufferVars == <<readbuffer, readbuffer_offset, readbuffer_remaining>>
chunkVars == <<readbuffer_chunksize, writebuffer_chunksize>>
readVars == <<reading, sent, taken, lost>>
writeVars == <<writing, wire>>
boundVars == <<opens, faults>>
vars == <<openVars, speedVars, bufferVars, chunkVars, readVars, writeVars, boundVars>>

(* flight: "none", "queued", or "ended" with its length and status.        *)
NoRead == [how |-> "no", size |-> 0, buf |-> <<>>, completed |-> FALSE,
           flight |-> "none", length |-> 0, status |-> "COMPLETED"]
NoWrite == [how |-> "no", size |-> 0, offset |-> 0, completed |-> FALSE,
            flight |-> "none", from |-> 0, length |-> 0, status |-> "COMPLETED",
            result |-> 0]
NoLine == [value |-> 0, index |-> 0]
Interface == 1     \* INTERFACE_A

FtdiInit ==
  /\ usb_dev = FALSE /\ opened = FALSE /\ since = 0
  /\ type = "BM" /\ baudrate = -1 /\ bitbang_enabled = FALSE /\ line = NoLine
  /\ readbuffer = <<>> /\ readbuffer_offset = 0 /\ readbuffer_remaining = 0
  /\ readbuffer_chunksize \in ReadChunks /\ writebuffer_chunksize \in WriteChunks
  /\ reading = NoRead /\ sent = 0 /\ taken = 0 /\ lost = {}
  /\ writing = [w \in Writers |-> NoWrite] /\ wire = [w \in Writers |-> <<>>]
  /\ opens = 0 /\ faults = 0

Fault == faults < MaxFaults /\ faults' = faults + 1

-----------------------------------------------------------------------------
(* Bytes that are kept for the next read.                                  *)

Kept == SubSeq(readbuffer, readbuffer_offset + 1,
               readbuffer_offset + readbuffer_remaining)

KeepNothing == readbuffer_offset' = 0 /\ readbuffer_remaining' = 0

(* The user is told, by an error or by what he has asked for.              *)
Lose(bytes) == lost' = lost \cup (ToSet(bytes) \ {0})

(* The user thread is inside of no call.                                   *)
Free == reading.how # "sync" /\ \A w \in Writers : writing[w].how # "sync"

InFlight == reading.flight # "none" \/ \E w \in Writers : writing[w].flight # "none"

-----------------------------------------------------------------------------
(* Opening and speeds.                                                     *)

BitbangFactor == IF bitbang_enabled THEN 4 ELSE 1

Accepted(b, t) == b > 0 /\ Tolerated(ftdi_convert_baudrate(b, t, Interface).baud, b)

ftdi_set_baudrate(b, t) ==
  LET words == ftdi_convert_baudrate(b, t, Interface)
  IN  line' = [value |-> words.value, index |-> words.index] /\ baudrate' = b

(* ftdi_usb_open_dev().  libusb_open() fails, and all is as it was ...     *)
NotOpened ==
  /\ Fault
  /\ UNCHANGED <<openVars, type, line, baudrate, readbuffer_offset,
                 readbuffer_remaining, lost>>

(* ... or an error before the configuration is set returns without closing *)
(* the device: it can be read from, the bytes kept from before included... *)
HalfOpened ==
  /\ Fault
  /\ usb_dev' = TRUE /\ lost' = lost \ ToSet(Kept)
  /\ UNCHANGED <<opened, since, type, line, baudrate, readbuffer_offset,
                 readbuffer_remaining>>

(* ... or one until the reset does close it ...                            *)
OpenedInVain ==
  /\ Fault
  /\ usb_dev' = FALSE /\ Lose(Kept)
  /\ UNCHANGED <<opened, since, type, line, baudrate, readbuffer_offset,
                 readbuffer_remaining>>

(* ... or there are the reset, which invalidates what is kept, the type    *)
(* and 9600 baud, the last of which may fail and close it too.             *)
WasReset(t) ==
  /\ Lose(Kept) /\ KeepNothing /\ type' = t
  /\ \/ /\ usb_dev' = TRUE /\ opened' = TRUE /\ since' = sent
        /\ ftdi_set_baudrate(9600 * BitbangFactor, t)
        /\ UNCHANGED faults
     \/ /\ Fault
        /\ usb_dev' = FALSE
        /\ UNCHANGED <<opened, since, line, baudrate>>

Open(t) ==
  /\ ~opened /\ Free /\ ~InFlight /\ reading.how = "no"
  /\ opens < MaxOpens /\ opens' = opens + 1
  /\ NotOpened \/ HalfOpened \/ OpenedInVain \/ WasReset(t)
  /\ UNCHANGED <<bitbang_enabled, readbuffer, chunkVars, reading, sent, taken, writeVars>>

Close ==
  /\ usb_dev /\ Free /\ ~InFlight /\ reading.how = "no"
  /\ usb_dev' = FALSE /\ opened' = FALSE
  /\ Lose(Kept)
  /\ UNCHANGED <<since, speedVars, bufferVars, chunkVars, reading, sent, taken, writeVars,
                 boundVars>>

(* Bound: data is moved with one type of chip, at the speed that the open  *)
(* has set, or speeds are set and nothing is moved; the two have no state  *)
(* in common.                                                              *)
AsOpened == usb_dev /\ Free /\ baudrate = 9600 /\ type = "BM"
NothingMoved == sent = 0 /\ reading.how = "no" /\ \A w \in Writers : writing[w].how = "no"

SetBaudrate(b) ==
  /\ usb_dev /\ NothingMoved
  /\ Accepted(b * BitbangFactor, type)
  /\ ftdi_set_baudrate(b * BitbangFactor, type)
  /\ UNCHANGED <<openVars, type, bitbang_enabled, bufferVars, chunkVars, readVars,
                 writeVars, boundVars>>

(* ftdi_set_bitmode() and ftdi_disable_bitbang()                           *)
SetBitmode ==
  /\ usb_dev /\ NothingMoved
  /\ bitbang_enabled' \in BOOLEAN
  /\ UNCHANGED <<openVars, type, baudrate, line, bufferVars, chunkVars, readVars,
                 writeVars, boundVars>>

(* ftdi_usb_reset(), ftdi_usb_purge_rx_buffer(), ftdi_usb_purge_buffers()  *)
Purge ==
  /\ AsOpened
  /\ Lose(Kept) /\ KeepNothing
  /\ UNCHANGED <<openVars, speedVars, readbuffer, chunkVars, reading, sent, taken,
                 writeVars, boundVars>>

(* "Invalidate all remaining data"                                         *)
ReadSetChunksize(c) ==
  /\ Free /\ reading.how = "no" /\ readbuffer_chunksize' = c
  /\ Lose(Kept) /\ KeepNothing
  /\ UNCHANGED <<openVars, speedVars, readbuffer, writebuffer_chunksize, reading, sent,
                 taken, writeVars, boundVars>>

WriteSetChunksize(c) ==
  /\ Free /\ writebuffer_chunksize' = c
  /\ UNCHANGED <<openVars, speedVars, bufferVars, readbuffer_chunksize, readVars, writeVars,
                 boundVars>>

-----------------------------------------------------------------------------
(* Packets and their status bytes.                                         *)

Payload == PacketSize - 2

(* What a transfer with n bytes, of which the first is f, has in it: full  *)
(* packets, and a short one unless the last chunk is full or time is up.   *)
Packets(f, n, length) ==
  [p \in 1..length |-> LET i == (p - 1) \div PacketSize
                           q == (p - 1) % PacketSize
                       IN  IF q < 2 THEN 0 ELSE f + i * Payload + q - 2]

LengthOf(n, chunk, status) ==
  LET full == n \div Payload
      rest == n % Payload
  IN  IF rest = 0 /\ (status = "TIMED_OUT" \/ full * PacketSize = chunk)
      THEN full * PacketSize ELSE full * PacketSize + 2 + rest

(* Mutant of Stripped: the last packet's status bytes are forgotten.       *)
StrippedLastShort(length) ==
  IF length <= PacketSize THEN length - 2 ELSE length - 2 * (length \div PacketSize)

(* The bytes that are left of a transfer longer than 2 ...                 *)
Stripped(length) ==
  LET chunks  == length \div PacketSize
      remains == length % PacketSize
  IN  IF length <= PacketSize THEN length - 2
      ELSE IF remains > 2 THEN length - 2 - 2 * chunks
      ELSE length - 2 - (2 * (chunks - 1) + remains)

(* ... and where they are after the memmove() of each further packet: from *)
(* the third place of the buffer on.                                       *)
Moved(buffer, length) ==
  LET chunks  == length \div PacketSize
      remains == length % PacketSize
      source(p) == LET i == (p - 3) \div Payload
                       k == (p - 3) % Payload
                   IN  IF i \in 1..(chunks - 1) \/ (i = chunks /\ i > 0 /\ k < remains - 2)
                       THEN i * PacketSize + 3 + k ELSE p
  IN  [p \in DOMAIN buffer |-> IF p < 3 THEN buffer[p] ELSE buffer[source(p)]]

Received == IF reading.length <= 2 THEN <<>>
            ELSE SubSeq(Moved(readbuffer, reading.length), 3, 2 + Stripped(reading.length))

(* The chip, or the timeout, ends the read transfer.                       *)
ReadEnds ==
  /\ reading.flight = "queued"
  /\ \E n \in 0..(MaxSent - sent), s \in {"COMPLETED", "TIMED_OUT"} :
       LET length == LengthOf(n, readbuffer_chunksize, s)
       IN  /\ length <= readbuffer_chunksize
           /\ s = "TIMED_OUT" => n % Payload = 0 /\ Fault
           /\ s = "COMPLETED" => UNCHANGED faults
           /\ readbuffer' = Packets(sent + 1, n, length)
           /\ reading' = [reading EXCEPT !.flight = "ended", !.length = length,
                                         !.status = s]
           /\ sent' = sent + n
  /\ UNCHANGED <<openVars, speedVars, readbuffer_offset, readbuffer_remaining, chunkVars,
                 taken, lost, writeVars, opens>>

(* The packet that comes next does not fit into what is left of the chunk, *)
(* and the synchronous call returns the error.                             *)
ReadOverflows ==
  /\ reading.how = "sync" /\ reading.flight = "queued"
  /\ readbuffer_chunksize % PacketSize # 0
  /\ \E n \in 0..(MaxSent - sent) :
       /\ LengthOf(n, readbuffer_chunksize, "COMPLETED") > readbuffer_chunksize
       /\ n <= (readbuffer_chunksize \div PacketSize + 1) * Payload
       /\ sent' = sent + n
       /\ lost' = lost \cup ToSet(reading.buf) \cup (sent + 1)..sent'
  /\ reading' = NoRead
  /\ UNCHANGED <<openVars, speedVars, bufferVars, chunkVars, taken, writeVars, boundVars>>

-----------------------------------------------------------------------------
(* ftdi_read_data() and ftdi_read_data_submit()                            *)

Returned(buf) ==
  /\ taken' = IF buf = <<>> THEN taken ELSE Last(buf)
  /\ lost' = {b \in lost : b > taken'}

TakeKept(size) ==
  /\ size <= readbuffer_remaining
  /\ readbuffer_remaining' = readbuffer_remaining - size
  /\ readbuffer_offset' = readbuffer_offset + size

(* Bound: asynchronous reads are made with chunks of whole packets (of the *)
(* data of a transfer that overflowed libusb promises nothing, and the     *)
(* callback does not look at the status).                                  *)
Begin(how, size) ==
  /\ AsOpened /\ reading.how = "no"
  /\ how = "async" => readbuffer_chunksize % PacketSize = 0
  /\ size > readbuffer_remaining
  /\ reading' = [NoRead EXCEPT !.how = how, !.size = size, !.buf = Kept,
                               !.flight = "queued"]
  /\ KeepNothing

ReadKept(size) ==
  /\ AsOpened /\ reading.how = "no"
  /\ TakeKept(size)
  /\ Returned(SubSeq(Kept, 1, size))
  /\ UNCHANGED <<openVars, speedVars, readbuffer, chunkVars, reading, sent, writeVars, boundVars>>

ReadBegins(how, size) ==
  /\ Begin(how, size)
  /\ UNCHANGED <<openVars, speedVars, readbuffer, chunkVars, sent, taken, lost, writeVars,
                 boundVars>>

ReadSubmitKept(size) ==
  /\ AsOpened /\ reading.how = "no"
  /\ TakeKept(size)
  /\ reading' = [NoRead EXCEPT !.how = "async", !.size = size, !.completed = TRUE,
                               !.buf = SubSeq(Kept, 1, size)]
  /\ UNCHANGED <<openVars, speedVars, readbuffer, chunkVars, sent, taken, lost, writeVars,
                 boundVars>>

(* The transfer cannot be submitted: NULL is returned.                     *)
ReadSubmitFails(size) ==
  /\ AsOpened /\ reading.how = "no" /\ size > readbuffer_remaining
  /\ Fault
  /\ Lose(Kept) /\ KeepNothing
  /\ UNCHANGED <<openVars, speedVars, readbuffer, chunkVars, reading, sent, taken,
                 writeVars, opens>>

Room == reading.size - Len(reading.buf)

(* What the answer adds to the caller's buffer, and what is kept.  Mutant: *)
(* as many bytes as have come are kept, after those that were copied.      *)
KeepAsMany ==
  /\ readbuffer' = Moved(readbuffer, reading.length)
  /\ readbuffer_offset' = 2 + Room
  /\ readbuffer_remaining' = Len(Received)

KeepRest ==
  /\ readbuffer' = Moved(readbuffer, reading.length)
  /\ readbuffer_offset' = 2 + Room
  /\ readbuffer_remaining' = Len(Received) - Room

Fits == Len(Received) <= Room

Filled == reading.buf \o IF Fits THEN Received ELSE SubSeq(Received, 1, Room)

SyncAnswered == reading.how = "sync" /\ reading.flight = "ended"

(* An error, a timeout among them, and what has been received is not told. *)
ReadFails ==
  /\ SyncAnswered /\ reading.status # "COMPLETED"
  /\ reading' = NoRead
  /\ Lose(reading.buf \o readbuffer)
  /\ UNCHANGED <<openVars, speedVars, bufferVars, chunkVars, sent, taken, writeVars,
                 boundVars>>

(* The chip has no more, the buffer is full, or a part does not fit ...    *)
ReadReturns ==
  /\ SyncAnswered /\ reading.status = "COMPLETED"
  /\ reading.length <= 2 \/ Len(Received) >= Room
  /\ reading' = NoRead
  /\ Returned(Filled)
  /\ CASE reading.length <= 2 -> UNCHANGED bufferVars
       [] reading.length > 2 /\ Fits ->
            readbuffer_offset' = 2 /\ UNCHANGED <<readbuffer, readbuffer_remaining>>
       [] OTHER -> KeepRest
  /\ UNCHANGED <<openVars, speedVars, chunkVars, sent, writeVars, boundVars>>

(* ... or the loop goes on.                                                *)
ReadLoops ==
  /\ SyncAnswered /\ reading.status = "COMPLETED"
  /\ reading.length > 2 /\ Len(Received) < Room
  /\ reading' = [reading EXCEPT !.buf = Filled, !.flight = "queued"]
  /\ KeepNothing
  /\ UNCHANGED <<openVars, speedVars, readbuffer, chunkVars, sent, taken, lost, writeVars,
                 boundVars>>

(* ftdi_read_data_cb(), which does not look at the status.                 *)
AsyncAnswered == reading.how = "async" /\ reading.flight = "ended"

ReadCallbackEnds ==
  /\ AsyncAnswered /\ reading.length > 2 /\ Len(Received) >= Room
  /\ reading' = [reading EXCEPT !.buf = Filled, !.flight = "none", !.completed = TRUE]
  /\ IF Fits THEN KeepNothing /\ UNCHANGED readbuffer ELSE KeepRest
  /\ UNCHANGED <<openVars, speedVars, chunkVars, sent, taken, lost, writeVars, boundVars>>

ReadCallbackResubmits ==
  /\ AsyncAnswered /\ (reading.length <= 2 \/ Len(Received) < Room)
  /\ \/ reading' = [reading EXCEPT !.buf = Filled, !.flight = "queued"] /\ UNCHANGED faults
     \/ /\ reading' = [reading EXCEPT !.buf = Filled, !.flight = "none", !.completed = TRUE]
        /\ Fault
  /\ IF reading.length > 2 THEN KeepNothing
     ELSE UNCHANGED <<readbuffer_offset, readbuffer_remaining>>
  /\ UNCHANGED <<openVars, speedVars, readbuffer, chunkVars, sent, taken, lost, writeVars,
                 opens>>

(* ftdi_transfer_data_done(): -1 unless the last transfer completed.       *)
ReadDone ==
  /\ Free /\ reading.how = "async" /\ reading.completed
  /\ reading' = NoRead
  /\ IF reading.status = "COMPLETED" THEN Returned(reading.buf)
     ELSE Lose(reading.buf) /\ UNCHANGED taken
  /\ UNCHANGED <<openVars, speedVars, bufferVars, chunkVars, sent, writeVars, boundVars>>

Reading ==
  \/ \E n \in ReadSizes :
       \/ ReadKept(n) \/ ReadSubmitKept(n) \/ ReadSubmitFails(n)
       \/ \E how \in {"sync", "async"} : ReadBegins(how, n)
  \/ ReadEnds \/ ReadOverflows \/ ReadFails \/ ReadReturns \/ ReadLoops
  \/ ReadCallbackEnds \/ ReadCallbackResubmits \/ ReadDone

-----------------------------------------------------------------------------
(* ftdi_write_data() and ftdi_write_data_submit()                          *)

(* Mutant of NextPiece: the buffer is sent from its start again.           *)
SamePiece(tc) ==
  [tc EXCEPT !.flight = "queued", !.from = 0,
             !.length = Min({writebuffer_chunksize, tc.size - tc.offset})]

NextPiece(tc) ==
  [tc EXCEPT !.flight = "queued", !.from = tc.offset,
             !.length = Min({writebuffer_chunksize, tc.size - tc.offset})]

WriteBegins(w, how, size) ==
  /\ AsOpened /\ writing[w].how = "no"
  /\ how = "sync" => size > 0
  /\ writing' = [writing EXCEPT ![w] = NextPiece([NoWrite EXCEPT !.how = how, !.size = size])]
  /\ UNCHANGED <<openVars, speedVars, bufferVars, chunkVars, readVars, wire, boundVars>>

WriteEnds(w) ==
  /\ writing[w].flight = "queued"
  /\ \E n \in 0..writing[w].length :
       /\ IF n = writing[w].length THEN UNCHANGED faults ELSE Fault
       /\ writing' = [writing EXCEPT
            ![w].flight = "ended", ![w].length = n,
            ![w].status = IF n = writing[w].length THEN "COMPLETED" ELSE "TIMED_OUT"]
       /\ wire' = [wire EXCEPT ![w] = @ \o [k \in 1..n |-> writing[w].from + k]]
  /\ UNCHANGED <<openVars, speedVars, bufferVars, chunkVars, readVars, opens>>

Answered(w, how) == writing[w].how = how /\ writing[w].flight = "ended"

Counted(w) == [writing[w] EXCEPT !.offset = @ + writing[w].length, !.flight = "none"]

Done(tc, result) == [tc EXCEPT !.how = "done", !.flight = "none", !.result = result]

WriteReturns(w) ==
  /\ Answered(w, "sync")
  /\ LET tc == Counted(w)
     IN  writing' = [writing EXCEPT ![w] =
           IF writing[w].status # "COMPLETED" THEN Done(tc, -1)
           ELSE IF tc.offset < tc.size THEN NextPiece(tc) ELSE Done(tc, tc.offset)]
  /\ UNCHANGED <<openVars, speedVars, bufferVars, chunkVars, readVars, wire, boundVars>>

(* ftdi_write_data_cb(): what was not taken, for whatever reason, is sent  *)
(* again, unless it cannot be submitted.                                   *)
WriteCallback(w) ==
  /\ Answered(w, "async")
  /\ LET tc == Counted(w)
     IN  \/ /\ tc.offset = tc.size /\ UNCHANGED faults
            /\ writing' = [writing EXCEPT ![w] = [tc EXCEPT !.completed = TRUE]]
         \/ /\ tc.offset # tc.size /\ UNCHANGED faults
            /\ writing' = [writing EXCEPT ![w] = NextPiece(tc)]
         \/ /\ tc.offset # tc.size /\ Fault
            /\ writing' = [writing EXCEPT ![w] = [tc EXCEPT !.completed = TRUE]]
  /\ UNCHANGED <<openVars, speedVars, bufferVars, chunkVars, readVars, wire, opens>>

WriteDone(w) ==
  /\ Free /\ writing[w].how = "async" /\ writing[w].completed
  /\ writing' = [writing EXCEPT ![w] =
       Done(@, IF @.status = "COMPLETED" THEN @.offset ELSE -1)]
  /\ UNCHANGED <<openVars, speedVars, bufferVars, chunkVars, readVars, wire, boundVars>>

Writing(w) ==
  \/ \E n \in WriteSizes, how \in {"sync", "async"} : WriteBegins(w, how, n)
  \/ WriteEnds(w) \/ WriteReturns(w) \/ WriteCallback(w) \/ WriteDone(w)

FtdiNext ==
  \/ \E t \in ChipTypes : Open(t)
  \/ Close \/ Purge \/ SetBitmode
  \/ \E b \in Rates : SetBaudrate(b)
  \/ \E c \in ReadChunks : ReadSetChunksize(c)
  \/ \E c \in WriteChunks : WriteSetChunksize(c)
  \/ Reading
  \/ \E w \in Writers : Writing(w)

FtdiSpec == FtdiInit /\ [][FtdiNext]_vars

-----------------------------------------------------------------------------
FtdiTypeOK ==
  /\ usb_dev \in BOOLEAN /\ opened \in BOOLEAN /\ since \in 0..sent
  /\ type \in Types /\ baudrate \in Int /\ bitbang_enabled \in BOOLEAN
  /\ line \in [value : 0..(2^16 - 1), index : 0..(2^16 - 1)]
  /\ readbuffer \in Seq(0..MaxSent)
  /\ readbuffer_offset \in Nat /\ readbuffer_remaining \in Nat
  /\ readbuffer_offset + readbuffer_remaining <= Len(readbuffer)
  /\ \E c \in ReadChunks : Len(readbuffer) <= c
  /\ readbuffer_chunksize \in ReadChunks /\ writebuffer_chunksize \in WriteChunks
  /\ reading \in [how : {"no", "sync", "async"}, size : ReadSizes \cup {0},
                  buf : Seq(1..MaxSent), completed : BOOLEAN,
                  flight : {"none", "queued", "ended"}, length : Nat,
                  status : {"COMPLETED", "TIMED_OUT"}]
  /\ Len(reading.buf) <= reading.size
  /\ writing \in [Writers -> [how : {"no", "sync", "async", "done"},
                              size : WriteSizes \cup {0}, offset : Nat,
                              completed : BOOLEAN,
                              flight : {"none", "queued", "ended"}, from : Nat,
                              length : Nat, status : {"COMPLETED", "TIMED_OUT"},
                              result : Nat \cup {-1}]]
  /\ wire \in [Writers -> Seq(Nat)]
  /\ sent \in 0..MaxSent /\ taken \in 0..sent /\ lost \subseteq 1..sent
  /\ opens \in 0..MaxOpens /\ faults \in 0..MaxFaults

(* Reads return the chip's bytes in the order it gave them, each once, and *)
(* no status byte: what the caller has so far, what has come and what is   *)
(* kept are, but for the status bytes of what has come, all that came      *)
(* after the last byte returned and that the user was not told is lost.    *)
(* Of a device that was opened, nothing from before the open is read.      *)
Known == reading.buf \o (IF reading.flight = "ended" THEN readbuffer ELSE <<>>)
                     \o (IF usb_dev THEN Kept ELSE <<>>)

ReadsInOrder ==
  /\ \A i, j \in DOMAIN Known :
       i < j /\ Known[i] # 0 /\ Known[j] # 0 => Known[i] < Known[j]
  /\ ToSet(Known) \ {0} = ((taken + 1)..sent) \ lost
  /\ 0 \notin ToSet(reading.buf) \cup ToSet(Kept)
  /\ opened => (taken + 1)..since \subseteq lost

(* The chip gets the bytes of each write in order and each once, however   *)
(* often the write was interrupted, and is said to have got as many.       *)
WritesInOrder ==
  \A w \in Writers :
    /\ wire[w] = [k \in 1..Len(wire[w]) |-> k]
    /\ writing[w].how = "done" => writing[w].result \in {-1, Len(wire[w])}

(* "Check within tolerance (about 5%)": the rate that the chip makes of    *)
(* what it is sent, by its own reading of the two words, is within a       *)
(* twentieth of the rate that was asked for (bitbang: four times that),    *)
(* from an open that returned 0 until the close.                           *)
RateIsKept ==
  opened => 20 * Diff(ChipRate(type, line), baudrate) <= baudrate + 20
=============================================================================
