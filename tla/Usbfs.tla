------------------------------- MODULE Usbfs --------------------------------
(***************************************************************************)
(* One transfer in libusb's Linux backend (libusb/libusb/os/linux_usbfs.c),*)
(* of the device to the host:                                              *)
(* it is split into URBs, which the kernel carries out in order, gives     *)
(* back as they end and takes back one by one.  The transfer's lock is     *)
(* held while URBs are submitted or discarded (op.by); the kernel goes on  *)
(* meanwhile.  A unit of length stands for 8 KB, two of them for           *)
(* MAX_BULK_BUFFER_LENGTH, and the k-th unit the device sends is k.        *)
(***************************************************************************)
EXTENDS Integers, SequencesExt

CONSTANTS
  Lengths,   (* the transfer's length in units, chosen at first            *)
  Caps,      (* the sets of capabilities the kernel may have               *)
  Types,     (* of "bulk" (interrupt transfers too), "control", "iso"      *)
  StallFrom, (* the first URB on which the endpoint may stall              *)
  UnplugAt   (* who may be discarding URBs when the device is pulled out   *)

ASSUME UsbfsAssumption ==
  /\ Lengths \subseteq Nat /\ Lengths # {}
  /\ Caps # {} /\ Caps \subseteq SUBSET {"SCATTER", "CONTINUATION", "NO_LIMIT", "REAP"}
  /\ Types # {} /\ Types \subseteq {"bulk", "control", "iso"}
  /\ StallFrom \in Nat
  /\ UnplugAt \subseteq {"none", "submit", "cancel", "complete"}

VARIABLES
  type, length, caps,          (* of the transfer and of the kernel         *)
  urbs,                        (* whether tpriv->urbs is allocated          *)
  num_retired, reap_action, reap_status,
  transferred, buffer,         (* of the transfer: what the user will get   *)
  op,                          (* who holds the lock, and its loop          *)
  reaped,                      (* the URB the event thread is handling      *)
  asked,                       (* a cancellation was tried (CANCELLING)     *)
  answer,                      (* the status of the completion, in callback *)
  queue, filled,               (* kernel: the URBs to do, and what they got *)
  done,                        (* kernel: the URBs to reap, and how they    *)
                               (* ended                                     *)
  sent,                        (* the device: units sent                    *)
  halted,                      (* the endpoint takes no continuation (more) *)
  stalled,                     (* the endpoint stands still                 *)
  gone, detached               (* pulled out; and libusb has noticed        *)

setup == <<type, length, caps>>
priv == <<urbs, num_retired, reap_action, reap_status>>
data == <<transferred, buffer>>
kernel == <<queue, filled, done, sent, halted, stalled>>
world == <<gone, detached>>
vars == <<setup, priv, data, op, reaped, asked, answer, kernel, world>>

MaxBulk == 2

AtLeastOne(n) == IF n = 0 THEN 1 ELSE n

(* How a transfer is split: SCATTER and NO_LIMIT leave it whole.           *)
Continued == type = "bulk" /\ "SCATTER" \notin caps /\ "CONTINUATION" \in caps

BufferLen ==
  IF \/ type = "control"
     \/ type = "bulk" /\ ("SCATTER" \in caps \/ (~Continued /\ "NO_LIMIT" \in caps))
  THEN AtLeastOne(length) ELSE MaxBulk

NumUrbs == AtLeastOne((length + BufferLen - 1) \div BufferLen)

(* Where the data of an URB belongs, and how much of it.                   *)
Offset(i) == (i - 1) * BufferLen
UrbLength(i) == IF i < NumUrbs THEN BufferLen ELSE length - Offset(NumUrbs)

NoOp == [by |-> "none", first |-> 0, next |-> 0, ret |-> "SUCCESS"]
NoUrb == [urb |-> 0, status |-> "none"]

Urbs == 1..NumUrbs
Endings == {"ok", "remote", "unlinked", "nodev", "stall", "overflow", "lowlevel"}
Ended(i, ending) == [urb |-> i, status |-> ending]

UsbfsTypeOK ==
  /\ type \in Types /\ length \in Lengths /\ caps \in Caps
  /\ urbs \in BOOLEAN /\ num_retired \in 0..NumUrbs
  /\ reap_action \in {"NORMAL", "SUBMIT_FAILED", "CANCELLED", "COMPLETED_EARLY", "ERROR"}
  /\ reap_status \in {"COMPLETED", "ERROR", "STALL", "OVERFLOW", "NO_DEVICE"}
  /\ transferred \in 0..length /\ buffer \in [1..length -> 0..length]
  /\ op \in [by : {"none", "submit", "cancel", "complete"}, first : 0..NumUrbs,
             next : 0..NumUrbs, ret : {"SUCCESS", "NOT_FOUND", "NO_DEVICE"}]
  /\ reaped \in [urb : Urbs, status : Endings] \cup {NoUrb}
  /\ asked \in BOOLEAN /\ gone \in BOOLEAN /\ {halted, stalled} \subseteq BOOLEAN
  /\ answer \in {"none", "COMPLETED", "CANCELLED", "ERROR", "STALL", "OVERFLOW", "NO_DEVICE"}
  /\ queue \in Seq(Urbs) /\ filled \in [Urbs -> 0..length]
  /\ done \in Seq([urb : Urbs, status : Endings])
  /\ sent \in 0..length /\ detached \in BOOLEAN

UsbfsInit ==
  /\ type \in Types /\ length \in Lengths /\ caps \in Caps
  /\ urbs = FALSE /\ num_retired = 0
  /\ reap_action = "NORMAL" /\ reap_status = "COMPLETED"
  /\ transferred = 0 /\ buffer = [k \in 1..length |-> 0]
  /\ op = NoOp /\ reaped = NoUrb
  /\ asked = FALSE /\ answer = "none"
  /\ queue = <<>> /\ filled = [i \in Urbs |-> 0] /\ done = <<>>
  /\ sent = 0 /\ halted = FALSE /\ stalled = FALSE
  /\ gone = FALSE /\ detached = FALSE

-----------------------------------------------------------------------------
(* op_submit_transfer(), with the lock that libusb_submit_transfer() took. *)

InFlight == urbs /\ op.by # "submit"

Submit ==
  /\ op.by = "none" /\ ~urbs /\ answer = "none" /\ reaped = NoUrb
  /\ urbs' = TRUE /\ num_retired' = 0
  /\ reap_action' = "NORMAL" /\ reap_status' = "COMPLETED"
  /\ transferred' = 0 /\ buffer' = [k \in 1..length |-> 0]
  /\ op' = [NoOp EXCEPT !.by = "submit", !.next = 1]
  /\ asked' = FALSE
  /\ sent' = 0 /\ filled' = [i \in Urbs |-> 0] /\ halted' = FALSE /\ stalled' = FALSE
  /\ UNCHANGED <<setup, reaped, answer, queue, done, world>>

Submitting == op.by = "submit" /\ op.first = 0

(* A continuation is refused once an URB before it has ended early.        *)
SubmitUrb ==
  /\ Submitting /\ ~gone /\ ~halted
  /\ queue' = Append(queue, op.next)
  /\ op' = IF op.next = NumUrbs THEN NoOp ELSE [op EXCEPT !.next = @ + 1]
  /\ UNCHANGED <<setup, priv, data, reaped, asked, answer, filled, done, sent, halted, stalled, world>>

FirstUrbFails ==
  /\ Submitting /\ op.next = 1
  /\ urbs' = FALSE
  /\ op' = NoOp
  /\ UNCHANGED <<setup, num_retired, reap_action, reap_status, data, reaped, asked, answer,
                 kernel, world>>

(* Submission fails with EREMOTEIO.                                        *)
EndedEarly == halted /\ ~gone

(* Mutant of LaterUrbFails: the URBs not submitted are waited for, too.    *)
LaterUrbFailsUncounted ==
  /\ Submitting /\ op.next > 1
  /\ reap_action' = IF EndedEarly THEN "COMPLETED_EARLY" ELSE "SUBMIT_FAILED"
  /\ op' = IF EndedEarly THEN NoOp ELSE [op EXCEPT !.first = 1, !.next = @ - 1]
  /\ UNCHANGED <<setup, urbs, num_retired, reap_status, data, reaped, asked, answer, kernel, world>>

(* Mutant of LaterUrbFails: one URB too many counts as retired.            *)
LaterUrbFailsOvercounted ==
  /\ Submitting /\ op.next > 1
  /\ reap_action' = IF EndedEarly THEN "COMPLETED_EARLY" ELSE "SUBMIT_FAILED"
  /\ num_retired' = num_retired + NumUrbs - (op.next - 2)
  /\ op' = IF EndedEarly THEN NoOp ELSE [op EXCEPT !.first = 1, !.next = @ - 1]
  /\ UNCHANGED <<setup, urbs, reap_status, data, reaped, asked, answer, kernel, world>>

(* The URBs not submitted count as retired; the others are discarded,      *)
(* unless the transfer has ended early (EREMOTEIO).                        *)
LaterUrbFails ==
  /\ Submitting /\ op.next > 1
  /\ reap_action' = IF EndedEarly THEN "COMPLETED_EARLY" ELSE "SUBMIT_FAILED"
  /\ num_retired' = num_retired + NumUrbs - (op.next - 1)
  /\ op' = IF EndedEarly THEN NoOp ELSE [op EXCEPT !.first = 1, !.next = @ - 1]
  /\ UNCHANGED <<setup, urbs, reap_status, data, reaped, asked, answer, kernel, world>>

-----------------------------------------------------------------------------
(* discard_urbs(): from the last URB to the first, each by an ioctl.       *)

Discarding == op.by # "none" /\ op.first > 0

(* Where the kernel has the URB that the ioctl names.                      *)
Position(i) == CHOOSE k \in DOMAIN queue : queue[k] = i

DiscardUrb ==
  /\ Discarding /\ op.next >= op.first
  /\ LET i == op.next
         queued == i \in ToSet(queue)
     IN  /\ queue' = IF queued THEN RemoveAt(queue, Position(i)) ELSE queue
         /\ done' = IF queued THEN Append(done, Ended(i, "unlinked")) ELSE done
         /\ op' = [op EXCEPT !.next = @ - 1,
                     !.ret = IF queued THEN @
                             ELSE IF gone THEN "NO_DEVICE"
                             ELSE IF i = NumUrbs THEN "NOT_FOUND" ELSE @]
  /\ UNCHANGED <<setup, priv, data, reaped, asked, answer, filled, sent, halted, stalled, world>>

(* Mutant of Discarded: a cancellation is noted whether it succeeded or not.*)
DiscardedAnyway ==
  /\ Discarding /\ op.next < op.first
  /\ reap_action' = IF op.by = "cancel" /\ ~(type = "bulk" /\ reap_action = "ERROR")
                    THEN "CANCELLED" ELSE reap_action
  /\ reaped' = IF op.by = "complete" THEN NoUrb ELSE reaped
  /\ op' = NoOp
  /\ UNCHANGED <<setup, urbs, num_retired, reap_status, data, asked, answer, kernel, world>>

Discarded ==
  /\ Discarding /\ op.next < op.first
  /\ reap_action' = IF op.by = "cancel" /\ op.ret = "SUCCESS"
                         /\ ~(type = "bulk" /\ reap_action = "ERROR")
                    THEN "CANCELLED" ELSE reap_action
  /\ reaped' = IF op.by = "complete" THEN NoUrb ELSE reaped
  /\ op' = NoOp
  /\ UNCHANGED <<setup, urbs, num_retired, reap_status, data, asked, answer, kernel, world>>

(* op_cancel_transfer(): libusb_cancel_transfer() calls it once at most.   *)
Cancel ==
  /\ op.by = "none" /\ urbs /\ ~asked
  /\ asked' = TRUE
  /\ op' = [NoOp EXCEPT !.by = "cancel", !.first = 1, !.next = NumUrbs]
  /\ UNCHANGED <<setup, priv, data, reaped, answer, kernel, world>>

-----------------------------------------------------------------------------
(* The event thread: reap_for_handle() and the three handlers.             *)

Reap ==
  /\ reaped = NoUrb /\ answer = "none" /\ ~detached /\ done # <<>>
  /\ reaped' = Head(done)
  /\ done' = Tail(done)
  /\ UNCHANGED <<setup, priv, data, op, asked, answer, queue, filled, sent, halted, stalled, world>>

Handling(types) == reaped # NoUrb /\ op.by = "none" /\ type \in types

Complete(status) ==
  /\ urbs' = FALSE
  /\ reaped' = NoUrb
  /\ answer' = status

(* Mutant of MoveSurplus: data is left where the kernel has put it.        *)
LeaveSurplus(i) == UNCHANGED buffer

(* What an URB got is put behind what was transferred before.              *)
MoveSurplus(i) ==
  buffer' = [k \in 1..length |->
    IF k \in transferred + 1..transferred + filled[i]
    THEN buffer[Offset(i) + k - transferred] ELSE buffer[k]]

(* handle_bulk_completion(), cancelled, not fully submitted or torn down.  *)
BulkAbnormal ==
  /\ Handling({"bulk"}) /\ reap_action # "NORMAL"
  /\ num_retired' = num_retired + 1
  /\ MoveSurplus(reaped.urb)
  /\ transferred' = transferred + filled[reaped.urb]
  /\ IF num_retired' = NumUrbs
     THEN /\ reap_status' = IF reap_action # "COMPLETED_EARLY" /\ reap_status = "COMPLETED"
                            THEN "ERROR" ELSE reap_status
          /\ Complete(IF reap_action = "CANCELLED" THEN "CANCELLED" ELSE reap_status')
     ELSE reaped' = NoUrb /\ UNCHANGED <<urbs, reap_status, answer>>
  /\ UNCHANGED <<setup, reap_action, op, asked, kernel, world>>

(* Mutant of Remaining: an answer does not wait for the rest.              *)
NoneRemaining(retired) == FALSE

(* Some URB is not back yet.                                               *)
Remaining(retired) == retired # NumUrbs

(* It ends the transfer, or has the rest torn down, or waits for the rest. *)
BulkNormal ==
  /\ Handling({"bulk"}) /\ reap_action = "NORMAL"
  /\ num_retired' = num_retired + 1
  /\ transferred' = transferred + filled[reaped.urb]
  /\ LET fault == reaped.status \in {"nodev", "stall", "lowlevel"}
         last  == ~fault /\ (reaped.status = "overflow" \/ reaped.urb = NumUrbs)
         short == ~fault /\ ~last /\ filled[reaped.urb] < UrbLength(reaped.urb)
     IN  /\ reap_action' = CASE reaped.status = "lowlevel" -> "ERROR"
                             [] short                      -> "COMPLETED_EARLY"
                             [] OTHER                      -> "NORMAL"
         /\ reap_status' = CASE reaped.status = "nodev"      -> "NO_DEVICE"
                             [] reap_status # "COMPLETED"    -> reap_status
                             [] reaped.status = "stall"      -> "STALL"
                             [] reaped.status = "overflow"   -> "OVERFLOW"
                             [] reaped.status = "lowlevel"   -> "ERROR"
                             [] OTHER                        -> reap_status
         /\ \/ /\ last \/ ((fault \/ short) /\ ~Remaining(num_retired'))
               /\ Complete(reap_status')
               /\ UNCHANGED op
            \/ /\ (fault \/ short) /\ Remaining(num_retired')
               /\ op' = [NoOp EXCEPT !.by = "complete", !.first = reaped.urb + 1,
                                     !.next = NumUrbs]
               /\ UNCHANGED <<urbs, reaped, answer>>
            \/ /\ ~fault /\ ~last /\ ~short
               /\ reaped' = NoUrb
               /\ UNCHANGED <<urbs, answer, op>>
  /\ UNCHANGED <<setup, buffer, asked, kernel, world>>

StatusOf(ending) ==
  CASE ending \in {"ok", "remote"} -> "COMPLETED"
    [] ending = "unlinked"         -> "CANCELLED"
    [] ending = "nodev"            -> "NO_DEVICE"
    [] ending = "stall"            -> "STALL"
    [] ending = "overflow"         -> "OVERFLOW"
    [] ending = "lowlevel"         -> "ERROR"

(* handle_control_completion().                                            *)
Control ==
  /\ Handling({"control"})
  /\ transferred' = transferred + filled[reaped.urb]
  /\ Complete(IF reap_action = "CANCELLED" THEN "CANCELLED" ELSE StatusOf(reaped.status))
  /\ UNCHANGED <<setup, num_retired, reap_action, reap_status, buffer, op, asked, kernel, world>>

(* handle_iso_completion(): lengths and errors of the packets are left out;*)
(* an URB that was taken back is no error.                                 *)
Iso ==
  /\ Handling({"iso"})
  /\ num_retired' = num_retired + 1
  /\ IF reap_action # "NORMAL"
     THEN IF num_retired' = NumUrbs
          THEN Complete(IF reap_action = "CANCELLED" THEN "CANCELLED" ELSE "ERROR")
          ELSE reaped' = NoUrb /\ UNCHANGED <<urbs, answer>>
     ELSE IF reaped.urb = NumUrbs
          THEN Complete(CASE reaped.status \in {"ok", "unlinked"} -> "COMPLETED"
                          [] reaped.status = "nodev"             -> "NO_DEVICE"
                          [] OTHER                               -> "ERROR")
          ELSE reaped' = NoUrb /\ UNCHANGED <<urbs, answer>>
  /\ UNCHANGED <<setup, reap_action, reap_status, data, op, asked, kernel, world>>

(* usbi_handle_transfer_completion() has called the user back.             *)
Callback ==
  /\ answer # "none"
  /\ answer' = "none"
  /\ UNCHANGED <<setup, priv, data, op, reaped, asked, kernel, world>>

(* op_handle_events() is told of the disconnect: what the kernel lets it   *)
(* reap is reaped first, and what is left in flight is cleared.            *)
Detach ==
  /\ gone /\ ~detached /\ reaped = NoUrb /\ answer = "none" /\ op.by = "none"
  /\ "REAP" \in caps => done = <<>>
  /\ detached' = TRUE
  /\ done' = <<>>
  /\ urbs' = FALSE
  /\ answer' = IF urbs THEN "NO_DEVICE" ELSE "none"
  /\ UNCHANGED <<setup, num_retired, reap_action, reap_status, data, op, reaped, asked,
                 queue, filled, sent, halted, stalled, gone>>

-----------------------------------------------------------------------------
(* The kernel and the device.                                              *)

(* The URB at the head of the queue gets a unit, unless the endpoint has   *)
(* stalled ...                                                             *)
Receive ==
  /\ queue # <<>> /\ sent < length /\ ~stalled
  /\ LET i == Head(queue)
     IN  /\ filled[i] < UrbLength(i)
         /\ filled' = [filled EXCEPT ![i] = @ + 1]
         /\ sent' = sent + 1
         /\ buffer' = [buffer EXCEPT ![Offset(i) + filled[i] + 1] = sent + 1]
  /\ UNCHANGED <<setup, priv, transferred, op, reaped, asked, answer, queue, done, halted, stalled, world>>

(* ... and ends, full or not.  After an early end or an error, the kernel  *)
(* takes back continuations in their order.                                *)
EndUrb(ending) ==
  /\ queue # <<>> /\ ~stalled
  /\ LET i == Head(queue)
         full == filled[i] = UrbLength(i)
         early == Continued /\ (ending # "ok" \/ ~full)
         rest == [j \in DOMAIN Tail(queue) |-> Ended(Tail(queue)[j], "unlinked")]
     IN  /\ ending = "overflow" => i = NumUrbs
         /\ ending = "stall" => i >= StallFrom
         /\ ending = "remote" <=> ending \in {"ok", "remote"} /\ Continued /\ ~full /\ i < NumUrbs
         /\ done' = Append(done, Ended(i, ending)) \o IF early THEN rest ELSE <<>>
         /\ queue' = IF early THEN <<>> ELSE Tail(queue)
         /\ halted' = (halted \/ early)
         /\ stalled' = (ending = "stall")
  /\ UNCHANGED <<setup, priv, data, op, reaped, asked, answer, filled, sent, world>>

(* The device is pulled out, and the kernel gives all URBs back.           *)
Unplug ==
  /\ ~gone /\ op.by \in UnplugAt
  /\ gone' = TRUE
  /\ done' = done \o [j \in DOMAIN queue |-> Ended(queue[j], "nodev")]
  /\ queue' = <<>>
  /\ UNCHANGED <<setup, priv, data, op, reaped, asked, answer, filled, sent, halted, stalled, detached>>

Submission == SubmitUrb \/ FirstUrbFails \/ LaterUrbFails
Handle == BulkAbnormal \/ BulkNormal \/ Control \/ Iso

UsbfsNext ==
  \/ Submit \/ Submission \/ DiscardUrb \/ Discarded \/ Cancel
  \/ Reap \/ Handle \/ Callback \/ Detach
  \/ Receive \/ (\E e \in Endings \ {"unlinked", "nodev"} : EndUrb(e)) \/ Unplug

(* Threads go on, and the event thread polls; the device owes no answer.   *)
UsbfsFairness ==
  /\ WF_vars(Submission) /\ WF_vars(DiscardUrb \/ Discarded)
  /\ WF_vars(Reap) /\ WF_vars(Handle) /\ WF_vars(Callback) /\ WF_vars(Detach)

UsbfsSpec == UsbfsInit /\ [][UsbfsNext]_vars /\ UsbfsFairness

-----------------------------------------------------------------------------
(* The memory of the URBs is not freed as long as the kernel works on one, *)
(* one is to be reaped, or the event thread handles one (in particular not *)
(* by an answer that comes before the last of them is back).               *)
UrbsOutliveKernel == ~urbs => queue = <<>> /\ done = <<>> /\ reaped = NoUrb

(* The comment on surplus data: nothing received is lost, and it is one    *)
(* contiguous piece from the buffer's start on, however the URBs ended.    *)
DataInOrder ==
  type = "bulk" /\ answer # "none" /\ ~(gone /\ "REAP" \notin caps) =>
    /\ transferred = sent
    /\ \A k \in 1..transferred : buffer[k] = k

(* It is a backend as io.c needs it.                                       *)
TakenBack ==
  \/ reap_action = "CANCELLED"
  \/ op.by = "cancel" /\ op.next < NumUrbs /\ op.ret = "SUCCESS"

Request ==
  CASE ~InFlight -> "none"
    [] InFlight /\ TakenBack -> "discarded"
    [] InFlight /\ ~TakenBack /\ reap_action = "NORMAL" /\ NumUrbs \in ToSet(queue) -> "queued"
    [] OTHER -> "done"

Backend == INSTANCE UsbBackend WITH request <- Request

BackendSpec == Backend!Spec

(* A transfer that was cancelled, that could not be submitted whole, that  *)
(* has ended early or failed, or has lost its device, is answered.         *)
AnswerFollows ==
  (InFlight /\ (TakenBack \/ gone \/ reap_action # "NORMAL" \/ reap_status # "COMPLETED"))
    ~> ~urbs
=============================================================================
