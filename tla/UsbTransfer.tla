----------------------------- MODULE UsbTransfer ----------------------------
(***************************************************************************)
(* The life of asynchronous transfers on one device in libusb              *)
(* (libusb/libusb/io.c): the list of flying transfers sorted by deadline,  *)
(* the timer, submission and cancellation by any thread, and the one       *)
(* thread that handles events.  flying_transfers_lock is held from one     *)
(* step to the next only by handle_timeouts (scan # 0), a transfer's own   *)
(* lock only while its submission is with the backend.  The backend is     *)
(* abstract here; Usbfs is the one for Linux.                              *)
(***************************************************************************)
EXTENDS Integers, SequencesExt

CONSTANTS
  Transfers,
  Timeouts,   (* per transfer: the values its user may choose; 0 is for    *)
              (* ever                                                      *)
  MaxNow,     (* bound: the clock stops here                               *)
  MaxSubmits, (* bound: submissions, of all transfers together             *)
  None        (* no transfer                                               *)

ASSUME UsbTransferAssumption ==
  /\ Timeouts \in [Transfers -> SUBSET Nat]
  /\ MaxNow \in Nat \ {0} /\ MaxSubmits \in Nat
  /\ None \notin Transfers

VARIABLES
  now,            (* the monotonic clock, from 1; 0 is "not set"           *)
  flying,         (* flying_transfers                                      *)
  timeout,        (* usbi_transfer.timeout: the absolute deadline, or 0    *)
  state_flags,    (* per transfer: IN_FLIGHT, CANCELLING, DISAPPEARED      *)
  timeout_flags,  (* per transfer: HANDLED, TIMED_OUT                      *)
  timer,          (* the deadline that timerfd is armed for, or 0          *)
  using_timerfd,  (* whether the system has a timerfd                      *)
  submitting,     (* per transfer: "no", "backend" or "accepted" (its lock *)
                  (* is held), or "failed" (it is not off the list yet)    *)
  urb,            (* per transfer: the backend's request                   *)
  gone,           (* the device was pulled out                             *)
  detached,       (* "no", "busy" in usbi_handle_disconnect(), or "yes"    *)
  scan,           (* the time handle_timeouts() has read, or 0             *)
  timing,         (* the transfer it has cancelled and not marked yet      *)
  handler,        (* the event thread: what it is about to do              *)
  handled,        (* and with which transfer                               *)
  status,         (* and the status that the callback will get             *)
  wanted,         (* libusb_transfer.timeout, which its user sets          *)
  submits,             (* how many submissions there were                  *)
  pending, cancelled   (* history, see UsbRequest                          *)

listVars == <<flying, timeout, timer>>
flagVars == <<state_flags, timeout_flags, submitting, urb>>
worldVars == <<now, using_timerfd, gone>>
handlerVars == <<detached, handler, handled, status>>
history == <<wanted, submits, pending, cancelled>>
vars == <<listVars, flagVars, worldVars, scan, timing, handlerVars, history>>

Statuses == {"COMPLETED", "CANCELLED", "TIMED_OUT", "NO_DEVICE"}

TransferTypeOK ==
  /\ now \in 1..MaxNow /\ timer \in Nat /\ scan \in 0..MaxNow
  /\ flying \in Seq(Transfers)
  /\ timeout \in [Transfers -> Nat] /\ wanted \in [Transfers -> Nat] /\ submits \in 0..MaxSubmits
  /\ state_flags \in [Transfers -> SUBSET {"IN_FLIGHT", "CANCELLING", "DISAPPEARED"}]
  /\ timeout_flags \in [Transfers -> SUBSET {"HANDLED", "TIMED_OUT"}]
  /\ using_timerfd \in BOOLEAN /\ gone \in BOOLEAN
  /\ submitting \in [Transfers -> {"no", "backend", "accepted", "failed"}]
  /\ urb \in [Transfers -> {"none", "queued", "done", "discarded"}]
  /\ detached \in {"no", "busy", "yes"}
  /\ handler \in {"poll", "timeouts", "cancellation", "remove", "clear", "callback",
                  "disconnect"}
  /\ {timing, handled} \subseteq Transfers \cup {None}
  /\ status \in Statuses \cup {"none"}
  /\ pending \subseteq Transfers /\ cancelled \subseteq pending

TransferInit ==
  /\ now = 1 /\ timer = 0 /\ scan = 0
  /\ flying = <<>>
  /\ timeout = [t \in Transfers |-> 0] /\ submits = 0
  /\ wanted \in {w \in [Transfers -> UNION {Timeouts[t] : t \in Transfers}] :
                  \A t \in Transfers : w[t] \in Timeouts[t]}
  /\ state_flags = [t \in Transfers |-> {}]
  /\ timeout_flags = [t \in Transfers |-> {}]
  /\ using_timerfd \in BOOLEAN /\ gone = FALSE
  /\ submitting = [t \in Transfers |-> "no"]
  /\ urb = [t \in Transfers |-> "none"]
  /\ detached = "no" /\ handler = "poll"
  /\ timing = None /\ handled = None /\ status = "none"
  /\ pending = {} /\ cancelled = {}

-----------------------------------------------------------------------------
(* The list and the timer.                                                 *)

ListLockFree == scan = 0
OwnLockFree(t) == submitting[t] \notin {"backend", "accepted"}

(* The deadline of the first transfer of list that no timeout was handled  *)
(* for: 0 if it has none, or if there is no such transfer.                 *)
NextDeadline(list) ==
  LET open == {i \in DOMAIN list : "HANDLED" \notin timeout_flags[list[i]]}
  IN  IF open = {} THEN 0 ELSE timeout[list[Min(open)]]

(* Mutant of Deadline: the timeout is taken off the time.                  *)
DeadlineBefore(t) == IF wanted[t] = 0 THEN timeout[t] ELSE now - wanted[t]

(* calculate_timeout(): without a timeout the old deadline stays.          *)
Deadline(t) == IF wanted[t] = 0 THEN timeout[t] ELSE now + wanted[t]

(* The place in the list for deadline d: before the first later one.       *)
Place(d) ==
  LET later == {i \in DOMAIN flying : timeout[flying[i]] = 0 \/ timeout[flying[i]] > d}
  IN  IF d = 0 \/ later = {} THEN Len(flying) + 1 ELSE Min(later)

(* Mutant of AddToFlying: a transfer is appended, whatever its deadline.   *)
AddToFlyingLast(t, d) ==
  /\ flying' = Append(flying, t)
  /\ timeout' = [timeout EXCEPT ![t] = d]
  /\ timer' = IF using_timerfd /\ flying = <<>> /\ d # 0 THEN d ELSE timer

AddToFlying(t, d) ==
  /\ flying' = InsertAt(flying, Place(d), t)
  /\ timeout' = [timeout EXCEPT ![t] = d]
  /\ timer' = IF using_timerfd /\ Place(d) = 1 /\ d # 0 THEN d ELSE timer

Position(t) == CHOOSE i \in DOMAIN flying : flying[i] = t

(* Mutant of RemoveFromFlying: the timer stays as it is.                   *)
RemoveFromFlyingOnly(t) ==
  flying' = RemoveAt(flying, Position(t)) /\ UNCHANGED <<timeout, timer>>

RemoveFromFlying(t) ==
  /\ flying' = RemoveAt(flying, Position(t))
  /\ timer' = IF using_timerfd /\ timeout[t] # 0 /\ Head(flying) = t
              THEN NextDeadline(flying') ELSE timer
  /\ UNCHANGED timeout

-----------------------------------------------------------------------------
(* The users: any thread, the event thread inside a callback included.     *)

(* libusb_submit_transfer(), up to the call of the backend.                *)
Submit(t) ==
  /\ t \notin pending /\ submitting[t] = "no"
  /\ ListLockFree
  /\ "IN_FLIGHT" \notin state_flags[t]   \* otherwise BUSY, and nothing changes
  /\ state_flags' = [state_flags EXCEPT ![t] = {}]
  /\ timeout_flags' = [timeout_flags EXCEPT ![t] = {}]
  /\ submitting' = [submitting EXCEPT ![t] = "backend"]
  /\ AddToFlying(t, Deadline(t))
  /\ submits < MaxSubmits /\ submits' = submits + 1
  /\ UNCHANGED <<urb, worldVars, scan, timing, handlerVars, wanted, pending, cancelled>>

(* The clock or the timer fails: the transfer is off the list again.       *)
SubmitRefused(t) ==
  /\ t \notin pending /\ submitting[t] = "no"
  /\ ListLockFree
  /\ state_flags' = [state_flags EXCEPT ![t] = {}]
  /\ timeout_flags' = [timeout_flags EXCEPT ![t] = {}]
  /\ UNCHANGED <<listVars, submitting, urb, worldVars, scan, timing, handlerVars, history>>

(* The backend takes the transfer, unless the device is gone.              *)
BackendAccepts(t) ==
  /\ submitting[t] = "backend" /\ ~gone
  /\ urb' = [urb EXCEPT ![t] = "queued"]
  /\ submitting' = [submitting EXCEPT ![t] = "accepted"]
  /\ pending' = pending \cup {t}
  /\ UNCHANGED <<listVars, state_flags, timeout_flags, worldVars, scan, timing,
                 handlerVars, wanted, submits, cancelled>>

Submitted(t) ==
  /\ submitting[t] = "accepted"
  /\ state_flags' = [state_flags EXCEPT ![t] = @ \cup {"IN_FLIGHT"}]
  /\ submitting' = [submitting EXCEPT ![t] = "no"]
  /\ UNCHANGED <<listVars, timeout_flags, urb, worldVars, scan, timing, handlerVars, history>>

BackendFails(t) ==
  /\ submitting[t] = "backend"
  /\ submitting' = [submitting EXCEPT ![t] = "failed"]
  /\ UNCHANGED <<listVars, state_flags, timeout_flags, urb, worldVars, scan, timing,
                 handlerVars, history>>

SubmitFailed(t) ==
  /\ submitting[t] = "failed"
  /\ ListLockFree
  /\ RemoveFromFlying(t)
  /\ submitting' = [submitting EXCEPT ![t] = "no"]
  /\ UNCHANGED <<state_flags, timeout_flags, urb, worldVars, scan, timing,
                 handlerVars, history>>

(* libusb_cancel_transfer() under the transfer's lock: r is its result.    *)
(* Only a request that is still queued can be taken back.                  *)
CancelTransfer(t, r) ==
  /\ OwnLockFree(t)
  /\ IF "IN_FLIGHT" \notin state_flags[t] \/ "CANCELLING" \in state_flags[t]
     THEN r = "NOT_FOUND" /\ UNCHANGED <<state_flags, urb>>
     ELSE /\ r = IF urb[t] # "queued" THEN "NOT_FOUND"
                 ELSE IF gone THEN "NO_DEVICE" ELSE "SUCCESS"
          /\ urb' = IF r = "SUCCESS" THEN [urb EXCEPT ![t] = "discarded"] ELSE urb
          /\ state_flags' = [state_flags EXCEPT ![t] =
               @ \cup {"CANCELLING"} \cup IF r = "NO_DEVICE" THEN {"DISAPPEARED"} ELSE {}]

Results == {"SUCCESS", "NOT_FOUND", "NO_DEVICE"}

Cancel(t) ==
  /\ \E r \in Results :
       /\ CancelTransfer(t, r)
       /\ cancelled' = IF r = "SUCCESS" THEN cancelled \cup {t} ELSE cancelled
  /\ UNCHANGED <<listVars, timeout_flags, submitting, worldVars, scan, timing,
                 handlerVars, wanted, submits, pending>>

(* Its user changes libusb_transfer.timeout between two submissions.       *)
SetTimeout(t) ==
  /\ t \notin pending /\ submitting[t] = "no"
  /\ \E msec \in Timeouts[t] : wanted' = [wanted EXCEPT ![t] = msec]
  /\ UNCHANGED <<listVars, flagVars, worldVars, scan, timing, handlerVars, submits,
                 pending, cancelled>>

User(t) == Submit(t) \/ SubmitRefused(t) \/ Cancel(t)
Submission(t) == BackendAccepts(t) \/ Submitted(t) \/ BackendFails(t) \/ SubmitFailed(t)

-----------------------------------------------------------------------------
(* handle_timeouts(), by the event thread when timerfd has expired, or by  *)
(* any thread that waits for events and has waited long enough.            *)

Expired(t) == timeout[t] # 0 /\ timeout[t] <= scan

(* The first transfer that is not handled is expired.                      *)
NextExpired(t) ==
  /\ "HANDLED" \notin timeout_flags[t] /\ Expired(t)
  /\ \E i \in DOMAIN flying :
       /\ flying[i] = t
       /\ \A j \in 1..i - 1 : "HANDLED" \in timeout_flags[flying[j]]

(* (A call that finds no expired transfer changes nothing.)                *)
ScanStarts ==
  /\ ListLockFree
  /\ NextDeadline(flying) \in 1..now
  /\ scan' = now
  /\ UNCHANGED <<listVars, flagVars, worldVars, timing, handlerVars, history>>

(* handle_timeout(): the transfer is cancelled, and marked if that worked. *)
ScanCancels(t) ==
  /\ scan # 0 /\ timing = None
  /\ NextExpired(t)
  /\ timeout_flags' = [timeout_flags EXCEPT ![t] = @ \cup {"HANDLED"}]
  /\ \E r \in Results :
       CancelTransfer(t, r) /\ timing' = IF r = "SUCCESS" THEN t ELSE None
  /\ UNCHANGED <<listVars, submitting, worldVars, scan, handlerVars, history>>

ScanMarks ==
  /\ timing # None
  /\ timeout_flags' = [timeout_flags EXCEPT ![timing] = @ \cup {"TIMED_OUT"}]
  /\ timing' = None
  /\ UNCHANGED <<listVars, state_flags, submitting, urb, worldVars, scan, handlerVars, history>>

(* The event thread's scan ends with the timer armed for the next one.     *)
ScanEnds ==
  /\ scan # 0 /\ timing = None
  /\ \A t \in Transfers : ~NextExpired(t)
  /\ scan' = 0
  /\ timer' = IF handler = "timeouts" THEN NextDeadline(flying) ELSE timer
  /\ handler' = IF handler = "timeouts" THEN "poll" ELSE handler
  /\ UNCHANGED <<flying, timeout, flagVars, worldVars, timing, detached, handled, status,
                 history>>

Scan == (\E t \in Transfers : ScanCancels(t)) \/ ScanMarks \/ ScanEnds

-----------------------------------------------------------------------------
(* The event thread: handle_events().                                      *)

TimerFires ==
  /\ handler = "poll" /\ using_timerfd /\ timer # 0 /\ timer <= now
  /\ ListLockFree
  /\ scan' = now
  /\ handler' = "timeouts"
  /\ UNCHANGED <<listVars, flagVars, worldVars, timing, detached, handled, status, history>>

(* The backend hands over a request, which takes the transfer's lock.      *)
Reap(t) ==
  /\ handler = "poll" /\ detached = "no"
  /\ urb[t] \in {"done", "discarded"} /\ OwnLockFree(t)
  /\ urb' = [urb EXCEPT ![t] = "none"]
  /\ handled' = t
  /\ IF urb[t] = "discarded"
     THEN handler' = "cancellation" /\ UNCHANGED status
     ELSE handler' = "remove" /\ status' \in {"COMPLETED"} \cup IF gone THEN {"NO_DEVICE"} ELSE {}
  /\ UNCHANGED <<listVars, state_flags, timeout_flags, submitting, worldVars, scan, timing,
                 detached, history>>

(* Mutant of Cancellation: TIMED_OUT is read without the list's lock.      *)
CancellationUnlocked ==
  /\ handler = "cancellation"
  /\ status' = IF "TIMED_OUT" \in timeout_flags[handled] THEN "TIMED_OUT" ELSE "CANCELLED"
  /\ handler' = "remove"
  /\ UNCHANGED <<listVars, flagVars, worldVars, scan, timing, detached, handled, history>>

(* usbi_handle_transfer_cancellation(): by a timeout or by the user?       *)
Cancellation ==
  /\ handler = "cancellation"
  /\ ListLockFree
  /\ status' = IF "TIMED_OUT" \in timeout_flags[handled] THEN "TIMED_OUT" ELSE "CANCELLED"
  /\ handler' = "remove"
  /\ UNCHANGED <<listVars, flagVars, worldVars, scan, timing, detached, handled, history>>

(* usbi_handle_transfer_completion(): off the list, out of flight, and the *)
(* callback, which may submit the transfer again.                          *)
CompletionRemoves ==
  /\ handler = "remove"
  /\ ListLockFree
  /\ RemoveFromFlying(handled)
  /\ handler' = "clear"
  /\ UNCHANGED <<flagVars, worldVars, scan, timing, detached, handled, status, history>>

(* Mutant of CompletionClears: IN_FLIGHT stays.                            *)
CompletionClearsNothing ==
  /\ handler = "clear" /\ OwnLockFree(handled)
  /\ handler' = "callback"
  /\ UNCHANGED <<listVars, flagVars, worldVars, scan, timing, detached, handled, status, history>>

CompletionClears ==
  /\ handler = "clear" /\ OwnLockFree(handled)
  /\ state_flags' = [state_flags EXCEPT ![handled] = @ \ {"IN_FLIGHT"}]
  /\ handler' = "callback"
  /\ UNCHANGED <<listVars, timeout_flags, submitting, urb, worldVars, scan, timing,
                 detached, handled, status, history>>

Callback ==
  /\ handler = "callback"
  /\ pending' = pending \ {handled}
  /\ cancelled' = cancelled \ {handled}
  /\ handler' = IF detached = "busy" THEN "disconnect" ELSE "poll"
  /\ handled' = None /\ status' = "none"
  /\ UNCHANGED <<listVars, flagVars, worldVars, scan, timing, detached, wanted, submits>>

(* The backend's descriptor reports the disconnect and is not polled again.*)
Detach ==
  /\ handler = "poll" /\ gone /\ detached = "no"
  /\ detached' = "busy" /\ handler' = "disconnect"
  /\ UNCHANGED <<listVars, flagVars, worldVars, scan, timing, handled, status, history>>

(* usbi_handle_disconnect(): the first transfer of the list that is in     *)
(* flight, looked for with each transfer's lock in turn.                   *)
FirstInFlight(i) ==
  /\ i \in DOMAIN flying /\ "IN_FLIGHT" \in state_flags[flying[i]]
  /\ \A j \in 1..i - 1 : "IN_FLIGHT" \notin state_flags[flying[j]]

DisconnectOne ==
  /\ handler = "disconnect"
  /\ ListLockFree
  /\ \E i \in DOMAIN flying :
       /\ FirstInFlight(i)
       /\ \A j \in 1..i : OwnLockFree(flying[j])
       /\ handled' = flying[i]
       /\ urb' = [urb EXCEPT ![flying[i]] = "none"]
  /\ handler' = "remove" /\ status' = "NO_DEVICE"
  /\ UNCHANGED <<listVars, state_flags, timeout_flags, submitting, worldVars, scan, timing,
                 detached, history>>

(* Mutant of Disconnected: a transfer that is being submitted is skipped.  *)
DisconnectedEarly ==
  /\ handler = "disconnect" /\ ListLockFree
  /\ \A i \in DOMAIN flying : "IN_FLIGHT" \notin state_flags[flying[i]]
  /\ detached' = "yes" /\ handler' = "poll"
  /\ UNCHANGED <<listVars, flagVars, worldVars, scan, timing, handled, status, history>>

Disconnected ==
  /\ handler = "disconnect"
  /\ ListLockFree
  /\ \A i \in DOMAIN flying :
       OwnLockFree(flying[i]) /\ "IN_FLIGHT" \notin state_flags[flying[i]]
  /\ detached' = "yes" /\ handler' = "poll"
  /\ UNCHANGED <<listVars, flagVars, worldVars, scan, timing, handled, status, history>>

Completion == Cancellation \/ CompletionRemoves \/ CompletionClears \/ Callback
Disconnect == DisconnectOne \/ Disconnected

-----------------------------------------------------------------------------
(* The clock, the device and the bus.                                      *)

Tick ==
  /\ now < MaxNow
  /\ now' = now + 1
  /\ UNCHANGED <<listVars, flagVars, using_timerfd, gone, scan, timing, handlerVars, history>>

DeviceAnswers(t) ==
  /\ urb[t] = "queued"
  /\ urb' = [urb EXCEPT ![t] = "done"]
  /\ UNCHANGED <<listVars, state_flags, timeout_flags, submitting, worldVars, scan, timing,
                 handlerVars, history>>

Unplug ==
  /\ ~gone
  /\ gone' = TRUE
  /\ UNCHANGED <<listVars, flagVars, now, using_timerfd, scan, timing, handlerVars, history>>

TransferNext ==
  \/ \E t \in Transfers : User(t) \/ Submission(t) \/ Reap(t) \/ DeviceAnswers(t)
  \/ ScanStarts \/ Scan \/ TimerFires \/ Completion \/ Detach \/ Disconnect
  \/ Tick \/ Unplug

(* The users keep to one timeout for each transfer ...                     *)
TransferSpec == TransferInit /\ [][TransferNext]_vars

(* ... or choose another one from time to time.                            *)
ChangingSpec ==
  TransferInit /\ [][TransferNext \/ \E t \in Transfers : SetTimeout(t)]_vars

(* Threads that have begun something go on, and get a lock in the end      *)
(* (there are finitely many submissions, so that it is wanted finitely     *)
(* often); the event loop looks at every descriptor.  Where there is no    *)
(* timerfd, waits end at the next deadline.  The device owes no answer.    *)
TransferFairness ==
  /\ \A t \in Transfers : WF_vars(Submission(t)) /\ WF_vars(Reap(t))
  /\ WF_vars(Scan) /\ WF_vars(Completion) /\ WF_vars(Disconnect)
  /\ WF_vars(TimerFires) /\ WF_vars(Detach)
  /\ WF_vars(~using_timerfd /\ ScanStarts)

TransferFairSpec == TransferSpec /\ TransferFairness

-----------------------------------------------------------------------------
(* With a timerfd, a deadline nobody has handled is not passed over: the   *)
(* timer is armed for it or earlier, or the head of the list is being      *)
(* cancelled, and its removal arms the timer.                              *)
TimerCovers ==
  using_timerfd /\ ListLockFree =>
    \A i \in DOMAIN flying :
      timeout[flying[i]] # 0 /\ "HANDLED" \notin timeout_flags[flying[i]] =>
        timer \in 1..timeout[flying[i]] \/ "HANDLED" \in timeout_flags[Head(flying)]

(* From its callback on a transfer is the user's: nothing of it is on a    *)
(* list, in flight or with the backend, so that it can be submitted again  *)
(* (it is not BUSY) or freed.                                              *)
FreeWhenAnswered ==
  \A t \in Transfers : t \notin pending /\ submitting[t] = "no" =>
    /\ "IN_FLIGHT" \notin state_flags[t] /\ t \notin ToSet(flying)
    /\ urb[t] = "none" /\ timing # t

(* The library keeps its promises: one answer per submission, CANCELLED if *)
(* and only if the user's cancellation was accepted, TIMED_OUT only after  *)
(* the deadline, NO_DEVICE only without a device.                          *)
Late == {t \in pending : wanted[t] # 0 /\ timeout[t] <= now}

Answering == IF handler = "callback" THEN {handled} ELSE {}

Request == INSTANCE UsbRequest WITH
  pending   <- pending \ Answering,
  answer    <- [t \in Transfers |-> IF t \in Answering THEN status ELSE "none"],
  cancelled <- cancelled \ Answering,
  late      <- Late \ Answering

RequestSpec == Request!Spec

(* libusb.h: "A value of 0 indicates no timeout": it does not time out.    *)
NoTimeoutIsNoTimeout ==
  [][\A t \in Transfers : wanted[t] = 0 /\ handled = t => status' # "TIMED_OUT"]_vars

(* A transfer that was cancelled, is late or has lost its device ends with *)
(* a callback.                                                             *)
AnswerComes ==
  \A t \in Transfers :
    t \in pending /\ (t \in cancelled \/ t \in Late \/ gone) ~> t \notin pending
=============================================================================
