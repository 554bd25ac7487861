------------------------------ MODULE UsbEvents -----------------------------
(***************************************************************************)
(* Event handling in libusb by whoever waits (libusb/libusb/io.c, core.c,  *)
(* sync.c): each thread opens its device, makes synchronous transfers on   *)
(* it and closes it again.  A thread that waits for its transfer handles   *)
(* the events of all of them if it gets events_lock, and otherwise sleeps  *)
(* until the one that has it lets go.  The event pipe interrupts poll().   *)
(* What is done under event_data_lock is one step.  Waits do not time out  *)
(* here (in the code, after 60 seconds), so that no missed wake-up is      *)
(* hidden.  A device that was pulled out does not come back.               *)
(***************************************************************************)
EXTENDS Naturals, FiniteSets

CONSTANTS
  Threads,        (* each with one device                                  *)
  Users, Closers, (* those that make transfers, and that close the device  *)
  Removable,      (* those whose device may be pulled out, once            *)
  None,           (* no thread                                             *)
  MaxOthers       (* bound: closes, messages about other devices,          *)
                  (* interruptions of the handler by a user or a signal,   *)
                  (* all together                                          *)

Pipe == "event pipe"

ASSUME UsbEventsAssumption ==
  /\ IsFiniteSet(Threads) /\ {None, Pipe} \cap Threads = {}
  /\ {Users, Closers, Removable} \subseteq SUBSET Threads
  /\ MaxOthers \in Nat

VARIABLES
  pc,                    (* per thread: what it does next                  *)
  transfer,              (* per device: "none", "queued" or "done"         *)
  completed,             (* per thread: sync_transfer_cb() has run         *)
  events_lock, event_handler_active,
  waiters_lock, asleep,  (* event_waiters_lock and _cond                   *)
  open,                  (* open_devs: the devices with an open descriptor *)
  pulled, attached,      (* pulled out; attached as far as libusb knows    *)
  fds, polled,           (* ipollfds, and pollfds as of the last rebuild   *)
  event_flags, device_close, hotplug_msgs,
  event_pipe,            (* the bytes in it                                *)
  revents, errors, redo, (* what poll() has returned to the handler, which *)
                         (* of it with POLLERR, and whether the handler is *)
                         (* going to poll again                            *)
  others                 (* counter for the bound                          *)

threadVars == <<pc, transfer, completed>>
lockVars == <<events_lock, event_handler_active, waiters_lock, asleep>>
pendingVars == <<event_flags, device_close, hotplug_msgs, event_pipe>>
devVars == <<open, pulled, attached, fds>>
pollVars == <<polled, revents, errors, redo>>
vars == <<threadVars, lockVars, devVars, pendingVars, pollVars, others>>

Places == {"idle", "open", "wait", "try", "trylock", "activate", "build",
           "poll", "pipe", "hotplug", "reap", "deactivate", "unlock", "broadcast",
           "lock_waiters", "recheck", "closing?", "active?", "sleep", "asleep",
           "lock_events", "closer", "do_close", "closed"}

EventsTypeOK ==
  /\ pc \in [Threads -> Places]
  /\ transfer \in [Threads -> {"none", "queued", "done"}]
  /\ completed \in [Threads -> BOOLEAN]
  /\ {events_lock, waiters_lock} \subseteq Threads \cup {None}
  /\ event_handler_active \in BOOLEAN /\ redo \in BOOLEAN
  /\ asleep \subseteq Threads
  /\ {open, pulled, attached, fds, polled, errors} \subseteq SUBSET Threads
  /\ event_flags \subseteq {"POLLFDS_MODIFIED", "USER_INTERRUPT"}
  /\ device_close \in 0..Cardinality(Threads)
  /\ hotplug_msgs \in Nat /\ event_pipe \in Nat
  /\ revents \subseteq Threads \cup {Pipe}
  /\ others \in 0..MaxOthers

EventsInit ==   \* usbi_io_init() has added the event pipe
  /\ pc = [t \in Threads |-> "idle"]
  /\ transfer = [t \in Threads |-> "none"]
  /\ completed = [t \in Threads |-> FALSE]
  /\ events_lock = None /\ waiters_lock = None
  /\ event_handler_active = FALSE
  /\ open = {} /\ pulled = {} /\ attached = Threads
  /\ asleep = {} /\ fds = {} /\ polled = {}
  /\ event_flags = {"POLLFDS_MODIFIED"} /\ event_pipe = 1
  /\ device_close = 0 /\ hotplug_msgs = 0
  /\ revents = {} /\ errors = {} /\ redo = FALSE
  /\ others = 0

-----------------------------------------------------------------------------
(* The event pipe: it holds a byte as long as something is pending.        *)

PendingOf(flags, closers, msgs) == flags # {} \/ closers > 0 \/ msgs > 0
Pending == PendingOf(event_flags, device_close, hotplug_msgs)

(* One more thing is pending: the first writes the byte.                   *)
Signal == event_pipe' = IF Pending THEN event_pipe ELSE event_pipe + 1

(* Mutant of ClearIfIdle: the byte is read whatever is still pending.      *)
ClearAlways == event_pipe' = event_pipe - 1

(* One less: the last reads it.                                            *)
ClearIfIdle ==
  event_pipe' = IF PendingOf(event_flags', device_close', hotplug_msgs')
                THEN event_pipe ELSE event_pipe - 1

(* Mutant of Notify: the handler is not woken for a new descriptor.        *)
NotifyLater ==
  /\ event_flags' = event_flags \cup {"POLLFDS_MODIFIED"}
  /\ UNCHANGED event_pipe

(* usbi_fd_notification().                                                 *)
Notify == event_flags' = event_flags \cup {"POLLFDS_MODIFIED"} /\ Signal

CountOther == others < MaxOthers /\ others' = others + 1

Goto(t, from, to) == pc[t] = from /\ pc' = [pc EXCEPT ![t] = to]

-----------------------------------------------------------------------------
(* usbi_remove_pollfd(): a descriptor that is not there is no news.        *)
usbi_remove_pollfd(u) ==
  /\ fds' = fds \ {u}
  /\ IF u \in fds THEN Notify ELSE UNCHANGED <<event_flags, event_pipe>>

(* libusb_open(), which fails when the device is gone.                     *)
Open(t) ==
  /\ Goto(t, "idle", IF t \in pulled THEN "idle" ELSE "open")
  /\ IF t \in pulled
     THEN UNCHANGED <<open, fds, event_flags, event_pipe>>
     ELSE open' = open \cup {t} /\ fds' = fds \cup {t} /\ Notify
  /\ UNCHANGED <<transfer, completed, lockVars, pulled, attached, device_close,
                 hotplug_msgs, pollVars, others>>

(* libusb_control_transfer(), do_sync_bulk_transfer(): the submission      *)
(* fails when the device is gone.                                          *)
SubmitSync(t) ==
  /\ t \in Users
  /\ Goto(t, "open", IF t \in pulled THEN "open" ELSE "wait")
  /\ transfer' = [transfer EXCEPT ![t] = IF t \in pulled THEN @ ELSE "queued"]
  /\ UNCHANGED <<completed, lockVars, devVars, pendingVars, pollVars, others>>

(* sync_transfer_wait_for_completion(): done (completed is a variable of   *)
(* the call that ends), or another turn.                                   *)
SyncLoop(t) ==
  /\ Goto(t, "wait", IF completed[t] THEN "open" ELSE "try")
  /\ completed' = [completed EXCEPT ![t] = FALSE]
  /\ UNCHANGED <<transfer, lockVars, devVars, pendingVars, pollVars, others>>

-----------------------------------------------------------------------------
(* libusb_handle_events_timeout_completed().                               *)

(* Mutant of TryUnlessClosing: a thread that closes is not let through.    *)
TryAnyway(t) ==
  /\ Goto(t, "try", "trylock")
  /\ UNCHANGED <<transfer, completed, lockVars, devVars, pendingVars, pollVars, others>>

TryUnlessClosing(t) ==
  /\ Goto(t, "try", IF device_close > 0 THEN "lock_waiters" ELSE "trylock")
  /\ UNCHANGED <<transfer, completed, lockVars, devVars, pendingVars, pollVars, others>>

TryLock(t) ==
  /\ Goto(t, "trylock", IF events_lock = None THEN "activate" ELSE "lock_waiters")
  /\ events_lock' = IF events_lock = None THEN t ELSE events_lock
  /\ UNCHANGED <<transfer, completed, event_handler_active, waiters_lock, asleep, devVars,
                 pendingVars, pollVars, others>>

(* Mutant of Held: the handler does not look whether it is done.           *)
HeldUnchecked(t) == "build"

(* What a thread goes on with that has the lock: its transfer may have     *)
(* been completed meanwhile, but cannot be by another thread any more.     *)
Held(t) == IF completed[t] THEN "deactivate" ELSE "build"

(* libusb_try_lock_events(), libusb_lock_events(): after the lock.         *)
Activate(t, from, to) ==
  /\ Goto(t, from, to)
  /\ event_handler_active' = TRUE
  /\ UNCHANGED <<transfer, completed, events_lock, waiters_lock, asleep, devVars, pendingVars,
                 pollVars, others>>

(* libusb_unlock_events(), in three steps.                                 *)
Deactivate(t) ==
  /\ Goto(t, "deactivate", "unlock")
  /\ event_handler_active' = FALSE
  /\ UNCHANGED <<transfer, completed, events_lock, waiters_lock, asleep, devVars, pendingVars,
                 pollVars, others>>

Unlock(t) ==
  /\ Goto(t, "unlock", "broadcast")
  /\ events_lock' = None
  /\ UNCHANGED <<transfer, completed, event_handler_active, waiters_lock, asleep, devVars,
                 pendingVars, pollVars, others>>

Broadcast(t) ==
  /\ Goto(t, "broadcast", IF t \in open THEN "wait" ELSE "idle")
  /\ waiters_lock = None
  /\ asleep' = {}
  /\ UNCHANGED <<transfer, completed, events_lock, event_handler_active, waiters_lock, devVars,
                 pendingVars, pollVars, others>>

LockWaiters(t) ==
  /\ Goto(t, "lock_waiters", "recheck")
  /\ waiters_lock = None /\ waiters_lock' = t
  /\ UNCHANGED <<transfer, completed, events_lock, event_handler_active, asleep, devVars,
                 pendingVars, pollVars, others>>

Recheck(t) ==
  /\ Goto(t, "recheck", IF completed[t] THEN "wait" ELSE "closing?")
  /\ waiters_lock' = IF completed[t] THEN None ELSE t
  /\ UNCHANGED <<transfer, completed, events_lock, event_handler_active, asleep, devVars,
                 pendingVars, pollVars, others>>

(* libusb_event_handler_active().                                          *)
IsClosing(t) ==
  /\ Goto(t, "closing?", IF device_close > 0 THEN "sleep" ELSE "active?")
  /\ UNCHANGED <<transfer, completed, lockVars, devVars, pendingVars, pollVars, others>>

(* Mutant of IsActive: the race with a handler that went away is missed.   *)
IsActiveAnyway(t) ==
  /\ Goto(t, "active?", "sleep")
  /\ UNCHANGED <<transfer, completed, lockVars, devVars, pendingVars, pollVars, others>>

IsActive(t) ==
  /\ Goto(t, "active?", IF event_handler_active THEN "sleep" ELSE "try")
  /\ waiters_lock' = IF event_handler_active THEN t ELSE None
  /\ UNCHANGED <<transfer, completed, events_lock, event_handler_active, asleep, devVars,
                 pendingVars, pollVars, others>>

(* libusb_wait_for_event(): the lock is released while asleep, taken on    *)
(* waking up and released again.                                           *)
Sleep(t) ==
  /\ Goto(t, "sleep", "asleep")
  /\ asleep' = asleep \cup {t} /\ waiters_lock' = None
  /\ UNCHANGED <<transfer, completed, events_lock, event_handler_active, devVars, pendingVars,
                 pollVars, others>>

WakeUp(t) ==
  /\ Goto(t, "asleep", "wait")
  /\ t \notin asleep /\ waiters_lock = None
  /\ UNCHANGED <<transfer, completed, lockVars, devVars, pendingVars, pollVars, others>>

-----------------------------------------------------------------------------
(* handle_events(), by the thread that holds events_lock.                  *)

Build(t) ==
  /\ Goto(t, "build", "poll")
  /\ IF "POLLFDS_MODIFIED" \in event_flags
     THEN /\ polled' = fds
          /\ event_flags' = event_flags \ {"POLLFDS_MODIFIED"}
          /\ UNCHANGED <<device_close, hotplug_msgs>>
          /\ ClearIfIdle
     ELSE UNCHANGED <<polled, pendingVars>>
  /\ redo' = FALSE
  /\ UNCHANGED <<transfer, completed, lockVars, devVars, revents, errors, others>>

(* A device that was pulled out is ready for ever, and so is a descriptor  *)
(* that was closed.                                                        *)
Ready == {u \in polled : transfer[u] = "done" \/ u \in pulled \/ u \notin open}
           \cup IF event_pipe > 0 THEN {Pipe} ELSE {}

(* poll(): it blocks, except when the handler polls again.                 *)
Poll(t) ==
  /\ Ready # {} \/ redo
  /\ revents' = Ready
  /\ errors' = polled \cap pulled
  /\ Goto(t, "poll", CASE Pipe \in Ready -> "pipe"
                       [] Ready = {}     -> "deactivate"
                       [] OTHER          -> "reap")
  /\ redo' = FALSE
  /\ UNCHANGED <<transfer, completed, lockVars, devVars, pendingVars, polled, others>>

(* A signal interrupts it; the transfer's loop goes on.                    *)
PollInterrupted(t) ==
  /\ Goto(t, "poll", "deactivate")
  /\ CountOther
  /\ revents' = {} /\ errors' = {} /\ redo' = FALSE
  /\ UNCHANGED <<transfer, completed, lockVars, devVars, pendingVars, polled>>

(* One hotplug message is taken.                                           *)
HandlePipe(t) ==
  /\ Goto(t, "pipe", CASE hotplug_msgs > 0  -> "hotplug"
                       [] revents # {Pipe}  -> "reap"
                       [] OTHER             -> "deactivate")
  /\ event_flags' = event_flags \ {"USER_INTERRUPT"}
  /\ hotplug_msgs' = IF hotplug_msgs > 0 THEN hotplug_msgs - 1 ELSE 0
  /\ redo' = (hotplug_msgs > 0)
  /\ revents' = revents \ {Pipe}
  /\ UNCHANGED device_close
  /\ ClearIfIdle
  /\ UNCHANGED <<transfer, completed, lockVars, devVars, polled, errors, others>>

(* Its callbacks are made; another poll will follow.  A callback may close *)
(* a device that has left and that nobody uses, as the example in the      *)
(* documentation does; libusb_close() does not take the lock then.         *)
HotplugCallback(t) ==
  /\ pc[t] = "hotplug"
  /\ LET next == [pc EXCEPT ![t] = IF revents # {} THEN "reap" ELSE "poll"]
     IN  \/ pc' = next /\ UNCHANGED <<open, fds, event_flags, event_pipe>>
         \/ \E u \in open \cap pulled :
              /\ pc[u] = "open" /\ pc' = [next EXCEPT ![u] = "idle"]
              /\ open' = open \ {u} /\ usbi_remove_pollfd(u)
  /\ UNCHANGED <<transfer, completed, lockVars, pulled, attached, device_close,
                 hotplug_msgs, pollVars, others>>

(* The device has left: its descriptor is polled no more, it is removed if *)
(* the monitor has not done so yet, and its transfer is completed.         *)
Disconnected(u) ==
  /\ fds' = fds \ {u} /\ attached' = attached \ {u}
  /\ event_flags' = IF u \in fds THEN event_flags \cup {"POLLFDS_MODIFIED"}
                                 ELSE event_flags
  /\ hotplug_msgs' = IF u \in attached THEN hotplug_msgs + 1 ELSE hotplug_msgs
  /\ IF u \in fds \cup attached THEN Signal ELSE UNCHANGED event_pipe
  /\ transfer' = [transfer EXCEPT ![u] = "none"]
  /\ completed' = [completed EXCEPT ![u] = @ \/ transfer[u] # "none"]

(* A device that has been pulled out since the poll may refuse to be       *)
(* reaped, and a transfer may have been submitted and be done since then.  *)
Reaped(u) ==
  /\ \/ /\ transfer[u] = "done"
        /\ transfer' = [transfer EXCEPT ![u] = "none"]
        /\ completed' = [completed EXCEPT ![u] = TRUE]
     \/ /\ transfer[u] # "done" \/ u \in pulled
        /\ UNCHANGED <<transfer, completed>>
  /\ UNCHANGED <<fds, attached, event_flags, hotplug_msgs, event_pipe>>

(* op_handle_events(), for one descriptor that is ready: the handle may    *)
(* have been closed by a callback.                                         *)
Reap(t) ==
  /\ pc[t] = "reap"
  /\ \E u \in revents :
       /\ \/ u \in open \cap errors /\ Disconnected(u)
          \/ u \in open \ errors /\ Reaped(u)
          \/ u \notin open /\ UNCHANGED <<transfer, completed, fds, attached,
                                         event_flags, hotplug_msgs, event_pipe>>
       /\ revents' = revents \ {u} /\ errors' = errors \ {u}
  /\ pc' = [pc EXCEPT ![t] = IF revents' # {} THEN "reap"
                             ELSE IF redo THEN "poll" ELSE "deactivate"]
  /\ UNCHANGED <<lockVars, open, pulled, device_close, polled, redo, others>>

-----------------------------------------------------------------------------
(* libusb_close(), when it is not called by the handler itself.            *)

Close(t) ==
  /\ t \in Closers /\ CountOther
  /\ Goto(t, "open", "lock_events")
  /\ device_close' = device_close + 1 /\ Signal
  /\ UNCHANGED <<transfer, completed, lockVars, devVars, event_flags, hotplug_msgs, pollVars>>

(* Mutant of LockEvents: the device is closed without events_lock.         *)
LockEventsNot(t) ==
  /\ Goto(t, "lock_events", "closer")
  /\ UNCHANGED <<transfer, completed, lockVars, devVars, pendingVars, pollVars, others>>

LockEvents(t) ==
  /\ Goto(t, "lock_events", "closer")
  /\ events_lock = None /\ events_lock' = t
  /\ UNCHANGED <<transfer, completed, event_handler_active, waiters_lock, asleep, devVars,
                 pendingVars, pollVars, others>>

DoClose(t) ==
  /\ Goto(t, "do_close", "closed")
  /\ open' = open \ {t} /\ usbi_remove_pollfd(t)
  /\ UNCHANGED <<transfer, completed, lockVars, pulled, attached, device_close,
                 hotplug_msgs, pollVars, others>>

Closed(t) ==
  /\ Goto(t, "closed", "deactivate")
  /\ device_close' = device_close - 1
  /\ UNCHANGED <<event_flags, hotplug_msgs>>
  /\ ClearIfIdle
  /\ UNCHANGED <<transfer, completed, lockVars, devVars, pollVars, others>>

-----------------------------------------------------------------------------
(* Others: the device or its timeout, the user, the hotplug monitor.       *)

TransferEnds(t) ==
  /\ transfer[t] = "queued"
  /\ transfer' = [transfer EXCEPT ![t] = "done"]
  /\ UNCHANGED <<pc, completed, lockVars, devVars, pendingVars, pollVars, others>>

InterruptEventHandler ==
  /\ CountOther
  /\ event_flags' = IF Pending THEN event_flags ELSE event_flags \cup {"USER_INTERRUPT"}
  /\ Signal
  /\ UNCHANGED <<threadVars, lockVars, devVars, device_close, hotplug_msgs, pollVars>>

Unplug(t) ==
  /\ t \in Removable \ pulled
  /\ pulled' = pulled \cup {t}
  /\ UNCHANGED <<threadVars, lockVars, open, attached, fds, pendingVars, pollVars, others>>

(* The hotplug monitor has a message about one of the devices that have    *)
(* left, or about another one.                                             *)
HotplugNotification ==
  /\ \/ CountOther /\ UNCHANGED attached
     \/ \E t \in pulled \cap attached : attached' = attached \ {t} /\ UNCHANGED others
  /\ hotplug_msgs' = hotplug_msgs + 1
  /\ Signal
  /\ UNCHANGED <<threadVars, lockVars, open, pulled, fds, event_flags, device_close,
                 pollVars>>

(* What a thread does inside of the library, once it has called it.        *)
Working(t) ==
  \/ SyncLoop(t)
  \/ TryUnlessClosing(t) \/ TryLock(t) \/ Activate(t, "activate", Held(t))
  \/ Build(t) \/ Poll(t) \/ HandlePipe(t) \/ HotplugCallback(t) \/ Reap(t)
  \/ Deactivate(t) \/ Unlock(t) \/ Broadcast(t)
  \/ LockWaiters(t) \/ Recheck(t) \/ IsClosing(t) \/ IsActive(t) \/ Sleep(t) \/ WakeUp(t)
  \/ LockEvents(t) \/ Activate(t, "closer", "do_close") \/ DoClose(t) \/ Closed(t)

EventsNext ==
  \/ \E t \in Threads : Open(t) \/ SubmitSync(t) \/ Close(t) \/ Working(t) \/ PollInterrupted(t)
                          \/ TransferEnds(t) \/ Unplug(t)
  \/ InterruptEventHandler \/ HotplugNotification

(* Threads inside of the library go on; a thread that waits for a lock     *)
(* gets it if it is free from some time on; every transfer ends            *)
(* (UsbTransfer: at the latest by its timeout).                            *)
EventsFairness == \A t \in Threads : WF_vars(Working(t)) /\ WF_vars(TransferEnds(t))

EventsSpec == EventsInit /\ [][EventsNext]_vars /\ EventsFairness

-----------------------------------------------------------------------------
(* The pipe holds one byte as long as something is pending, and none       *)
(* otherwise: poll() neither misses a request nor spins on an old byte.    *)
PipeTellsPending == event_pipe = IF Pending THEN 1 ELSE 0

(* A poll that may block waits for the descriptors of open devices only.   *)
(* While a thread handles events no device is closed under it but one that *)
(* has left, by a callback: the handler polls that descriptor once more,   *)
(* without blocking.                                                       *)
PollsOpenDevices ==
  \A t \in Threads :
    /\ pc[t] = "poll" /\ ~redo => polled \subseteq open
    /\ pc[t] \in {"poll", "pipe", "hotplug", "reap"} => polled \ open \subseteq pulled

(* Whoever sleeps has somebody to wake him: a thread that holds the lock,  *)
(* is about to take it for closing, or has yet to broadcast.               *)
SleepersAreWoken ==
  \A t \in asleep : \E u \in Threads \ {t} :
    pc[u] \in {"activate", "build", "poll", "pipe", "hotplug", "reap", "deactivate",
               "unlock", "broadcast", "lock_events", "closer", "do_close", "closed"}

(* Every synchronous transfer returns ...                                  *)
SyncReturns == \A t \in Users : pc[t] = "wait" ~> pc[t] = "open"

(* ... and every close gets the lock and closes the device, whoever else   *)
(* handles events all the time.                                            *)
CloseHappens == \A t \in Closers : pc[t] = "lock_events" ~> t \notin open
=============================================================================
