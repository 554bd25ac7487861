----------------------------- MODULE UsbDevices -----------------------------
(***************************************************************************)
(* The devices of a libusb context: their reference counts, the list of    *)
(* those that are attached, and the hotplug messages about them (core.c,   *)
(* hotplug.c, os/linux_usbfs.c, os/linux_netlink.c).  The kernel tells of  *)
(* plugs and unplugs through a socket that the monitor thread reads, and   *)
(* libusb_get_device_list() too; libusb_open() and the event handler find  *)
(* out earlier that a device has gone.  All of them work under             *)
(* linux_hotplug_lock.  The event handler passes messages to callbacks.    *)
(*                                                                         *)
(* What is done under usb_devs_lock, dev->lock, hotplug_cbs_lock or        *)
(* event_data_lock is one step.  Callbacks ask for both events and for any *)
(* device.  A device is known by its session (bus and address), which the  *)
(* next device in that place has too.  Hubs (parent_dev) are left out.     *)
(***************************************************************************)
EXTENDS Integers, FiniteSets, Sequences

CONSTANTS
  Sessions, Users, Callbacks,
  MaxDevs,      (* structures libusb_device that can be allocated           *)
  MaxPlugs,     (* bound: plugs after the start                             *)
  None          (* no callback, no holder of the lock                       *)

ASSUME UsbDevicesAssumption ==
  /\ IsFiniteSet(Sessions) /\ Sessions # {} /\ IsFiniteSet(Users)
  /\ MaxPlugs \in Nat
  /\ MaxDevs \in Nat /\ MaxDevs >= Cardinality(Sessions) + MaxPlugs
  /\ None \notin Users \cup Callbacks \cup {"monitor", "handler", "scan"}
  /\ Users \cap {"monitor", "handler", "scan"} = {}

VARIABLES
  bus, netlink, plugs,           (* what is plugged in, the kernel's        *)
                                 (* messages, and the counter for the bound *)
  phase,                         (* of the context                          *)
  allocated,                     (* how many structures were allocated      *)
  session, attached, refcnt,     (* of each device                          *)
  usb_devs,
  hotplug_lock, work,            (* who has linux_hotplug_lock, and is      *)
                                 (* doing what                              *)
  hotplug_msgs, message, todo,   (* what is handled, and the callbacks that *)
                                 (* have not been called for it             *)
  cbs, told,                     (* callbacks, and the devices each of them *)
                                 (* has heard of as arrived and not left    *)
  lists, handles, fd, op,        (* of each user: the devices it has got in *)
                                 (* a list, its handle, and what it does    *)
  leaked                         (* devices nobody will give up any more    *)

busVars == <<bus, netlink, plugs>>
devVars == <<allocated, session, attached, refcnt, usb_devs, leaked>>
lockVars == <<hotplug_lock, work>>
eventVars == <<message, todo>>
cbVars == <<cbs, told>>
userVars == <<lists, handles, fd, op>>
vars == <<busVars, phase, devVars, lockVars, hotplug_msgs, eventVars, cbVars,
          userVars>>

Devs == 1..MaxDevs
NoDev == 0

Op(step, d, c) == [step |-> step, dev |-> d, cb |-> c, todo |-> {}]
Idle == Op("idle", NoDev, None)
Work(step, d, ss) == [step |-> step, dev |-> d, todo |-> ss]
NoWork == Work("none", NoDev, {})
Arrived(d) == [event |-> "ARRIVED", dev |-> d]
Left(d) == [event |-> "LEFT", dev |-> d]
Deregistered == [event |-> "NONE", dev |-> NoDev]
PollError(d) == [event |-> "POLLERR", dev |-> d]
NoMessage == [event |-> "no message", dev |-> NoDev]
Messages == {Deregistered} \cup {Arrived(d) : d \in Devs}
                           \cup {Left(d) : d \in Devs}

Works == [step : {"none", "read", "scan", "find", "detach", "delist", "leave",
                  "unref", "arrive"},
          dev : Devs \cup {NoDev}, todo : SUBSET Sessions]
Ops == [step : {"idle", "poll", "list", "tell", "free", "ref", "open", "failed",
                "unref"},
        dev : Devs \cup {NoDev}, cb : Callbacks \cup {None}, todo : SUBSET Devs]

DevicesTypeOK ==
  /\ bus \subseteq Sessions
  /\ netlink \in Seq({"add", "remove"} \X Sessions) /\ plugs \in 0..MaxPlugs
  /\ phase \in {"none", "active", "scanned", "ready", "gone"}
  /\ allocated \in 0..MaxDevs
  /\ session \in [Devs -> Sessions] /\ attached \in [Devs -> BOOLEAN]
  /\ refcnt \in [Devs -> Int] /\ usb_devs \subseteq 1..allocated
  /\ leaked \subseteq Devs
  /\ hotplug_lock \in {None, "monitor", "handler", "scan"} \cup Users
  /\ work \in Works
  /\ hotplug_lock = None <=> work.step = "none"
  /\ hotplug_msgs \in Seq(Messages)
  /\ message \in Messages \cup {NoMessage} \cup {PollError(d) : d \in Devs}
  /\ todo \subseteq Callbacks
  /\ cbs \in [Callbacks -> {"new", "on", "needs_free", "freed"}]
  /\ told \in [Callbacks -> SUBSET Devs]
  /\ lists \in [Users -> SUBSET Devs]
  /\ handles \in [Users -> Devs \cup {NoDev}]
  /\ fd \in [Users -> {"none", "open", "error", "removed"}]
  /\ op \in [Users -> Ops]

DevicesInit ==
  /\ bus \in SUBSET Sessions /\ netlink = <<>> /\ plugs = 0
  /\ phase = "none" /\ allocated = 0
  /\ session = [d \in Devs |-> CHOOSE s \in Sessions : TRUE]
  /\ attached = [d \in Devs |-> FALSE] /\ refcnt = [d \in Devs |-> 0]
  /\ usb_devs = {} /\ leaked = {}
  /\ hotplug_lock = None /\ work = NoWork
  /\ hotplug_msgs = <<>> /\ message = NoMessage /\ todo = {}
  /\ cbs = [c \in Callbacks |-> "new"] /\ told = [c \in Callbacks |-> {}]
  /\ lists = [u \in Users |-> {}] /\ handles = [u \in Users |-> NoDev]
  /\ fd = [u \in Users |-> "none"] /\ op = [u \in Users |-> Idle]

-----------------------------------------------------------------------------
(* The bus.  The socket is open as long as the monitor runs.               *)

Monitored == phase \in {"active", "scanned", "ready"}

Tell(kind, s) ==
  netlink' = IF Monitored THEN Append(netlink, <<kind, s>>) ELSE netlink

Plug(s) ==
  /\ s \notin bus /\ plugs < MaxPlugs
  /\ bus' = bus \cup {s} /\ plugs' = plugs + 1
  /\ Tell("add", s)
  /\ UNCHANGED <<phase, devVars, lockVars, hotplug_msgs, eventVars, cbVars, userVars>>

(* The descriptors of its handles report an error from now on.             *)
Unplug(s) ==
  /\ s \in bus
  /\ bus' = bus \ {s}
  /\ Tell("remove", s)
  /\ fd' = [u \in Users |-> IF fd[u] = "open" /\ session[handles[u]] = s
                            THEN "error" ELSE fd[u]]
  /\ UNCHANGED <<plugs, phase, devVars, lockVars, hotplug_msgs, eventVars, cbVars,
                 lists, handles, op>>

-----------------------------------------------------------------------------
(* Reference counts and the list.                                          *)

libusb_ref_device(ds) ==
  refcnt' = [d \in Devs |-> IF d \in ds THEN refcnt[d] + 1 ELSE refcnt[d]]

libusb_unref_device(d) == refcnt' = [refcnt EXCEPT ![d] = @ - 1]

Live(d) == d <= allocated /\ refcnt[d] > 0

WithSession(s) == {d \in usb_devs : session[d] = s}

(* Mutant of Notify: nothing is added to a queue that is not empty.        *)
NotifyIfIdle(m) ==
  hotplug_msgs' = IF phase = "ready" /\ hotplug_msgs = <<>> THEN <<m>> ELSE hotplug_msgs

Notify(m) ==   \* usbi_hotplug_notification(), when the queue exists
  hotplug_msgs' = IF phase = "ready" THEN Append(hotplug_msgs, m) ELSE hotplug_msgs

(* linux_enumerate_device(): a device that is in the list already, or that *)
(* is gone when its descriptors are read, adds nothing.                    *)
Addable(s) == s \in bus /\ WithSession(s) = {}

(* ... and usbi_connect_device(), up to its notification.                  *)
linux_enumerate_device(s) ==
  LET d == allocated + 1
  IN  /\ allocated < MaxDevs
      /\ allocated' = d
      /\ session' = [session EXCEPT ![d] = s]
      /\ attached' = [attached EXCEPT ![d] = TRUE]
      /\ refcnt' = [refcnt EXCEPT ![d] = 1]
      /\ usb_devs' = usb_devs \cup {d}
      /\ UNCHANGED leaked

-----------------------------------------------------------------------------
(* libusb_init(): the context becomes known to the monitor, the bus is     *)
(* scanned, and usbi_io_init() prepares the queue of messages.             *)

InitBackend ==
  /\ phase = "none"
  /\ phase' = "active"
  /\ UNCHANGED <<busVars, devVars, lockVars, hotplug_msgs, eventVars, cbVars, userVars>>

ScanStart ==
  /\ phase = "active" /\ hotplug_lock = None
  /\ hotplug_lock' = "scan" /\ work' = Work("scan", NoDev, bus)
  /\ UNCHANGED <<busVars, phase, devVars, hotplug_msgs, eventVars, cbVars, userVars>>

ScanDevice ==
  /\ work.step = "scan"
  /\ \E s \in work.todo :
       /\ work' = [work EXCEPT !.todo = @ \ {s}]
       /\ IF Addable(s) THEN linux_enumerate_device(s) ELSE UNCHANGED devVars
  /\ UNCHANGED <<busVars, phase, hotplug_lock, hotplug_msgs, eventVars, cbVars,
                 userVars>>

ScanEnd ==
  /\ work.step = "scan" /\ work.todo = {}
  /\ phase' = "scanned" /\ hotplug_lock' = None /\ work' = NoWork
  /\ UNCHANGED <<busVars, devVars, hotplug_msgs, eventVars, cbVars, userVars>>

InitIo ==
  /\ phase = "scanned"
  /\ phase' = "ready"
  /\ UNCHANGED <<busVars, devVars, lockVars, hotplug_msgs, eventVars, cbVars, userVars>>

Starting == InitBackend \/ ScanStart \/ ScanDevice \/ ScanEnd \/ InitIo

-----------------------------------------------------------------------------
(* The work under linux_hotplug_lock.  The monitor reads one message, a    *)
(* user that asks for the list reads what there is; a user whose open      *)
(* failed and the handler remove one device, if it is still attached.      *)

(* Mutant of Begin: the work is done without the lock.                     *)
BeginUnlocked(who, w) == work' = w /\ UNCHANGED hotplug_lock

Begin(who, w) ==
  /\ hotplug_lock = None
  /\ hotplug_lock' = who /\ work' = w

Reading == Work("read", NoDev, {})
Finding(s) == Work("find", NoDev, {s})

Release ==
  /\ hotplug_lock' = None /\ work' = NoWork
  /\ op' = [u \in Users |-> IF u # hotplug_lock THEN op[u]
                            ELSE IF op[u].step = "poll"
                            THEN [op[u] EXCEPT !.step = "list"]
                            ELSE [op[u] EXCEPT !.step = "unref"]]
  /\ message' = IF hotplug_lock = "handler" THEN NoMessage ELSE message

Polling == \E u \in Users : hotplug_lock = u /\ op[u].step = "poll"

WorkDone ==
  IF Polling
  THEN work' = Reading /\ UNCHANGED <<hotplug_lock, op, message>>
  ELSE Release

MonitorLocks ==
  /\ Monitored /\ netlink # <<>>
  /\ Begin("monitor", Reading)
  /\ UNCHANGED <<busVars, phase, devVars, hotplug_msgs, eventVars, cbVars, userVars>>

PollLocks(u) ==
  /\ op[u].step = "poll"
  /\ Begin(u, Reading)
  /\ UNCHANGED <<busVars, phase, devVars, hotplug_msgs, eventVars, cbVars, userVars>>

(* Mutant of StillAttached: the flag is not read again under the lock.     *)
StillAttachedUnread(d) == TRUE

StillAttached(d) == attached[d]

(* op_open() after ENODEV, and op_handle_events() after POLLERR.           *)
OpenFailedLocks(u) ==
  /\ op[u].step = "failed" /\ hotplug_lock = None
  /\ LET d == op[u].dev
     IN  IF StillAttached(d)
         THEN Begin(u, Finding(session[d])) /\ UNCHANGED op
         ELSE op' = [op EXCEPT ![u].step = "unref"] /\ UNCHANGED lockVars
  /\ UNCHANGED <<busVars, phase, devVars, hotplug_msgs, eventVars, cbVars, lists,
                 handles, fd>>

HandlerLocks ==
  /\ message.event = "POLLERR" /\ hotplug_lock = None
  /\ IF StillAttached(message.dev)
     THEN Begin("handler", Finding(session[message.dev])) /\ UNCHANGED message
     ELSE message' = NoMessage /\ UNCHANGED lockVars
  /\ UNCHANGED <<busVars, phase, devVars, hotplug_msgs, todo, cbVars, userVars>>

(* linux_netlink_read_message().  A poll ends when there is no message, or *)
(* at one that is not about a USB device, whatever comes after it.         *)
ReadNone ==
  /\ work.step = "read" /\ (netlink = <<>> \/ Polling)
  /\ Release
  /\ UNCHANGED <<busVars, phase, devVars, hotplug_msgs, todo, cbVars, lists, handles, fd>>

ReadRemove ==
  /\ work.step = "read" /\ netlink # <<>> /\ Head(netlink)[1] = "remove"
  /\ netlink' = Tail(netlink)
  /\ work' = Finding(Head(netlink)[2])
  /\ UNCHANGED <<bus, plugs, phase, devVars, hotplug_lock, hotplug_msgs, eventVars,
                 cbVars, userVars>>

ReadAdd ==
  /\ work.step = "read" /\ netlink # <<>> /\ Head(netlink)[1] = "add"
  /\ netlink' = Tail(netlink)
  /\ IF Addable(Head(netlink)[2])
     THEN /\ linux_enumerate_device(Head(netlink)[2])
          /\ work' = Work("arrive", allocated', {})
          /\ UNCHANGED <<hotplug_lock, op, message>>
     ELSE WorkDone /\ UNCHANGED devVars
  /\ UNCHANGED <<bus, plugs, phase, hotplug_msgs, todo, cbVars, lists, handles, fd>>

Arrive ==
  /\ work.step = "arrive"
  /\ Notify(Arrived(work.dev))
  /\ WorkDone
  /\ UNCHANGED <<busVars, phase, devVars, todo, cbVars, lists, handles, fd>>

(* Mutant of FoundBySession: the device is found without a reference.      *)
FoundWithoutRef(d) == UNCHANGED refcnt

FoundBySession(d) == libusb_ref_device({d})

(* linux_device_disconnected() and usbi_disconnect_device()                *)
Find ==
  /\ work.step = "find"
  /\ \E s \in work.todo :
       IF WithSession(s) = {}
       THEN WorkDone /\ UNCHANGED refcnt
       ELSE \E d \in WithSession(s) :
              /\ FoundBySession(d)
              /\ work' = Work("detach", d, {})
              /\ UNCHANGED <<hotplug_lock, op, message>>
  /\ UNCHANGED <<busVars, phase, allocated, session, attached, usb_devs, leaked,
                 hotplug_msgs, todo, cbVars, lists, handles, fd>>

Then(step) == work' = [work EXCEPT !.step = step]

Detach ==
  /\ work.step = "detach"
  /\ attached' = [attached EXCEPT ![work.dev] = FALSE]
  /\ Then("delist")
  /\ UNCHANGED <<busVars, phase, allocated, session, refcnt, usb_devs, leaked,
                 hotplug_lock, hotplug_msgs, eventVars, cbVars, userVars>>

Delist ==
  /\ work.step = "delist"
  /\ usb_devs' = usb_devs \ {work.dev}
  /\ Then("leave")
  /\ UNCHANGED <<busVars, phase, allocated, session, attached, refcnt, leaked,
                 hotplug_lock, hotplug_msgs, eventVars, cbVars, userVars>>

(* The message carries on the reference that the list has held.  Without a *)
(* queue, nobody gives that reference up.                                  *)
Leave ==
  /\ work.step = "leave"
  /\ Notify(Left(work.dev))
  /\ leaked' = IF phase = "ready" THEN leaked ELSE leaked \cup {work.dev}
  /\ Then("unref")
  /\ UNCHANGED <<busVars, phase, allocated, session, attached, refcnt, usb_devs,
                 hotplug_lock, eventVars, cbVars, userVars>>

Unref ==
  /\ work.step = "unref"
  /\ libusb_unref_device(work.dev)
  /\ WorkDone
  /\ UNCHANGED <<busVars, phase, allocated, session, attached, usb_devs, leaked,
                 hotplug_msgs, todo, cbVars, lists, handles, fd>>

Working == ReadNone \/ ReadRemove \/ ReadAdd \/ Arrive \/ Find \/ Detach \/ Delist
             \/ Leave \/ Unref

-----------------------------------------------------------------------------
(* The event handler (whoever holds events_lock).                          *)

Registered == {c \in Callbacks : cbs[c] \in {"on", "needs_free"}}

TakeMessage ==
  /\ phase = "ready" /\ message = NoMessage /\ hotplug_msgs # <<>>
  /\ message' = Head(hotplug_msgs) /\ hotplug_msgs' = Tail(hotplug_msgs)
  /\ todo' = Registered
  /\ UNCHANGED <<busVars, phase, devVars, lockVars, cbVars, userVars>>

(* What a callback is told of a device.                                    *)
Heard(known, m) ==
  IF m.event = "ARRIVED" THEN known \cup {m.dev}
  ELSE IF m.event = "LEFT" THEN known \ {m.dev} ELSE known

(* usbi_hotplug_match(): a callback that was deregistered, or that answers *)
(* 1, is freed.                                                            *)
usbi_hotplug_match ==
  /\ phase = "ready" /\ message \in Messages
  /\ \E c \in todo :
       /\ todo' = todo \ {c}
       /\ IF cbs[c] = "needs_free"
          THEN cbs' = [cbs EXCEPT ![c] = "freed"] /\ UNCHANGED told
          ELSE /\ told' = [told EXCEPT ![c] = Heard(@, message)]
               /\ \/ UNCHANGED cbs
                  \/ message # Deregistered /\ cbs' = [cbs EXCEPT ![c] = "freed"]
  /\ UNCHANGED <<busVars, phase, devVars, lockVars, hotplug_msgs, message, userVars>>

(* Mutant of GiveUp: the reference that came with LEFT is kept.            *)
GiveUpNothing(m) == UNCHANGED refcnt

GiveUp(m) ==
  IF m.event = "LEFT" THEN libusb_unref_device(m.dev) ELSE UNCHANGED refcnt

EndMessage ==
  /\ phase = "ready" /\ message \in Messages /\ todo = {}
  /\ GiveUp(message)
  /\ message' = NoMessage
  /\ UNCHANGED <<busVars, phase, allocated, session, attached, usb_devs, leaked,
                 lockVars, hotplug_msgs, todo, cbVars, userVars>>

HandleError(u) ==
  /\ phase = "ready" /\ message = NoMessage /\ fd[u] = "error"
  /\ fd' = [fd EXCEPT ![u] = "removed"]
  /\ message' = PollError(handles[u])
  /\ UNCHANGED <<busVars, phase, devVars, lockVars, hotplug_msgs, todo, cbVars,
                 lists, handles, op>>

Handling ==
  TakeMessage \/ usbi_hotplug_match \/ EndMessage \/ \E u \in Users : HandleError(u)

-----------------------------------------------------------------------------
(* Users.                                                                  *)

At(u, step) == op[u].step = step

Ready(u) == phase = "ready" /\ At(u, "idle")

Go(u, step) == op' = [op EXCEPT ![u].step = step]

(* libusb_get_device_list(), with the poll of the socket at its start.     *)
GetDeviceList(u) ==
  /\ Ready(u) /\ lists[u] = {}
  /\ Go(u, "poll")
  /\ UNCHANGED <<busVars, phase, devVars, lockVars, hotplug_msgs, eventVars, cbVars,
                 lists, handles, fd>>

(* The references of discovered_devs are taken and given up again here.    *)
TakeList(u) ==
  /\ At(u, "list")
  /\ lists' = [lists EXCEPT ![u] = usb_devs]
  /\ libusb_ref_device(usb_devs)
  /\ op' = [op EXCEPT ![u] = IF @.cb = None THEN Idle
                             ELSE [@ EXCEPT !.step = "tell", !.todo = usb_devs]]
  /\ UNCHANGED <<busVars, phase, allocated, session, attached, usb_devs, leaked,
                 lockVars, hotplug_msgs, eventVars, cbVars, handles, fd>>

(* One step of libusb_free_device_list(), or libusb_unref_device().        *)
FreeListed(u) ==
  /\ \E d \in lists[u] : /\ lists' = [lists EXCEPT ![u] = @ \ {d}]
                         /\ libusb_unref_device(d)
  /\ UNCHANGED <<busVars, phase, allocated, session, attached, usb_devs, leaked,
                 lockVars, hotplug_msgs, eventVars, cbVars, handles, fd, op>>

(* libusb_open() reads attached without a lock, takes its reference, and   *)
(* opens the node of whatever device is in that place now.                 *)
Open(u) ==
  /\ Ready(u) /\ handles[u] = NoDev
  /\ \E d \in lists[u] :
       attached[d] /\ op' = [op EXCEPT ![u] = Op("ref", d, None)]
  /\ UNCHANGED <<busVars, phase, devVars, lockVars, hotplug_msgs, eventVars, cbVars,
                 lists, handles, fd>>

OpenRef(u) ==
  /\ At(u, "ref")
  /\ libusb_ref_device({op[u].dev}) /\ Go(u, "open")
  /\ UNCHANGED <<busVars, phase, allocated, session, attached, usb_devs, leaked,
                 lockVars, hotplug_msgs, eventVars, cbVars, lists, handles, fd>>

OpenBackend(u) ==
  /\ At(u, "open")
  /\ IF session[op[u].dev] \in bus
     THEN /\ handles' = [handles EXCEPT ![u] = op[u].dev]
          /\ fd' = [fd EXCEPT ![u] = "open"]
          /\ op' = [op EXCEPT ![u] = Idle]
     ELSE Go(u, "failed") /\ UNCHANGED <<handles, fd>>
  /\ UNCHANGED <<busVars, phase, devVars, lockVars, hotplug_msgs, eventVars, cbVars,
                 lists>>

OpenUnref(u) ==
  /\ At(u, "unref")
  /\ libusb_unref_device(op[u].dev)
  /\ op' = [op EXCEPT ![u] = Idle]
  /\ UNCHANGED <<busVars, phase, allocated, session, attached, usb_devs, leaked,
                 lockVars, hotplug_msgs, eventVars, cbVars, lists, handles, fd>>

(* libusb_close() closes under events_lock.                                *)
Close(u) ==
  /\ Ready(u) /\ handles[u] # NoDev /\ message = NoMessage
  /\ libusb_unref_device(handles[u])
  /\ handles' = [handles EXCEPT ![u] = NoDev] /\ fd' = [fd EXCEPT ![u] = "none"]
  /\ UNCHANGED <<busVars, phase, allocated, session, attached, usb_devs, leaked,
                 lockVars, hotplug_msgs, eventVars, cbVars, lists, op>>

(* libusb_hotplug_register_callback() with LIBUSB_HOTPLUG_ENUMERATE: the   *)
(* callback is told of each device of a list that is freed afterwards.     *)
Register(u, c) ==
  /\ Ready(u) /\ lists[u] = {} /\ cbs[c] = "new"
  /\ cbs' = [cbs EXCEPT ![c] = "on"]
  /\ op' = [op EXCEPT ![u] = Op("poll", NoDev, c)]
  /\ UNCHANGED <<busVars, phase, devVars, lockVars, hotplug_msgs, eventVars, told,
                 lists, handles, fd>>

TellRegistered(u) ==
  /\ At(u, "tell")
  /\ \E d \in op[u].todo :
       /\ op' = [op EXCEPT ![u].todo = @ \ {d}]
       /\ told' = [told EXCEPT ![op[u].cb] = Heard(@, Arrived(d))]
  /\ UNCHANGED <<busVars, phase, devVars, lockVars, hotplug_msgs, eventVars, cbs,
                 lists, handles, fd>>

ToldRegistered(u) ==
  /\ At(u, "tell") /\ op[u].todo = {}
  /\ Go(u, "free")
  /\ UNCHANGED <<busVars, phase, devVars, lockVars, hotplug_msgs, eventVars, cbVars,
                 lists, handles, fd>>

RegisterEnd(u) ==
  /\ At(u, "free") /\ lists[u] = {}
  /\ op' = [op EXCEPT ![u] = Idle]
  /\ UNCHANGED <<busVars, phase, devVars, lockVars, hotplug_msgs, eventVars, cbVars,
                 lists, handles, fd>>

Deregister(u, c) ==
  /\ Ready(u) /\ cbs[c] = "on"
  /\ cbs' = [cbs EXCEPT ![c] = "needs_free"]
  /\ Notify(Deregistered)
  /\ UNCHANGED <<busVars, phase, devVars, lockVars, eventVars, told, userVars>>

FreeWhen(u, guard) == guard /\ FreeListed(u)

(* What a user that has begun goes on to do.                               *)
Continue(u) ==
  \/ PollLocks(u) \/ OpenFailedLocks(u)
  \/ TakeList(u) \/ OpenRef(u) \/ OpenBackend(u) \/ OpenUnref(u)
  \/ TellRegistered(u) \/ ToldRegistered(u) \/ RegisterEnd(u)
  \/ FreeWhen(u, At(u, "free"))

User(u) ==
  \/ GetDeviceList(u) \/ Open(u) \/ Close(u) \/ FreeWhen(u, Ready(u))
  \/ \E c \in Callbacks : Register(u, c) \/ Deregister(u, c)
  \/ Continue(u)

Leaving(d) == \E i \in DOMAIN hotplug_msgs : hotplug_msgs[i] = Left(d)

(* libusb_exit(), which the last user calls: off the list of contexts,     *)
(* nothing else reaches this one.  It frees the callbacks, handles events  *)
(* as long as there are messages, and gives up what the list holds.        *)
Exit ==
  /\ phase = "ready" /\ hotplug_lock = None /\ message = NoMessage
  /\ \A u \in Users : At(u, "idle") /\ lists[u] = {} /\ handles[u] = NoDev
  /\ phase' = "gone"
  /\ cbs' = [c \in Callbacks |-> IF cbs[c] = "new" THEN "new" ELSE "freed"]
  /\ refcnt' = [d \in Devs |-> IF d \in usb_devs \/ Leaving(d)
                               THEN refcnt[d] - 1 ELSE refcnt[d]]
  /\ usb_devs' = {} /\ hotplug_msgs' = <<>> /\ netlink' = <<>>
  /\ UNCHANGED <<bus, plugs, allocated, session, attached, leaked, lockVars, eventVars,
                 told, userVars>>

Next ==
  \/ Starting \/ MonitorLocks \/ HandlerLocks \/ Working \/ Handling \/ Exit
  \/ \E s \in Sessions : Plug(s) \/ Unplug(s)
  \/ \E u \in Users : User(u)

DevicesSpec == DevicesInit /\ [][Next]_vars

DevicesFairSpec ==
  /\ DevicesSpec
  /\ WF_vars(Starting) /\ WF_vars(Working) /\ WF_vars(MonitorLocks)
  /\ SF_vars(HandlerLocks) /\ WF_vars(Handling)
  /\ \A u \in Users : WF_vars(Continue(u))

-----------------------------------------------------------------------------
(* References that are accounted for.  The first of a device is the one    *)
(* that the list holds and then the message, unless it has been lost.      *)

One(b) == IF b THEN 1 ELSE 0

FirstReference(d) ==
  One(d \in usb_devs) + One(work.dev = d /\ work.step = "leave")
  + One(Leaving(d)) + One(message = Left(d)) + One(d \in leaked)

LookedUp(d) == work.dev = d /\ work.step \in {"detach", "delist", "leave", "unref"}
Listing(d) == {u \in Users : d \in lists[u]}
Having(d)  == {u \in Users : handles[u] = d}
Opening(d) == {u \in Users : op[u].dev = d /\ op[u].step \in {"open", "failed", "unref"}}

(* A device is freed when the last reference to it goes and not before:    *)
(* its count is, at every step of a plug, an unplug, an open and a close,  *)
(* what the list or the message, the lookups, the handles and the users'   *)
(* lists hold.  No message, nor any user who is about to open, has a       *)
(* device that was freed; and a device leaves only once.                   *)
RefsExact ==
  /\ \A d \in Devs :
       /\ FirstReference(d) \in {0, 1}
       /\ refcnt[d] = FirstReference(d) + One(LookedUp(d)) + Cardinality(Listing(d))
                        + Cardinality(Having(d)) + Cardinality(Opening(d))
  /\ \A i \in DOMAIN hotplug_msgs :
       /\ hotplug_msgs[i] # Deregistered => Live(hotplug_msgs[i].dev)
       /\ hotplug_msgs[i].event = "LEFT"
            => \A j \in DOMAIN hotplug_msgs : hotplug_msgs[j] = hotplug_msgs[i] => i = j
  /\ message \notin {NoMessage, Deregistered} => Live(message.dev)
  /\ \A u \in Users : op[u].dev # NoDev => Live(op[u].dev)

(* There is never more than one device for a session in the list, and only *)
(* a device that is just being removed is in it and not attached.          *)
OnePerSession ==
  /\ \A d, e \in usb_devs : session[d] = session[e] => d = e
  /\ \A d \in Devs : attached[d] /\ phase # "gone" => d \in usb_devs
  /\ \A d \in usb_devs :
       attached[d] \/ (work.dev = d /\ work.step = "delist")

(* When all messages of the kernel have been read, the list has one device *)
(* for everything that is plugged in, and nothing else: an open or a poll  *)
(* that finds a device gone before the monitor does never removes the      *)
(* device that has taken its place.                                        *)
ListMatchesBus ==
  phase \in {"scanned", "ready"} /\ netlink = <<>> /\ hotplug_lock = None
    => {session[d] : d \in usb_devs} = bus

(* When nothing is left to be told, a registered callback has been told of *)
(* every device in the list, by the thread that has registered it or by    *)
(* the one that handles events, whichever was first: none falls between.   *)
(* (It may have been told of some twice, as libusb.h says, and of one that *)
(* has left after it has left, which libusb.h does not say.)               *)
CallbacksMissNothing ==
  phase = "ready" /\ hotplug_msgs = <<>> /\ message = NoMessage /\ hotplug_lock = None
    => \A c \in Callbacks :
         cbs[c] = "on" /\ (\A u \in Users : op[u].cb # c) => usb_devs \subseteq told[c]

(* A device that has left is freed, when no user has it in a list or open. *)
Held(d) == \E u \in Users : d \in lists[u] \/ handles[u] = d
LeftAreFreed ==
  \A d \in Devs :
    (phase = "ready" /\ Live(d) /\ ~attached[d] /\ d \notin leaked)
      ~> (refcnt[d] = 0 \/ Held(d) \/ phase = "gone")
=============================================================================
