--------------------------- MODULE UsbDevicesProofs --------------------------
(***************************************************************************)
(* Theorems about UsbDevices, for any sessions, users and callbacks: the   *)
(* type invariant with the discipline of linux_hotplug_lock, that the list *)
(* has one device per session, that references are counted exactly, that   *)
(* the list matches the bus when nothing is pending, and that callbacks    *)
(* know the list when nothing is left to tell.                             *)
(***************************************************************************)
EXTENDS UsbDevices, FiniteSetTheorems, TLAPS

(* Who has the lock does what the lock is taken for, and what is used as a *)
(* device is one.                                                          *)
WorkIsLocked ==
  /\ \A u \in Users : hotplug_lock = u => op[u].step \in {"poll", "failed"}
  /\ \A u \in Users : op[u].step \in {"ref", "open", "failed", "unref"}
                        => op[u].dev \in Devs
  /\ \A u \in Users : fd[u] # "none" => handles[u] \in Devs
  /\ work.step \in {"arrive", "detach", "delist", "leave", "unref"}
       => work.dev \in Devs

TypeInv == DevicesTypeOK /\ WorkIsLocked

LEMMA EmptyQueue == ASSUME NEW S PROVE <<>> \in Seq(S)
OBVIOUS

LEMMA TypeInit == DevicesInit => TypeInv
<1> SUFFICES ASSUME DevicesInit PROVE TypeInv  OBVIOUS
<1> USE UsbDevicesAssumption DEF DevicesInit
<1>1. (CHOOSE s \in Sessions : TRUE) \in Sessions  OBVIOUS
<1>2. DevicesTypeOK
  <2>1. netlink \in Seq({"add", "remove"} \X Sessions) /\ hotplug_msgs \in Seq(Messages)
    BY EmptyQueue
  <2>2. work \in Works
    BY DEF Work, NoWork, Works
  <2>3. op \in [Users -> Ops]
    BY DEF Op, Idle, Ops
  <2>4. session \in [Devs -> Sessions]
    BY <1>1
  <2> QED BY <2>1, <2>2, <2>3, <2>4 DEF DevicesTypeOK, NoWork, Work, Devs, NoDev
<1>3. WorkIsLocked
  BY DEF WorkIsLocked, NoWork, Work, Idle, Op, Devs, NoDev
<1> QED BY <1>2, <1>3 DEF TypeInv

(* How the parts of the state that are records change.                      *)
OpKept(u) ==
  /\ op' \in [Users -> Ops]
  /\ \A v \in Users : v # u => op'[v] = op[v]

LEMMA OpGoes ==
  ASSUME op \in [Users -> Ops], NEW u \in Users,
         NEW s \in {"idle", "poll", "list", "tell", "free", "ref", "open", "failed",
                    "unref"}, Go(u, s)
  PROVE /\ OpKept(u) /\ op'[u].step = s /\ op'[u].dev = op[u].dev
        /\ op'[u].cb = op[u].cb /\ op'[u].todo = op[u].todo
BY DEF Go, Ops, OpKept

LEMMA OpEnds ==
  ASSUME op \in [Users -> Ops], NEW u \in Users, op' = [op EXCEPT ![u] = Idle]
  PROVE OpKept(u) /\ op'[u] = Idle /\ op'[u].step = "idle" /\ op'[u].dev = NoDev
                  /\ op'[u].cb = None
BY DEF Idle, Op, Ops, OpKept

LEMMA OpOpens ==
  ASSUME op \in [Users -> Ops], NEW u \in Users, NEW d \in Devs,
         op' = [op EXCEPT ![u] = Op("ref", d, None)]
  PROVE OpKept(u) /\ op'[u].step = "ref" /\ op'[u].dev = d /\ op'[u].cb = None
BY DEF Idle, Op, Ops, OpKept

LEMMA OpRegisters ==
  ASSUME op \in [Users -> Ops], NEW u \in Users, NEW c \in Callbacks,
         op' = [op EXCEPT ![u] = Op("poll", NoDev, c)]
  PROVE OpKept(u) /\ op'[u].step = "poll" /\ op'[u].dev = NoDev /\ op'[u].cb = c
BY DEF Idle, Op, Ops, OpKept

LEMMA OpTells ==
  ASSUME op \in [Users -> Ops], NEW u \in Users, NEW ds \in SUBSET Devs,
         NEW s \in {"tell"}, op' = [op EXCEPT ![u] = [@ EXCEPT !.step = s, !.todo = ds]]
  PROVE OpKept(u) /\ op'[u].step = s /\ op'[u].dev = op[u].dev /\ op'[u].cb = op[u].cb
                  /\ op'[u].todo = ds
BY DEF Ops, OpKept

LEMMA OpHasTold ==
  ASSUME op \in [Users -> Ops], NEW u \in Users, NEW d,
         op' = [op EXCEPT ![u].todo = @ \ {d}]
  PROVE OpKept(u) /\ op'[u].step = op[u].step /\ op'[u].dev = op[u].dev
                  /\ op'[u].cb = op[u].cb /\ op'[u].todo = op[u].todo \ {d}
BY DEF Ops, OpKept

LEMMA MessageTypes ==
  /\ Deregistered \in Messages /\ Deregistered.event = "NONE" /\ Deregistered.dev = NoDev
  /\ NoMessage.event = "no message" /\ NoMessage.dev = NoDev
  /\ \A d \in Devs : /\ Arrived(d) \in Messages /\ Arrived(d).event = "ARRIVED"
                     /\ Arrived(d).dev = d
                     /\ Left(d) \in Messages /\ Left(d).event = "LEFT" /\ Left(d).dev = d
                     /\ PollError(d).event = "POLLERR" /\ PollError(d).dev = d
<1>1. Deregistered.event = "NONE" /\ Deregistered.dev = NoDev
      /\ NoMessage.event = "no message" /\ NoMessage.dev = NoDev
  BY DEF Deregistered, NoMessage
<1>2. ASSUME NEW d \in Devs
      PROVE /\ Arrived(d).event = "ARRIVED" /\ Arrived(d).dev = d
            /\ Left(d).event = "LEFT" /\ Left(d).dev = d
            /\ PollError(d).event = "POLLERR" /\ PollError(d).dev = d
  BY DEF Arrived, Left, PollError
<1> QED BY <1>1, <1>2 DEF Messages

LEMMA MessageCases ==
  ASSUME NEW m \in Messages
  PROVE \/ m = Deregistered
        \/ m.dev \in Devs /\ m = Arrived(m.dev)
        \/ m.dev \in Devs /\ m = Left(m.dev)
<1>1. CASE \E d \in Devs : m = Arrived(d)
  BY <1>1, MessageTypes
<1>2. CASE \E d \in Devs : m = Left(d)
  BY <1>2, MessageTypes
<1> QED BY <1>1, <1>2 DEF Messages

LEMMA WorkTypes ==
  /\ NoWork \in Works /\ NoWork.step = "none" /\ NoWork.dev = NoDev
  /\ Reading \in Works /\ Reading.step = "read" /\ Reading.dev = NoDev
  /\ \A s \in Sessions : Finding(s) \in Works /\ Finding(s).step = "find"
                         /\ Finding(s).todo = {s} /\ Finding(s).dev = NoDev
BY DEF Work, NoWork, Works, Reading, Finding

LEMMA WorkStarts ==
  ASSUME NEW d \in Devs, NEW s \in {"arrive", "detach"}
  PROVE Work(s, d, {}) \in Works /\ Work(s, d, {}).step = s /\ Work(s, d, {}).dev = d
BY DEF Work, Works

LEMMA WorkGoes ==
  ASSUME work \in Works, NEW s \in {"delist", "leave", "unref"}, Then(s)
  PROVE work' \in Works /\ work'.step = s /\ work'.dev = work.dev
BY DEF Then, Works

(* Letting the lock go, or keeping it for the next message of a poll.      *)
WorkEnded ==
  /\ work' \in Works /\ op' \in [Users -> Ops]
  /\ message' \in {message, NoMessage}
  /\ \/ /\ work'.step = "none" /\ work'.dev = NoDev /\ hotplug_lock' = None
     \/ /\ work'.step = "read" /\ work'.dev = NoDev /\ UNCHANGED <<hotplug_lock, op, message>>
        /\ \E u \in Users : hotplug_lock = u
  /\ \A u \in Users :
       \/ op'[u] = op[u]
       \/ /\ op[u].step \in {"poll", "failed"} /\ op'[u].dev = op[u].dev
          /\ op'[u].step = IF op[u].step = "poll" THEN "list" ELSE "unref"
          /\ op'[u].cb = op[u].cb

LEMMA ReleaseEnds == TypeInv /\ Release => WorkEnded
<1> SUFFICES ASSUME TypeInv, Release PROVE WorkEnded  OBVIOUS
<1> USE DEF TypeInv, DevicesTypeOK, WorkIsLocked
<1>1. ASSUME NEW u \in Users
      PROVE /\ op'[u] \in Ops
            /\ \/ op'[u] = op[u]
               \/ /\ op[u].step \in {"poll", "failed"} /\ op'[u].dev = op[u].dev
                  /\ op'[u].step = IF op[u].step = "poll" THEN "list" ELSE "unref"
                  /\ op'[u].cb = op[u].cb
  <2>1. CASE u # hotplug_lock
    BY <2>1 DEF Release
  <2>2. CASE u = hotplug_lock
    <3>1. op'[u] = [op[u] EXCEPT !.step = IF op[u].step = "poll" THEN "list" ELSE "unref"]
      BY <2>2 DEF Release
    <3> QED BY <2>2, <3>1 DEF Ops
  <2> QED BY <2>1, <2>2
<1>2. op' \in [Users -> Ops]
  BY <1>1 DEF Release
<1>3. work' = NoWork /\ hotplug_lock' = None /\ message' \in {message, NoMessage}
  BY DEF Release
<1> HIDE DEF TypeInv
<1> QED BY <1>1, <1>2, <1>3, WorkTypes DEF WorkEnded

LEMMA WorkDoneEnds == TypeInv /\ WorkDone => WorkEnded
<1> SUFFICES ASSUME TypeInv, WorkDone PROVE WorkEnded  OBVIOUS
<1>1. CASE Polling
  BY <1>1, WorkTypes DEF WorkDone, WorkEnded, Polling, TypeInv, DevicesTypeOK
<1>2. CASE ~Polling
  BY <1>2, ReleaseEnds DEF WorkDone
<1> QED BY <1>1, <1>2

LEMMA NotifyTyped ==
  ASSUME hotplug_msgs \in Seq(Messages), NEW m \in Messages, Notify(m)
  PROVE hotplug_msgs' \in Seq(Messages)
BY DEF Notify

(* A device that is enumerated, or not.                                     *)
EnumTyped ==
  /\ allocated' \in 0..MaxDevs /\ session' \in [Devs -> Sessions]
  /\ attached' \in [Devs -> BOOLEAN] /\ refcnt' \in [Devs -> Int]
  /\ usb_devs' \subseteq 1..allocated' /\ leaked' \subseteq Devs

LEMMA EnumerateTyped ==
  ASSUME TypeInv, NEW s \in Sessions, linux_enumerate_device(s) \/ UNCHANGED devVars
  PROVE EnumTyped
<1> USE UsbDevicesAssumption DEF TypeInv, DevicesTypeOK, EnumTyped
<1>1. CASE linux_enumerate_device(s)
  BY <1>1 DEF linux_enumerate_device, Devs
<1>2. CASE UNCHANGED devVars
  BY <1>2 DEF devVars
<1> QED BY <1>1, <1>2

LEMMA PollDev ==
  ASSUME TypeInv, message.event = "POLLERR" PROVE message.dev \in Devs
<1>1. message \in Messages \cup {NoMessage} \cup {PollError(d) : d \in Devs}
  BY DEF TypeInv, DevicesTypeOK
<1>2. message \notin Messages
  <2> SUFFICES ASSUME message \in Messages PROVE FALSE  OBVIOUS
  <2>1. message = Deregistered \/ \E d \in Devs : message = Arrived(d) \/ message = Left(d)
    BY MessageCases
  <2> QED BY <2>1, MessageTypes
<1>3. PICK d \in Devs : message = PollError(d)
  BY <1>1, <1>2, MessageTypes
<1> QED BY <1>3, MessageTypes

(* Work that ends, as far as the discipline of the lock goes.               *)
LEMMA EndedIsLocked ==
  ASSUME TypeInv, WorkEnded, UNCHANGED <<handles, fd>> PROVE WorkIsLocked'
<1> USE UsbDevicesAssumption DEF TypeInv, WorkIsLocked, WorkEnded
<1>1. \A u \in Users : hotplug_lock' = u => op'[u].step \in {"poll", "failed"}
  OBVIOUS
<1>2. ASSUME NEW u \in Users, op'[u].step \in {"ref", "open", "failed", "unref"}
      PROVE op'[u].dev \in Devs
  BY <1>2
<1>3. \A u \in Users : fd'[u] # "none" => handles'[u] \in Devs
  OBVIOUS
<1>4. work'.step \notin {"arrive", "detach", "delist", "leave", "unref"}
  OBVIOUS
<1> HIDE DEF TypeInv, WorkEnded
<1> QED BY <1>1, <1>2, <1>3, <1>4

LEMMA HeardTyped ==
  ASSUME NEW known \in SUBSET Devs, NEW m, m.event = "ARRIVED" => m.dev \in Devs
  PROVE Heard(known, m) \in SUBSET Devs
BY DEF Heard

LEMMA TypeStep == TypeInv /\ [Next]_vars => TypeInv'
<1> SUFFICES ASSUME TypeInv, [Next]_vars PROVE TypeInv'  OBVIOUS
<1> USE DEF TypeInv, DevicesTypeOK, WorkIsLocked, busVars, devVars, lockVars, eventVars,
        cbVars, userVars
<1>1. ASSUME InitBackend PROVE TypeInv'
  <2>1. phase' = "active"
    BY <1>1 DEF InitBackend
  <2>2. UNCHANGED <<busVars, devVars, lockVars, hotplug_msgs, eventVars, cbVars, userVars>>
    BY <1>1 DEF InitBackend
  <2>3. DevicesTypeOK'
    BY <2>1, <2>2
  <2>4. WorkIsLocked'
    BY <2>1, <2>2
  <2> QED BY <2>3, <2>4
<1>2. ASSUME ScanStart PROVE TypeInv'
  <2>1. work' \in Works /\ work'.step = "scan" /\ hotplug_lock' = "scan"
    BY <1>2 DEF ScanStart, Work, Works
  <2>2. UNCHANGED <<busVars, phase, devVars, hotplug_msgs, eventVars, cbVars, userVars>>
    BY <1>2 DEF ScanStart
  <2>3. DevicesTypeOK'
    BY <2>1, <2>2, UsbDevicesAssumption
  <2>4. WorkIsLocked'
    BY <2>1, <2>2, UsbDevicesAssumption
  <2> QED BY <2>3, <2>4
<1>3. ASSUME ScanDevice PROVE TypeInv'
  <2>1. work' \in Works /\ work'.step = "scan"
    <3>1. PICK s \in Sessions : work' = [work EXCEPT !.todo = @ \ {s}] /\ work.step = "scan"
      BY <1>3 DEF ScanDevice, Works
    <3> QED BY <3>1 DEF Works
  <2>2. EnumTyped
    <3>1. PICK s \in work.todo : linux_enumerate_device(s) \/ UNCHANGED devVars
      BY <1>3 DEF ScanDevice
    <3>2. s \in Sessions
      BY DEF Works
    <3> HIDE DEF TypeInv, devVars
    <3> QED BY <3>1, <3>2, EnumerateTyped
  <2>3. UNCHANGED <<busVars, phase, hotplug_lock, hotplug_msgs, eventVars, cbVars, userVars>>
    BY <1>3 DEF ScanDevice
  <2>4. DevicesTypeOK'
    BY <1>3, <2>1, <2>2, <2>3 DEF EnumTyped, ScanDevice
  <2>5. WorkIsLocked'
    BY <2>1, <2>2, <2>3
  <2> QED BY <2>4, <2>5
<1>4. ASSUME ScanEnd PROVE TypeInv'
  <2>1. phase' = "scanned" /\ hotplug_lock' = None /\ work' = NoWork
    BY <1>4 DEF ScanEnd
  <2>2. UNCHANGED <<busVars, devVars, hotplug_msgs, eventVars, cbVars, userVars>>
    BY <1>4 DEF ScanEnd
  <2>3. DevicesTypeOK'
    BY <2>1, <2>2, WorkTypes
  <2>4. WorkIsLocked'
    BY <2>1, <2>2, WorkTypes, UsbDevicesAssumption
  <2> QED BY <2>3, <2>4
<1>5. ASSUME InitIo PROVE TypeInv'
  <2>1. phase' = "ready"
    BY <1>5 DEF InitIo
  <2>2. UNCHANGED <<busVars, devVars, lockVars, hotplug_msgs, eventVars, cbVars, userVars>>
    BY <1>5 DEF InitIo
  <2>3. DevicesTypeOK'
    BY <2>1, <2>2
  <2>4. WorkIsLocked'
    BY <2>1, <2>2
  <2> QED BY <2>3, <2>4
<1>6. ASSUME MonitorLocks PROVE TypeInv'
  <2>1. work' = Reading /\ hotplug_lock' = "monitor"
    BY <1>6 DEF MonitorLocks, Begin
  <2>2. UNCHANGED <<busVars, phase, devVars, hotplug_msgs, eventVars, cbVars, userVars>>
    BY <1>6 DEF MonitorLocks
  <2>3. DevicesTypeOK'
    BY <2>1, <2>2, WorkTypes, UsbDevicesAssumption
  <2>4. WorkIsLocked'
    BY <2>1, <2>2, WorkTypes, UsbDevicesAssumption
  <2> QED BY <2>3, <2>4
<1>7. ASSUME HandlerLocks PROVE TypeInv'
  <2>1. \/ UNCHANGED <<lockVars>> /\ message' = NoMessage
        \/ /\ work' = Finding(session[message.dev]) /\ hotplug_lock' = "handler"
           /\ UNCHANGED message /\ message.dev \in Devs
    BY <1>7, PollDev DEF HandlerLocks, Begin
  <2>2. UNCHANGED <<busVars, phase, devVars, hotplug_msgs, todo, cbVars, userVars>>
    BY <1>7 DEF HandlerLocks
  <2>3. DevicesTypeOK'
    BY <2>1, <2>2, WorkTypes, UsbDevicesAssumption
  <2>4. WorkIsLocked'
    BY <2>1, <2>2, WorkTypes, UsbDevicesAssumption
  <2> QED BY <2>3, <2>4
<1>8. ASSUME ReadNone PROVE TypeInv'
  <2>1. WorkEnded
    BY <1>8, ReleaseEnds DEF ReadNone
  <2>2. UNCHANGED <<busVars, phase, devVars, hotplug_msgs, todo, cbVars, lists, handles, fd>>
    BY <1>8 DEF ReadNone
  <2>3. DevicesTypeOK'
    BY <2>1, <2>2, UsbDevicesAssumption DEF WorkEnded
  <2>4. WorkIsLocked'
    BY <2>1, <2>2, EndedIsLocked
  <2> QED BY <2>3, <2>4
<1>9. ASSUME ReadRemove PROVE TypeInv'
  <2>1. Head(netlink)[2] \in Sessions /\ netlink' \in Seq({"add", "remove"} \X Sessions)
    BY <1>9 DEF ReadRemove
  <2>2. work' = Finding(Head(netlink)[2]) /\ work.step = "read"
    BY <1>9 DEF ReadRemove
  <2>3. UNCHANGED <<bus, plugs, phase, devVars, hotplug_lock, hotplug_msgs, eventVars, cbVars, userVars>>
    BY <1>9 DEF ReadRemove
  <2>4. DevicesTypeOK'
    BY <2>1, <2>2, <2>3, WorkTypes
  <2>5. WorkIsLocked'
    BY <2>1, <2>2, <2>3, WorkTypes
  <2> QED BY <2>4, <2>5
<1>10. ASSUME ReadAdd PROVE TypeInv'
  <2>1. Head(netlink)[2] \in Sessions /\ netlink' \in Seq({"add", "remove"} \X Sessions)
    BY <1>10 DEF ReadAdd
  <2>2. EnumTyped
    BY <1>10, <2>1, EnumerateTyped DEF ReadAdd
  <2>3. work.step = "read"
    BY <1>10 DEF ReadAdd
  <2>4. \/ WorkEnded
        \/ /\ work' \in Works /\ work'.step = "arrive" /\ work'.dev \in Devs
           /\ UNCHANGED <<hotplug_lock, op, message>>
    <3>1. CASE Addable(Head(netlink)[2])
      <4>1. work' = Work("arrive", allocated', {}) /\ UNCHANGED <<hotplug_lock, op,
              message>>
        BY <1>10, <3>1 DEF ReadAdd
      <4>2. allocated' \in Devs
        BY <1>10, <3>1, UsbDevicesAssumption DEF ReadAdd, linux_enumerate_device, Devs
      <4> QED BY <4>1, <4>2, WorkStarts
    <3>2. CASE ~Addable(Head(netlink)[2])
      BY <1>10, <3>2, WorkDoneEnds DEF ReadAdd
    <3> QED BY <3>1, <3>2
  <2>5. UNCHANGED <<bus, plugs, phase, hotplug_msgs, todo, cbVars, lists, handles, fd>>
    BY <1>10 DEF ReadAdd
  <2>6. DevicesTypeOK'
    <3>1. hotplug_lock' = None <=> work'.step = "none"
      BY <2>3, <2>4, UsbDevicesAssumption DEF WorkEnded
    <3>2. /\ hotplug_lock' \in {None, "monitor", "handler", "scan"} \cup Users
          /\ message' \in Messages \cup {NoMessage} \cup {PollError(d) : d \in Devs}
          /\ work' \in Works /\ op' \in [Users -> Ops]
      BY <2>4 DEF WorkEnded
    <3> QED BY <2>1, <2>2, <2>5, <3>1, <3>2 DEF EnumTyped
  <2>7. WorkIsLocked'
    BY <2>1, <2>2, <2>3, <2>4, <2>5, UsbDevicesAssumption DEF WorkEnded
  <2> QED BY <2>6, <2>7
<1>11. ASSUME Arrive PROVE TypeInv'
  <2>1. hotplug_msgs' \in Seq(Messages)
    BY <1>11, MessageTypes, NotifyTyped DEF Arrive
  <2>2. WorkEnded
    BY <1>11, WorkDoneEnds DEF Arrive
  <2>3. UNCHANGED <<busVars, phase, devVars, todo, cbVars, lists, handles, fd>>
    BY <1>11 DEF Arrive
  <2>4. DevicesTypeOK'
    BY <2>1, <2>2, <2>3, UsbDevicesAssumption, <1>11 DEF WorkEnded, Arrive
  <2>5. WorkIsLocked'
    BY <2>2, <2>3, EndedIsLocked
  <2> QED BY <2>4, <2>5
<1>12. ASSUME Find PROVE TypeInv'
  <2>1. work.step = "find"
    BY <1>12 DEF Find
  <2>2. refcnt' \in [Devs -> Int]
    BY <1>12 DEF Find, FoundBySession, libusb_ref_device
  <2>3. \/ WorkEnded
        \/ /\ work' \in Works /\ work'.step = "detach" /\ work'.dev \in Devs
           /\ UNCHANGED <<hotplug_lock, op, message>>
    <3>1. CASE WorkDone
      BY <3>1, WorkDoneEnds
    <3>2. CASE ~WorkDone
      <4>1. PICK d \in usb_devs : work' = Work("detach", d,
              {}) /\ UNCHANGED <<hotplug_lock, op, message>>
        BY <1>12, <3>2 DEF Find, WithSession
      <4>2. d \in Devs
        BY UsbDevicesAssumption DEF Devs
      <4> QED BY <4>1, <4>2, WorkStarts
    <3> QED BY <3>1, <3>2
  <2>4. UNCHANGED <<busVars, phase, allocated, session, attached, usb_devs, leaked, hotplug_msgs, todo, cbVars, lists, handles, fd>>
    BY <1>12 DEF Find
  <2>5. DevicesTypeOK'
    BY <2>1, <2>2, <2>3, <2>4, UsbDevicesAssumption DEF WorkEnded
  <2>6. WorkIsLocked'
    <3>1. CASE WorkEnded
      BY <2>4, <3>1, EndedIsLocked
    <3>2. CASE ~WorkEnded
      BY <2>1, <2>3, <2>4, <3>2, UsbDevicesAssumption
    <3> QED BY <3>1, <3>2
  <2> QED BY <2>5, <2>6
<1>13. ASSUME Detach PROVE TypeInv'
  <2>1. work' \in Works /\ work'.step = "delist" /\ work'.dev = work.dev /\ work.step = "detach"
    BY <1>13, WorkGoes DEF Detach
  <2>2. attached' \in [Devs -> BOOLEAN]
    BY <1>13 DEF Detach
  <2>3. UNCHANGED <<busVars, phase, allocated, session, refcnt, usb_devs, leaked, hotplug_lock, hotplug_msgs, eventVars, cbVars, userVars>>
    BY <1>13 DEF Detach
  <2>4. DevicesTypeOK'
    BY <2>1, <2>2, <2>3
  <2>5. WorkIsLocked'
    BY <2>1, <2>2, <2>3
  <2> QED BY <2>4, <2>5
<1>14. ASSUME Delist PROVE TypeInv'
  <2>1. work' \in Works /\ work'.step = "leave" /\ work'.dev = work.dev /\ work.step = "delist"
    BY <1>14, WorkGoes DEF Delist
  <2>2. usb_devs' \subseteq 1..allocated
    BY <1>14 DEF Delist
  <2>3. UNCHANGED <<busVars, phase, allocated, session, attached, refcnt, leaked, hotplug_lock, hotplug_msgs, eventVars, cbVars, userVars>>
    BY <1>14 DEF Delist
  <2>4. DevicesTypeOK'
    BY <2>1, <2>2, <2>3
  <2>5. WorkIsLocked'
    BY <2>1, <2>2, <2>3
  <2> QED BY <2>4, <2>5
<1>15. ASSUME Leave PROVE TypeInv'
  <2>1. work' \in Works /\ work'.step = "unref" /\ work'.dev = work.dev /\ work.step = "leave"
    BY <1>15, WorkGoes DEF Leave
  <2>2. hotplug_msgs' \in Seq(Messages)
    BY <1>15, MessageTypes, NotifyTyped DEF Leave
  <2>3. leaked' \subseteq Devs
    BY <1>15 DEF Leave
  <2>4. UNCHANGED <<busVars, phase, allocated, session, attached, refcnt, usb_devs, hotplug_lock, eventVars, cbVars, userVars>>
    BY <1>15 DEF Leave
  <2>5. DevicesTypeOK'
    BY <2>1, <2>2, <2>3, <2>4
  <2>6. WorkIsLocked'
    BY <2>1, <2>2, <2>3, <2>4
  <2> QED BY <2>5, <2>6
<1>16. ASSUME Unref PROVE TypeInv'
  <2>1. WorkEnded /\ work.step = "unref"
    BY <1>16, WorkDoneEnds DEF Unref
  <2>2. refcnt' \in [Devs -> Int]
    BY <1>16 DEF Unref, libusb_unref_device
  <2>3. UNCHANGED <<busVars, phase, allocated, session, attached, usb_devs, leaked, hotplug_msgs, todo, cbVars, lists, handles, fd>>
    BY <1>16 DEF Unref
  <2>4. DevicesTypeOK'
    BY <2>1, <2>2, <2>3, UsbDevicesAssumption DEF WorkEnded
  <2>5. WorkIsLocked'
    BY <2>1, <2>3, EndedIsLocked
  <2> QED BY <2>4, <2>5
<1>17. ASSUME TakeMessage PROVE TypeInv'
  <2>1. message' \in Messages /\ hotplug_msgs' \in Seq(Messages)
    BY <1>17 DEF TakeMessage
  <2>2. todo' \subseteq Callbacks
    BY <1>17 DEF TakeMessage, Registered
  <2>3. UNCHANGED <<busVars, phase, devVars, lockVars, cbVars, userVars>>
    BY <1>17 DEF TakeMessage
  <2>4. DevicesTypeOK'
    BY <2>1, <2>2, <2>3
  <2>5. WorkIsLocked'
    BY <2>1, <2>2, <2>3
  <2> QED BY <2>4, <2>5
<1>18. ASSUME usbi_hotplug_match PROVE TypeInv'
  <2>1. cbs' \in [Callbacks -> {"new", "on", "needs_free", "freed"}] /\ todo' \subseteq Callbacks
    BY <1>18 DEF usbi_hotplug_match
  <2>2. \A c \in Callbacks : Heard(told[c], message) \subseteq Devs
    <3>1. message \in Messages
      BY <1>18 DEF usbi_hotplug_match
    <3>2. message = Deregistered \/ \E d \in Devs : message \in {Arrived(d), Left(d)}
      BY <3>1, MessageCases
    <3>3. message.event = "ARRIVED" => message.dev \in Devs
      <4> HIDE DEF TypeInv
      <4>1. CASE message = Deregistered
        BY <4>1, MessageTypes
      <4>2. CASE \E d \in Devs : message \in {Arrived(d), Left(d)}
        BY <4>2, MessageTypes
      <4> QED BY <3>2, <4>1, <4>2
    <3>4. \A c \in Callbacks : told[c] \in SUBSET Devs
      OBVIOUS
    <3> HIDE DEF TypeInv
    <3> QED BY <3>3, <3>4, HeardTyped
  <2>3. told' \in [Callbacks -> SUBSET Devs]
    <3>1. PICK c \in Callbacks : told' \in {told, [told EXCEPT ![c] = Heard(@, message)]}
      BY <1>18 DEF usbi_hotplug_match
    <3> QED BY <2>2, <3>1
  <2>4. UNCHANGED <<busVars, phase, devVars, lockVars, hotplug_msgs, message, userVars>>
    BY <1>18 DEF usbi_hotplug_match
  <2>5. DevicesTypeOK'
    BY <2>1, <2>2, <2>3, <2>4
  <2>6. WorkIsLocked'
    BY <2>1, <2>2, <2>3, <2>4
  <2> QED BY <2>5, <2>6
<1>19. ASSUME EndMessage PROVE TypeInv'
  <2>1. refcnt' \in [Devs -> Int]
    BY <1>19 DEF EndMessage, GiveUp, libusb_unref_device
  <2>2. message' = NoMessage
    BY <1>19 DEF EndMessage
  <2>3. UNCHANGED <<busVars, phase, allocated, session, attached, usb_devs, leaked, lockVars, hotplug_msgs, todo, cbVars, userVars>>
    BY <1>19 DEF EndMessage
  <2>4. DevicesTypeOK'
    BY <2>1, <2>2, <2>3
  <2>5. WorkIsLocked'
    BY <2>1, <2>2, <2>3
  <2> QED BY <2>4, <2>5
<1>20. ASSUME Exit PROVE TypeInv'
  <2>1. refcnt' \in [Devs -> Int]
    BY <1>20 DEF Exit
  <2>2. leaked' \subseteq Devs /\ usb_devs' = {} /\ phase' = "gone"
    BY <1>20 DEF Exit
  <2>3. cbs' \in [Callbacks -> {"new", "on", "needs_free", "freed"}]
    BY <1>20 DEF Exit
  <2>4. hotplug_msgs' = <<>> /\ netlink' = <<>>
    BY <1>20 DEF Exit
  <2>5. UNCHANGED <<bus, plugs, allocated, session, attached, lockVars, eventVars, told, userVars>>
    BY <1>20 DEF Exit
  <2>6. DevicesTypeOK'
    BY <2>1, <2>2, <2>3, <2>4, <2>5, EmptyQueue
  <2>7. WorkIsLocked'
    BY <2>1, <2>2, <2>3, <2>4, <2>5
  <2> QED BY <2>6, <2>7
<1>21. ASSUME NEW s \in Sessions, Plug(s) PROVE TypeInv'
  <2>1. netlink' \in Seq({"add", "remove"} \X Sessions)
    BY <1>21 DEF Plug, Tell
  <2>2. bus' \subseteq Sessions /\ plugs' \in 0..MaxPlugs
    BY <1>21, UsbDevicesAssumption DEF Plug
  <2>3. UNCHANGED <<phase, devVars, lockVars, hotplug_msgs, eventVars, cbVars, userVars>>
    BY <1>21 DEF Plug
  <2>4. DevicesTypeOK'
    BY <2>1, <2>2, <2>3
  <2>5. WorkIsLocked'
    BY <2>1, <2>2, <2>3
  <2> QED BY <2>4, <2>5
<1>22. ASSUME NEW s \in Sessions, Unplug(s) PROVE TypeInv'
  <2>1. netlink' \in Seq({"add", "remove"} \X Sessions)
    BY <1>22 DEF Unplug, Tell
  <2>2. bus' \subseteq Sessions
    BY <1>22 DEF Unplug
  <2>3. /\ fd' \in [Users -> {"none", "open", "error", "removed"}]
        /\ \A u \in Users : fd'[u] # "none" => fd[u] # "none"
    BY <1>22 DEF Unplug
  <2>4. UNCHANGED <<plugs, phase, devVars, lockVars, hotplug_msgs, eventVars, cbVars, lists, handles, op>>
    BY <1>22 DEF Unplug
  <2>5. DevicesTypeOK'
    BY <2>1, <2>2, <2>3, <2>4
  <2>6. WorkIsLocked'
    BY <2>1, <2>2, <2>3, <2>4
  <2> QED BY <2>5, <2>6
<1>23. ASSUME NEW u \in Users, HandleError(u) PROVE TypeInv'
  <2>1. /\ fd' \in [Users -> {"none", "open", "error", "removed"}]
        /\ \A v \in Users : fd'[v] # "none" => fd[v] # "none"
    BY <1>23 DEF HandleError
  <2>2. message' \in {PollError(d) : d \in Devs}
    BY <1>23 DEF HandleError
  <2>3. UNCHANGED <<busVars, phase, devVars, lockVars, hotplug_msgs, todo, cbVars, lists, handles, op>>
    BY <1>23 DEF HandleError
  <2>4. DevicesTypeOK'
    BY <2>1, <2>2, <2>3
  <2>5. WorkIsLocked'
    BY <2>1, <2>2, <2>3
  <2> QED BY <2>4, <2>5
<1>24. ASSUME NEW u \in Users, GetDeviceList(u) PROVE TypeInv'
  <2>1. Go(u, "poll")
    BY <1>24 DEF GetDeviceList, At
  <2>2. OpKept(u) /\ op'[u].step = "poll" /\ op'[u].dev = op[u].dev
    BY <2>1, OpGoes
  <2>3. UNCHANGED <<busVars, phase, devVars, lockVars, hotplug_msgs, eventVars, cbVars, lists, handles, fd>>
    BY <1>24 DEF GetDeviceList
  <2>4. DevicesTypeOK'
    BY <2>1, <2>2, <2>3 DEF OpKept
  <2>5. WorkIsLocked'
    BY <2>1, <2>2, <2>3, <1>24 DEF OpKept, At, Ready, GetDeviceList
  <2> QED BY <2>4, <2>5
<1>25. ASSUME NEW u \in Users, Open(u) PROVE TypeInv'
  <2>1. PICK d \in lists[u] : op' = [op EXCEPT ![u] = Op("ref", d, None)]
    BY <1>25 DEF Open
  <2>2. OpKept(u) /\ op'[u].step = "ref" /\ op'[u].dev \in Devs
    <3>1. d \in Devs
      OBVIOUS
    <3> HIDE DEF TypeInv
    <3>2. op \in [Users -> Ops]
      BY DEF TypeInv
    <3> QED BY <2>1, <3>1, <3>2, OpOpens
  <2>3. UNCHANGED <<busVars, phase, devVars, lockVars, hotplug_msgs, eventVars, cbVars, lists, handles, fd>>
    BY <1>25 DEF Open
  <2>4. DevicesTypeOK'
    BY <2>1, <2>2, <2>3 DEF OpKept
  <2>5. WorkIsLocked'
    BY <2>1, <2>2, <2>3, <1>25 DEF OpKept, At, Ready, Open
  <2> QED BY <2>4, <2>5
<1>26. ASSUME NEW u \in Users, Close(u) PROVE TypeInv'
  <2>1. refcnt' \in [Devs -> Int]
    BY <1>26 DEF Close, libusb_unref_device
  <2>2. /\ handles' \in [Users -> Devs \cup {NoDev}]
        /\ fd' \in [Users -> {"none", "open", "error", "removed"}]
        /\ \A v \in Users : fd'[v] # "none" => handles'[v] = handles[v] /\ fd'[v] = fd[v]
    BY <1>26 DEF Close
  <2>3. UNCHANGED <<busVars, phase, allocated, session, attached, usb_devs, leaked, lockVars, hotplug_msgs, eventVars, cbVars, lists, op>>
    BY <1>26 DEF Close
  <2>4. DevicesTypeOK'
    BY <2>1, <2>2, <2>3
  <2>5. WorkIsLocked'
    BY <2>1, <2>2, <2>3
  <2> QED BY <2>4, <2>5
<1>27. ASSUME NEW u \in Users, PollLocks(u) PROVE TypeInv'
  <2>1. work' = Reading /\ hotplug_lock' = u /\ op[u].step = "poll"
    BY <1>27 DEF PollLocks, Begin
  <2>2. UNCHANGED <<busVars, phase, devVars, hotplug_msgs, eventVars, cbVars, userVars>>
    BY <1>27 DEF PollLocks
  <2>3. DevicesTypeOK'
    BY <2>1, <2>2, WorkTypes, UsbDevicesAssumption
  <2>4. WorkIsLocked'
    BY <2>1, <2>2, WorkTypes, UsbDevicesAssumption
  <2> QED BY <2>3, <2>4
<1>28. ASSUME NEW u \in Users, OpenFailedLocks(u) PROVE TypeInv'
  <2>1. op[u].step = "failed" /\ op[u].dev \in Devs /\ hotplug_lock = None
    BY <1>28 DEF OpenFailedLocks
  <2>2. \/ work' = Finding(session[op[u].dev]) /\ hotplug_lock' = u /\ UNCHANGED op
        \/ UNCHANGED lockVars /\ Go(u, "unref")
    <3>1. CASE StillAttached(op[u].dev)
      <4>1. Begin(u, Finding(session[op[u].dev])) /\ UNCHANGED op
        BY <1>28, <3>1 DEF OpenFailedLocks
      <4> QED BY <4>1 DEF Begin
    <3>2. CASE ~StillAttached(op[u].dev)
      BY <1>28, <3>2 DEF OpenFailedLocks, Go
    <3> QED BY <3>1, <3>2
  <2>3. \/ work' = Finding(session[op[u].dev]) /\ hotplug_lock' = u /\ UNCHANGED op
        \/ /\ UNCHANGED lockVars /\ OpKept(u) /\ op'[u].step = "unref"
           /\ op'[u].dev = op[u].dev
    BY <2>2, OpGoes
  <2>4. UNCHANGED <<busVars, phase, devVars, hotplug_msgs, eventVars, cbVars, lists, handles, fd>>
    BY <1>28 DEF OpenFailedLocks
  <2>5. DevicesTypeOK'
    BY <2>1, <2>2, <2>3, <2>4, WorkTypes, UsbDevicesAssumption DEF OpKept
  <2>6. WorkIsLocked'
    BY <2>1, <2>2, <2>3, <2>4, WorkTypes, UsbDevicesAssumption DEF OpKept
  <2> QED BY <2>5, <2>6
<1>29. ASSUME NEW u \in Users, TakeList(u) PROVE TypeInv'
  <2>1. refcnt' \in [Devs -> Int] /\ lists' \in [Users -> SUBSET Devs]
    BY <1>29, UsbDevicesAssumption DEF TakeList, libusb_ref_device, Devs
  <2>2. OpKept(u) /\ op'[u].step \in {"idle", "tell"}
    <3>1. CASE op[u].cb = None
      <4>1. op' = [op EXCEPT ![u] = Idle]
        BY <1>29, <3>1 DEF TakeList
      <4> QED BY <4>1, OpEnds
    <3>2. CASE op[u].cb # None
      <4>1. op' = [op EXCEPT ![u] = [@ EXCEPT !.step = "tell", !.todo = usb_devs]]
        BY <1>29, <3>2 DEF TakeList
      <4>2. usb_devs \in SUBSET Devs
        BY UsbDevicesAssumption DEF Devs
      <4> QED BY <4>1, <4>2, OpTells
    <3> QED BY <3>1, <3>2
  <2>3. op[u].step = "list"
    BY <1>29 DEF TakeList, At
  <2>4. UNCHANGED <<busVars, phase, allocated, session, attached, usb_devs, leaked, lockVars, hotplug_msgs, eventVars, cbVars, handles, fd>>
    BY <1>29 DEF TakeList
  <2>5. DevicesTypeOK'
    BY <2>1, <2>2, <2>3, <2>4 DEF OpKept
  <2>6. WorkIsLocked'
    BY <2>1, <2>2, <2>3, <2>4 DEF OpKept
  <2> QED BY <2>5, <2>6
<1>30. ASSUME NEW u \in Users, OpenRef(u) PROVE TypeInv'
  <2>1. Go(u, "open") /\ op[u].step = "ref"
    BY <1>30 DEF OpenRef, At
  <2>2. OpKept(u) /\ op'[u].step = "open" /\ op'[u].dev = op[u].dev
    BY <2>1, OpGoes
  <2>3. refcnt' \in [Devs -> Int]
    BY <1>30 DEF OpenRef, libusb_ref_device
  <2>4. UNCHANGED <<busVars, phase, allocated, session, attached, usb_devs, leaked, lockVars, hotplug_msgs, eventVars, cbVars, lists, handles, fd>>
    BY <1>30 DEF OpenRef
  <2>5. DevicesTypeOK'
    BY <2>1, <2>2, <2>3, <2>4 DEF OpKept
  <2>6. WorkIsLocked'
    BY <2>1, <2>2, <2>3, <2>4, <1>30 DEF OpKept, At, Ready, OpenRef
  <2> QED BY <2>5, <2>6
<1>31. ASSUME NEW u \in Users, OpenBackend(u) PROVE TypeInv'
  <2>1. op[u].step = "open" /\ op[u].dev \in Devs
    BY <1>31 DEF OpenBackend, At
  <2>2. /\ handles' \in [Users -> Devs \cup {NoDev}]
        /\ fd' \in [Users -> {"none", "open", "error", "removed"}]
        /\ \A v \in Users : fd'[v] # "none" => handles'[v] \in Devs
    <3>1. CASE session[op[u].dev] \in bus
      BY <1>31, <2>1, <3>1 DEF OpenBackend
    <3>2. CASE session[op[u].dev] \notin bus
      BY <1>31, <3>2 DEF OpenBackend
    <3> QED BY <3>1, <3>2
  <2>3. /\ OpKept(u)
        /\ op'[u].step = "idle" \/ (op'[u].step = "failed" /\ op'[u].dev = op[u].dev)
    <3>1. op' = [op EXCEPT ![u] = Idle] \/ Go(u, "failed")
      BY <1>31 DEF OpenBackend
    <3>2. CASE op' = [op EXCEPT ![u] = Idle]
      <4>1. op \in [Users -> Ops]
        OBVIOUS
      <4> HIDE DEF TypeInv
      <4>2. OpKept(u) /\ op'[u].step = "idle"
        BY <3>2, <4>1, OpEnds
      <4> QED BY <4>2
    <3>3. CASE Go(u, "failed")
      BY <3>3, OpGoes
    <3> QED BY <3>1, <3>2, <3>3
  <2>4. UNCHANGED <<busVars, phase, devVars, lockVars, hotplug_msgs, eventVars, cbVars, lists>>
    BY <1>31 DEF OpenBackend
  <2>5. DevicesTypeOK'
    BY <2>1, <2>2, <2>3, <2>4 DEF OpKept
  <2>6. WorkIsLocked'
    BY <2>1, <2>2, <2>3, <2>4 DEF OpKept
  <2> QED BY <2>5, <2>6
<1>32. ASSUME NEW u \in Users, OpenUnref(u) PROVE TypeInv'
  <2>1. op[u].step = "unref" /\ op' = [op EXCEPT ![u] = Idle]
    BY <1>32 DEF OpenUnref, At
  <2>2. OpKept(u) /\ op'[u].step = "idle"
    BY <2>1, OpEnds
  <2>3. refcnt' \in [Devs -> Int]
    BY <1>32, <2>1 DEF OpenUnref, libusb_unref_device
  <2>4. UNCHANGED <<busVars, phase, allocated, session, attached, usb_devs, leaked, lockVars, hotplug_msgs, eventVars, cbVars, lists, handles, fd>>
    BY <1>32 DEF OpenUnref
  <2>5. DevicesTypeOK'
    BY <2>1, <2>2, <2>3, <2>4 DEF OpKept
  <2>6. WorkIsLocked'
    BY <2>1, <2>2, <2>3, <2>4 DEF OpKept
  <2> QED BY <2>5, <2>6
<1>33. ASSUME NEW u \in Users, TellRegistered(u) PROVE TypeInv'
  <2>1. PICK d \in op[u].todo :
          /\ op' = [op EXCEPT ![u].todo = @ \ {d}]
          /\ told' = [told EXCEPT ![op[u].cb] = Heard(@, Arrived(d))]
    BY <1>33 DEF TellRegistered
  <2>2. d \in Devs
    BY TRUE DEF Ops
  <2>3. told' \in [Callbacks -> SUBSET Devs]
    <3>1. \A c \in Callbacks : Heard(told[c], Arrived(d)) \subseteq Devs
      <4>1. \A c \in Callbacks : told[c] \in SUBSET Devs
        OBVIOUS
      <4> HIDE DEF TypeInv
      <4> QED BY <2>2, <4>1, MessageTypes, HeardTyped, ZenonT(30)
    <3> QED BY <2>1, <3>1
  <2>4. OpKept(u) /\ op'[u].step = op[u].step /\ op'[u].dev = op[u].dev
    BY <2>1, OpHasTold
  <2>5. UNCHANGED <<busVars, phase, devVars, lockVars, hotplug_msgs, eventVars, cbs, lists, handles, fd>>
    BY <1>33 DEF TellRegistered
  <2>6. DevicesTypeOK'
    BY <2>1, <2>2, <2>3, <2>4, <2>5 DEF OpKept
  <2>7. WorkIsLocked'
    BY <2>1, <2>2, <2>3, <2>4, <2>5 DEF OpKept
  <2> QED BY <2>6, <2>7
<1>34. ASSUME NEW u \in Users, ToldRegistered(u) PROVE TypeInv'
  <2>1. Go(u, "free")
    BY <1>34 DEF ToldRegistered, At
  <2>2. OpKept(u) /\ op'[u].step = "free" /\ op'[u].dev = op[u].dev
    BY <2>1, OpGoes
  <2>3. UNCHANGED <<busVars, phase, devVars, lockVars, hotplug_msgs, eventVars, cbVars, lists, handles, fd>>
    BY <1>34 DEF ToldRegistered
  <2>4. DevicesTypeOK'
    BY <2>1, <2>2, <2>3 DEF OpKept
  <2>5. WorkIsLocked'
    BY <2>1, <2>2, <2>3, <1>34 DEF OpKept, At, Ready, ToldRegistered
  <2> QED BY <2>4, <2>5
<1>35. ASSUME NEW u \in Users, RegisterEnd(u) PROVE TypeInv'
  <2>1. op[u].step = "free" /\ op' = [op EXCEPT ![u] = Idle]
    BY <1>35 DEF RegisterEnd, At
  <2>2. OpKept(u) /\ op'[u].step = "idle"
    BY <2>1, OpEnds
  <2>3. UNCHANGED <<busVars, phase, devVars, lockVars, hotplug_msgs, eventVars, cbVars, lists, handles, fd>>
    BY <1>35 DEF RegisterEnd
  <2>4. DevicesTypeOK'
    BY <2>1, <2>2, <2>3 DEF OpKept
  <2>5. WorkIsLocked'
    BY <2>1, <2>2, <2>3 DEF OpKept
  <2> QED BY <2>4, <2>5
<1>36. ASSUME NEW u \in Users, FreeListed(u) PROVE TypeInv'
  <2>1. refcnt' \in [Devs -> Int] /\ lists' \in [Users -> SUBSET Devs]
    BY <1>36 DEF FreeListed, libusb_unref_device
  <2>2. UNCHANGED <<busVars, phase, allocated, session, attached, usb_devs, leaked, lockVars, hotplug_msgs, eventVars, cbVars, handles, fd, op>>
    BY <1>36 DEF FreeListed
  <2>3. DevicesTypeOK'
    BY <2>1, <2>2
  <2>4. WorkIsLocked'
    BY <2>1, <2>2
  <2> QED BY <2>3, <2>4
<1>37. ASSUME NEW u \in Users, NEW c \in Callbacks, Register(u, c) PROVE TypeInv'
  <2>1. op[u].step = "idle" /\ op' = [op EXCEPT ![u] = Op("poll", NoDev, c)]
    BY <1>37 DEF Register, Ready, At
  <2>2. OpKept(u) /\ op'[u].step = "poll"
    BY <2>1, OpRegisters
  <2>3. cbs' \in [Callbacks -> {"new", "on", "needs_free", "freed"}]
    BY <1>37 DEF Register
  <2>4. UNCHANGED <<busVars, phase, devVars, lockVars, hotplug_msgs, eventVars, told, lists, handles, fd>>
    BY <1>37 DEF Register
  <2>5. DevicesTypeOK'
    BY <2>1, <2>2, <2>3, <2>4 DEF OpKept
  <2>6. WorkIsLocked'
    BY <2>1, <2>2, <2>3, <2>4 DEF OpKept
  <2> QED BY <2>5, <2>6
<1>38. ASSUME NEW u \in Users, NEW c \in Callbacks, Deregister(u, c) PROVE TypeInv'
  <2>1. hotplug_msgs' \in Seq(Messages)
    BY <1>38, MessageTypes, NotifyTyped DEF Deregister
  <2>2. cbs' \in [Callbacks -> {"new", "on", "needs_free", "freed"}]
    BY <1>38 DEF Deregister
  <2>3. UNCHANGED <<busVars, phase, devVars, lockVars, eventVars, told, userVars>>
    BY <1>38 DEF Deregister
  <2>4. DevicesTypeOK'
    BY <2>1, <2>2, <2>3
  <2>5. WorkIsLocked'
    BY <2>1, <2>2, <2>3
  <2> QED BY <2>4, <2>5
<1>39. ASSUME UNCHANGED vars PROVE TypeInv'
  BY <1>39 DEF vars
<1> QED
  BY <1>1, <1>2, <1>3, <1>4, <1>5, <1>6, <1>7, <1>8, <1>9, <1>10,
     <1>11, <1>12, <1>13, <1>14, <1>15, <1>16, <1>17, <1>18, <1>19, <1>20,
     <1>21, <1>22, <1>23, <1>24, <1>25, <1>26, <1>27, <1>28, <1>29, <1>30,
     <1>31, <1>32, <1>33, <1>34, <1>35, <1>36, <1>37, <1>38, <1>39
  DEF Next, Starting, Working, Handling, User, Continue, FreeWhen

(* The type invariant, which has the lock held whenever work is done under *)
(* it, holds in every behaviour.                                           *)
THEOREM DevicesTypeCorrect == DevicesSpec => []DevicesTypeOK
<1>1. TypeInv => DevicesTypeOK
  BY DEF TypeInv
<1> QED BY TypeInit, TypeStep, <1>1, PTL DEF DevicesSpec

-----------------------------------------------------------------------------
(* One device per session.  A device that is taken off the list has been   *)
(* marked as gone by the same work, and the bus is scanned only once.      *)
SessionInv ==
  /\ TypeInv
  /\ OnePerSession
  /\ work.step = "delist" => ~attached[work.dev]
  /\ work.step = "scan" => phase = "active"

(* Steps that have nothing to do with any of this.                          *)
Elsewhen ==
  /\ UNCHANGED <<session, attached, usb_devs>>
  /\ phase' = phase
  /\ \/ UNCHANGED work
     \/ work.step # "delist" /\ work'.step \notin {"delist", "scan"}

LEMMA ElsewhenKeeps == SessionInv /\ TypeInv' /\ Elsewhen => SessionInv'
<1> SUFFICES ASSUME SessionInv, TypeInv', Elsewhen PROVE SessionInv'  OBVIOUS
<1>1. CASE UNCHANGED work
  BY <1>1 DEF SessionInv, Elsewhen, OnePerSession
<1>2. CASE work.step # "delist" /\ work'.step \notin {"delist", "scan"}
  BY <1>2 DEF SessionInv, Elsewhen, OnePerSession
<1> QED BY <1>1, <1>2 DEF Elsewhen

LEMMA EndedIsElsewhen ==
  ASSUME WorkEnded, UNCHANGED <<session, attached, usb_devs, phase>>,
         work.step # "delist"
  PROVE Elsewhen
BY DEF WorkEnded, Elsewhen

LEMMA EnumerateKeeps ==
  ASSUME SessionInv, NEW s \in Sessions, Addable(s), linux_enumerate_device(s),
         work.step # "delist", work'.step # "delist", phase' = phase
  PROVE OnePerSession'
<1> DEFINE d == allocated + 1
<1>1. d \in Devs /\ d \notin usb_devs /\ usb_devs \subseteq Devs
  BY UsbDevicesAssumption
  DEF SessionInv, TypeInv, DevicesTypeOK, linux_enumerate_device, Devs
<1>2. /\ usb_devs' = usb_devs \cup {d}
      /\ session'[d] = s /\ attached'[d] = TRUE
      /\ \A e \in Devs : e # d => session'[e] = session[e] /\ attached'[e] = attached[e]
  BY <1>1 DEF linux_enumerate_device, SessionInv, TypeInv, DevicesTypeOK
<1>3. \A e \in usb_devs : session[e] # s
  BY DEF Addable, WithSession
<1> HIDE DEF d
<1>4. \A e, f \in usb_devs' : session'[e] = session'[f] => e = f
  BY <1>1, <1>2, <1>3 DEF SessionInv, OnePerSession
<1>5. \A e \in Devs : attached'[e] /\ phase' # "gone" => e \in usb_devs'
  BY <1>1, <1>2 DEF SessionInv, OnePerSession
<1>6. \A e \in usb_devs' : attached'[e]
  BY <1>1, <1>2 DEF SessionInv, OnePerSession
<1> QED BY <1>4, <1>5, <1>6 DEF OnePerSession

LEMMA SessionStep == SessionInv /\ [Next]_vars => SessionInv'
<1> SUFFICES ASSUME SessionInv, [Next]_vars PROVE SessionInv'  OBVIOUS
<1>0. TypeInv /\ TypeInv'
  BY TypeStep DEF SessionInv
<1>t. /\ (hotplug_lock = None) <=> (work.step = "none")
      /\ work \in Works /\ attached \in [Devs -> BOOLEAN] /\ usb_devs \subseteq Devs
      /\ op \in [Users -> Ops]
  <2>1. usb_devs \subseteq Devs
    BY <1>0, UsbDevicesAssumption DEF TypeInv, DevicesTypeOK, Devs
  <2> QED BY <1>0, <2>1 DEF TypeInv, DevicesTypeOK
<1> USE DEF busVars, devVars, lockVars, eventVars, cbVars, userVars
<1>1. ASSUME InitBackend PROVE SessionInv'
  BY <1>0, <1>1 DEF InitBackend, SessionInv, OnePerSession
<1>2. ASSUME ScanStart PROVE SessionInv'
  <2>1. work'.step = "scan" /\ work.step = "none"
    BY <1>2, <1>t DEF ScanStart, Work
  <2> QED BY <1>0, <1>2, <2>1 DEF ScanStart, SessionInv, OnePerSession
<1>3. ASSUME ScanDevice PROVE SessionInv'
  <2>1. PICK s \in work.todo : /\ work' = [work EXCEPT !.todo = @ \ {s}]
                               /\ IF Addable(s) THEN linux_enumerate_device(s)
                                  ELSE UNCHANGED devVars
    BY <1>3 DEF ScanDevice
  <2>2. work.step = "scan" /\ work'.step = "scan" /\ phase' = phase
    BY <1>3, <1>t, <2>1 DEF ScanDevice, Works
  <2>3. s \in Sessions
    BY <1>t DEF Works
  <2>4. CASE Addable(s)
    BY <1>0, <2>1, <2>2, <2>3, <2>4, EnumerateKeeps DEF SessionInv
  <2>5. CASE ~Addable(s)
    BY <1>0, <2>1, <2>2, <2>5 DEF SessionInv, OnePerSession
  <2> QED BY <2>4, <2>5
<1>4. ASSUME ScanEnd PROVE SessionInv'
  <2>1. work.step = "scan" /\ work'.step = "none" /\ phase' = "scanned"
    BY <1>4, WorkTypes DEF ScanEnd
  <2> QED BY <1>0, <1>4, <2>1 DEF ScanEnd, SessionInv, OnePerSession
<1>5. ASSUME InitIo PROVE SessionInv'
  BY <1>0, <1>5 DEF InitIo, SessionInv, OnePerSession
<1>6. ASSUME MonitorLocks PROVE Elsewhen
  BY <1>6, <1>t, WorkTypes DEF MonitorLocks, Begin, Elsewhen
<1>7. ASSUME HandlerLocks PROVE Elsewhen
  <2>1. CASE UNCHANGED work
    BY <1>7, <2>1 DEF HandlerLocks, Elsewhen
  <2>2. CASE work' # work
    <3>1. work' = Finding(session[message.dev]) /\ work.step = "none"
      BY <1>7, <1>t, <2>2 DEF HandlerLocks, Begin
    <3>2. work'.step = "find"
      BY <3>1 DEF Finding, Work
    <3> QED BY <1>7, <3>1, <3>2 DEF HandlerLocks, Elsewhen
  <2> QED BY <2>1, <2>2
<1>8. ASSUME ReadNone PROVE Elsewhen
  BY <1>0, <1>8, ReleaseEnds, EndedIsElsewhen DEF ReadNone
<1>9. ASSUME ReadRemove PROVE Elsewhen
  BY <1>9 DEF ReadRemove, Elsewhen, Finding, Work
<1>10. ASSUME ReadAdd PROVE SessionInv'
  <2>1. work.step = "read" /\ phase' = phase
    BY <1>10 DEF ReadAdd
  <2>2. CASE Addable(Head(netlink)[2])
    <3>1. linux_enumerate_device(Head(netlink)[2]) /\ work'.step = "arrive"
      BY <1>10, <2>2 DEF ReadAdd, Work
    <3>2. Head(netlink)[2] \in Sessions
      BY <1>0, <1>10 DEF ReadAdd, TypeInv, DevicesTypeOK
    <3> QED BY <1>0, <2>1, <2>2, <3>1, <3>2, EnumerateKeeps DEF SessionInv
  <2>3. CASE ~Addable(Head(netlink)[2])
    <3>1. WorkDone /\ UNCHANGED devVars
      BY <1>10, <2>3 DEF ReadAdd
    <3> QED BY <1>0, <2>1, <3>1, WorkDoneEnds, EndedIsElsewhen, ElsewhenKeeps
  <2> QED BY <2>2, <2>3
<1>11. ASSUME Arrive PROVE Elsewhen
  BY <1>0, <1>11, WorkDoneEnds, EndedIsElsewhen DEF Arrive
<1>12. ASSUME Find PROVE Elsewhen
  <2>1. CASE WorkDone
    BY <1>0, <1>12, <2>1, WorkDoneEnds, EndedIsElsewhen DEF Find
  <2>2. CASE ~WorkDone
    <3>1. \E d \in usb_devs : work' = Work("detach", d, {})
      BY <1>12, <2>2 DEF Find, WithSession
    <3>2. work'.step = "detach"
      BY <3>1 DEF Work
    <3> QED BY <1>12, <3>2 DEF Find, Elsewhen
  <2> QED BY <2>1, <2>2
<1>13. ASSUME Detach PROVE SessionInv'
  <2>1. work.dev \in Devs /\ work'.step = "delist" /\ work'.dev = work.dev
    BY <1>0, <1>13, <1>t, WorkGoes DEF Detach, TypeInv, WorkIsLocked
  <2>2. /\ ~attached'[work.dev]
        /\ \A d \in Devs : d # work.dev => attached'[d] = attached[d]
    BY <1>13, <1>t, <2>1 DEF Detach
  <2>3. UNCHANGED <<session, usb_devs, phase>> /\ work.step = "detach"
    BY <1>13 DEF Detach
  <2> QED BY <1>0, <1>t, <2>1, <2>2, <2>3 DEF SessionInv, OnePerSession
<1>14. ASSUME Delist PROVE SessionInv'
  <2>1. work.step = "delist" /\ work'.step = "leave" /\ work'.dev = work.dev
    BY <1>14, <1>t, WorkGoes DEF Delist
  <2>2. usb_devs' = usb_devs \ {work.dev} /\ UNCHANGED <<session, attached, phase>>
    BY <1>14 DEF Delist
  <2> QED BY <1>0, <2>1, <2>2 DEF SessionInv, OnePerSession
<1>15. ASSUME Leave PROVE Elsewhen
  BY <1>15, <1>t, WorkGoes DEF Leave, Elsewhen
<1>16. ASSUME Unref PROVE Elsewhen
  BY <1>0, <1>16, WorkDoneEnds, EndedIsElsewhen DEF Unref
<1>17. ASSUME Handling PROVE Elsewhen
  BY <1>17 DEF Handling, TakeMessage, usbi_hotplug_match, EndMessage, HandleError,
               Elsewhen
<1>18. ASSUME Exit PROVE SessionInv'
  <2>1. work.step = "none" /\ UNCHANGED <<work, session, attached>>
    BY <1>18, <1>t DEF Exit
  <2> QED BY <1>0, <1>18, <2>1 DEF Exit, SessionInv, OnePerSession
<1>19. ASSUME NEW s \in Sessions, Plug(s) \/ Unplug(s) PROVE Elsewhen
  BY <1>19 DEF Plug, Unplug, Elsewhen
<1>20. ASSUME NEW u \in Users, User(u) PROVE Elsewhen
  <2>1. ASSUME PollLocks(u) PROVE Elsewhen
    BY <1>t, <2>1, WorkTypes DEF PollLocks, Begin, Elsewhen
  <2>2. ASSUME OpenFailedLocks(u) PROVE Elsewhen
    <3>1. CASE UNCHANGED work
      BY <2>2, <3>1 DEF OpenFailedLocks, Elsewhen
    <3>2. CASE work' # work
      <4>1. work' = Finding(session[op[u].dev]) /\ work.step = "none"
        BY <1>t, <2>2, <3>2 DEF OpenFailedLocks, Begin
      <4>2. work'.step = "find"
        BY <4>1 DEF Finding, Work
      <4> QED BY <2>2, <4>1, <4>2 DEF OpenFailedLocks, Elsewhen
    <3> QED BY <3>1, <3>2
  <2>3. ASSUME Continue(u), ~PollLocks(u), ~OpenFailedLocks(u) PROVE Elsewhen
    BY <2>3 DEF Continue, TakeList, OpenRef, OpenBackend, OpenUnref, TellRegistered,
                ToldRegistered, RegisterEnd, FreeWhen, FreeListed, Elsewhen
  <2>4. ASSUME User(u), ~Continue(u) PROVE Elsewhen
    BY <2>4 DEF User, GetDeviceList, Open, Close, FreeWhen, FreeListed, Register,
                Deregister, Elsewhen
  <2> QED BY <1>20, <2>1, <2>2, <2>3, <2>4
<1>21. ASSUME UNCHANGED vars PROVE Elsewhen
  BY <1>21 DEF vars, Elsewhen
<1> QED
  BY <1>0, <1>1, <1>2, <1>3, <1>4, <1>5, <1>6, <1>7, <1>8, <1>9, <1>10, <1>11, <1>12,
     <1>13, <1>14, <1>15, <1>16, <1>17, <1>18, <1>19, <1>20, <1>21, ElsewhenKeeps
  DEF Next, Starting, Working

(* There is never more than one device for a session in the list, whoever  *)
(* finds out first that a device has gone and whatever has been plugged in *)
(* in its place.                                                           *)
THEOREM OnePerSessionCorrect == DevicesSpec => []OnePerSession
<1>1. DevicesInit => SessionInv
  BY TypeInit DEF DevicesInit, SessionInv, OnePerSession, NoWork, Work, Devs
<1>2. SessionInv => OnePerSession
  BY DEF SessionInv
<1> QED BY <1>1, SessionStep, <1>2, PTL DEF DevicesSpec

-----------------------------------------------------------------------------
(* References.  What a user does is told by its step; work is on a device  *)
(* in the list until it takes it off; the device of an error is open.      *)
UserInv ==
  \A u \in Users :
    /\ op[u].step \in {"poll", "list"} => lists[u] = {}
    /\ op[u].step = "ref" => op[u].dev \in lists[u]
    /\ op[u].step \in {"ref", "open", "failed", "unref"} => handles[u] = NoDev
    /\ op[u].dev # NoDev => op[u].step \in {"ref", "open", "failed", "unref"}

PlaceInv ==
  /\ work.step \in {"arrive", "detach", "delist"} => work.dev \in usb_devs
  /\ hotplug_lock = "handler" => message.event = "POLLERR"
  /\ message.event = "POLLERR" => \E u \in Users : handles[u] = message.dev

(* The list's reference on its way to the message.                         *)
Departing(d) == work.dev = d /\ work.step = "leave"

(* A device leaves once, and after each arrival that is still to be told:  *)
(* until then the list, or the message that it leaves, has a reference.    *)
LeftLater(d, i) == \E j \in DOMAIN hotplug_msgs : j > i /\ hotplug_msgs[j] = Left(d)

QueueInv ==
  /\ phase # "ready" => hotplug_msgs = <<>> /\ message = NoMessage
  /\ \A i, j \in DOMAIN hotplug_msgs :
       hotplug_msgs[i].event = "LEFT" /\ hotplug_msgs[j] = hotplug_msgs[i] => i = j
  /\ \A d \in Devs, i \in DOMAIN hotplug_msgs :
       hotplug_msgs[i] = Arrived(d) => d \in usb_devs \/ Departing(d) \/ LeftLater(d, i)
  /\ \A d \in Devs :
       message = Arrived(d) => d \in usb_devs \/ Departing(d) \/ Leaving(d)

Counted(d) ==
  refcnt[d] = FirstReference(d) + One(LookedUp(d)) + Cardinality(Listing(d))
                + Cardinality(Having(d)) + Cardinality(Opening(d))

CountInv ==
  \A d \in Devs :
    FirstReference(d) \in {0, 1} /\ Counted(d) /\ (d > allocated => refcnt[d] = 0)

RefsInv == TypeInv /\ UserInv /\ PlaceInv /\ QueueInv /\ CountInv

LEMMA TypeFacts ==
  ASSUME TypeInv
  PROVE /\ work \in Works /\ op \in [Users -> Ops] /\ usb_devs \subseteq Devs
        /\ usb_devs \subseteq 1..allocated
        /\ lists \in [Users -> SUBSET Devs] /\ handles \in [Users -> Devs \cup {NoDev}]
        /\ refcnt \in [Devs -> Int] /\ leaked \subseteq Devs /\ allocated \in Nat
        /\ hotplug_msgs \in Seq(Messages) /\ (hotplug_lock = None <=> work.step = "none")
        /\ message \in Messages \cup {NoMessage} \cup {PollError(d) : d \in Devs}
        /\ Devs \subseteq Nat /\ NoDev \notin Devs
<1>1. usb_devs \subseteq Devs
  BY UsbDevicesAssumption DEF TypeInv, DevicesTypeOK, Devs
<1> QED BY <1>1, UsbDevicesAssumption DEF TypeInv, DevicesTypeOK, Devs, NoDev

(* The terms of the count.                                                 *)
LEMMA Terms ==
  ASSUME NEW d
  PROVE /\ IsFiniteSet(Listing(d)) /\ Cardinality(Listing(d)) \in Nat
        /\ IsFiniteSet(Having(d)) /\ Cardinality(Having(d)) \in Nat
        /\ IsFiniteSet(Opening(d)) /\ Cardinality(Opening(d)) \in Nat
        /\ One(LookedUp(d)) \in {0, 1} /\ FirstReference(d) \in Nat
<1>1. IsFiniteSet(Users)
  BY UsbDevicesAssumption
<1>2. /\ Listing(d) \in SUBSET Users /\ Having(d) \in SUBSET Users
      /\ Opening(d) \in SUBSET Users
  BY DEF Listing, Having, Opening
<1>3. IsFiniteSet(Listing(d)) /\ IsFiniteSet(Having(d)) /\ IsFiniteSet(Opening(d))
  BY <1>1, <1>2, FS_Subset
<1> QED BY <1>3, FS_CardinalityType DEF One, FirstReference

LEMMA FirstIs ==
  ASSUME NEW d, FirstReference(d) \in {0, 1}
  PROVE /\ FirstReference(d) = 1 <=> \/ d \in usb_devs \/ Departing(d) \/ Leaving(d)
                                     \/ message = Left(d) \/ d \in leaked
        /\ d \in usb_devs => ~Departing(d) /\ ~Leaving(d) /\ message # Left(d) /\ d \notin leaked
        /\ Departing(d) => ~Leaving(d) /\ message # Left(d) /\ d \notin leaked
        /\ Leaving(d) => message # Left(d) /\ d \notin leaked
        /\ message = Left(d) => d \notin leaked
BY DEF FirstReference, One, Departing

(* A device that anybody refers to has not been freed.                     *)
LEMMA ReferredIsLive ==
  ASSUME TypeInv, CountInv, NEW d \in Devs,
         \/ d \in usb_devs \/ Departing(d) \/ Leaving(d) \/ message = Left(d) \/ d \in leaked
         \/ LookedUp(d) \/ \E u \in Users : u \in Listing(d) \cup Having(d) \cup Opening(d)
  PROVE refcnt[d] > 0 /\ d <= allocated
<1>1. FirstReference(d) \in {0, 1} /\ Counted(d) /\ (d > allocated => refcnt[d] = 0)
  BY DEF CountInv
<1>2. \/ FirstReference(d) = 1 \/ One(LookedUp(d)) = 1
      \/ Listing(d) # {} \/ Having(d) # {} \/ Opening(d) # {}
  BY <1>1, FirstIs DEF One
<1>3. \/ FirstReference(d) = 1 \/ One(LookedUp(d)) = 1 \/ Cardinality(Listing(d)) # 0
      \/ Cardinality(Having(d)) # 0 \/ Cardinality(Opening(d)) # 0
  BY <1>2, Terms, FS_EmptySet
<1> QED BY <1>1, <1>3, Terms, TypeFacts, SMTT(30) DEF Counted

(* Steps that leave a part of the count alone.                             *)
Opens(u, d) == op[u].dev = d /\ op[u].step \in {"open", "failed", "unref"}

UsersSame ==
  /\ UNCHANGED <<lists, handles>>
  /\ \A u \in Users, d \in Devs : Opens(u, d)' <=> Opens(u, d)

LEMMA UsersSameCount ==
  ASSUME UsersSame, NEW d \in Devs
  PROVE Listing(d)' = Listing(d) /\ Having(d)' = Having(d) /\ Opening(d)' = Opening(d)
BY DEF UsersSame, Listing, Having, Opening, Opens

WorkSame == \A d \in Devs : (LookedUp(d)' <=> LookedUp(d)) /\ (Departing(d)' <=> Departing(d))

MessageSame == \A d \in Devs : message' = Left(d) <=> message = Left(d)

QueueSame == \A d \in Devs : Leaving(d)' <=> Leaving(d)

LEMMA FirstSame ==
  ASSUME WorkSame, MessageSame, QueueSame, UNCHANGED <<usb_devs, leaked>>, NEW d \in Devs
  PROVE FirstReference(d)' = FirstReference(d)
<1>1. (d \in usb_devs') <=> (d \in usb_devs)  OBVIOUS
<1>2. (d \in leaked') <=> (d \in leaked)  OBVIOUS
<1>3. Departing(d)' <=> Departing(d)
  BY DEF WorkSame
<1> QED BY <1>1, <1>2, <1>3 DEF WorkSame, MessageSame, QueueSame, FirstReference, One,
        Departing

Quiet ==
  /\ UsersSame /\ WorkSame /\ MessageSame /\ QueueSame
  /\ UNCHANGED <<refcnt, usb_devs, leaked, allocated>>

LEMMA QuietKeepsCount ==
  ASSUME CountInv, Quiet PROVE CountInv'
<1> SUFFICES ASSUME NEW d \in Devs
             PROVE /\ FirstReference(d)' \in {0, 1} /\ Counted(d)'
                   /\ (d > allocated => refcnt[d] = 0)'
  BY DEF CountInv
<1>1. FirstReference(d) \in {0, 1} /\ Counted(d) /\ (d > allocated => refcnt[d] = 0)
  BY DEF CountInv
<1>2. FirstReference(d)' = FirstReference(d)
  BY FirstSame DEF Quiet
<1>3. LookedUp(d)' <=> LookedUp(d)
  BY DEF Quiet, WorkSame
<1>4. Listing(d)' = Listing(d) /\ Having(d)' = Having(d) /\ Opening(d)' = Opening(d)
  BY UsersSameCount DEF Quiet
<1>5. UNCHANGED <<refcnt, allocated>>
  BY DEF Quiet
<1> QED BY <1>1, <1>2, <1>3, <1>4, <1>5 DEF Counted, One

LEMMA EndedMessage ==
  ASSUME TypeInv, PlaceInv, Release \/ WorkDone
  PROVE /\ WorkEnded
        /\ message' = message \/ (message.event = "POLLERR" /\ message' = NoMessage)
        /\ UNCHANGED <<hotplug_lock, message>> \/ hotplug_lock' = None
<1>1. WorkEnded
  BY ReleaseEnds, WorkDoneEnds
<1>2. CASE Release
  BY <1>1, <1>2 DEF Release, PlaceInv
<1>3. CASE ~Release
  BY <1>1, <1>3 DEF WorkDone
<1> QED BY <1>1, <1>2, <1>3

(* What the end of the work, or a step that leaves them alone, does to the *)
(* users.                                                                  *)
LEMMA EndedUsers ==
  ASSUME WorkEnded
  PROVE /\ \A u \in Users, d \in Devs : Opens(u, d)' <=> Opens(u, d)
        /\ \A d \in Devs : ~LookedUp(d)' /\ ~Departing(d)'
        /\ UserInv /\ UNCHANGED <<lists, handles>> => UserInv'
<1>1. ASSUME NEW u \in Users, NEW d \in Devs PROVE Opens(u, d)' <=> Opens(u, d)
  BY DEF WorkEnded, Opens
<1>2. work'.step \in {"none", "read"}
  BY DEF WorkEnded
<1>3. ASSUME UserInv, UNCHANGED <<lists, handles>> PROVE UserInv'
  BY <1>3 DEF WorkEnded, UserInv
<1> QED BY <1>1, <1>2, <1>3 DEF LookedUp, Departing

LEMMA UserStep == TypeInv /\ UserInv /\ [Next]_vars => UserInv'
<1> SUFFICES ASSUME TypeInv, UserInv, [Next]_vars PROVE UserInv'  OBVIOUS
<1>t. /\ op \in [Users -> Ops] /\ lists \in [Users -> SUBSET Devs]
      /\ handles \in [Users -> Devs \cup {NoDev}]
  BY TypeFacts
<1> USE DEF busVars, devVars, lockVars, eventVars, cbVars, userVars
<1>1. ASSUME UNCHANGED <<op, lists, handles>> PROVE UserInv'
  BY <1>1 DEF UserInv
<1>2. ASSUME WorkEnded, UNCHANGED <<lists, handles>> PROVE UserInv'
  BY <1>2, EndedUsers
<1>3. ASSUME Starting \/ MonitorLocks \/ HandlerLocks \/ Handling \/ Exit
      PROVE UNCHANGED <<op, lists, handles>>
  <2>1. CASE Starting
    BY <2>1 DEF Starting, InitBackend, ScanStart, ScanDevice, ScanEnd, InitIo
  <2>2. CASE MonitorLocks \/ HandlerLocks \/ Exit
    BY <2>2 DEF MonitorLocks, HandlerLocks, Exit
  <2>3. CASE Handling
    BY <2>3 DEF Handling, TakeMessage, usbi_hotplug_match, EndMessage, HandleError
  <2> QED BY <1>3, <2>1, <2>2, <2>3
<1>4. ASSUME NEW s \in Sessions, Plug(s) \/ Unplug(s) PROVE UNCHANGED <<op, lists, handles>>
  BY <1>4 DEF Plug, Unplug
<1>5. ASSUME Working
      PROVE \/ UNCHANGED <<op, lists, handles>>
            \/ WorkEnded /\ UNCHANGED <<lists, handles>>
  <2>1. ASSUME ReadNone PROVE WorkEnded /\ UNCHANGED <<lists, handles>>
    BY <2>1, ReleaseEnds DEF ReadNone
  <2>2. ASSUME ReadRemove \/ Detach \/ Delist \/ Leave PROVE UNCHANGED <<op, lists, handles>>
    BY <2>2 DEF ReadRemove, Detach, Delist, Leave
  <2>3. ASSUME ReadAdd
        PROVE \/ UNCHANGED <<op, lists, handles>>
              \/ WorkEnded /\ UNCHANGED <<lists, handles>>
    BY <2>3, WorkDoneEnds DEF ReadAdd
  <2>4. ASSUME Arrive \/ Unref PROVE WorkEnded /\ UNCHANGED <<lists, handles>>
    BY <2>4, WorkDoneEnds DEF Arrive, Unref
  <2>5. ASSUME Find
        PROVE \/ UNCHANGED <<op, lists, handles>>
              \/ WorkEnded /\ UNCHANGED <<lists, handles>>
    <3>1. UNCHANGED <<lists, handles>> /\ (UNCHANGED op \/ WorkDone)
      BY <2>5 DEF Find
    <3> QED BY <3>1, WorkDoneEnds
  <2> QED BY <1>5, <2>1, <2>2, <2>3, <2>4, <2>5 DEF Working
<1>6. ASSUME NEW u \in Users, User(u) PROVE UserInv'
  <2>0. ASSUME OpKept(u), \A v \in Users : v # u => lists'[v] = lists[v] /\ handles'[v] = handles[v],
               /\ op'[u].step \in {"poll", "list"} => lists'[u] = {}
               /\ op'[u].step = "ref" => op'[u].dev \in lists'[u]
               /\ op'[u].step \in {"ref", "open", "failed", "unref"} => handles'[u] = NoDev
               /\ op'[u].dev # NoDev => op'[u].step \in {"ref", "open", "failed", "unref"}
        PROVE UserInv'
    BY <2>0 DEF OpKept, UserInv
  <2>1. ASSUME PollLocks(u) PROVE UserInv'
    BY <1>1, <2>1 DEF PollLocks
  <2>2. ASSUME OpenFailedLocks(u) PROVE UserInv'
    <3>1. UNCHANGED <<lists, handles>> /\ op[u].step = "failed"
      BY <2>2 DEF OpenFailedLocks
    <3>2. CASE UNCHANGED op
      BY <1>1, <3>1, <3>2
    <3>3. CASE op' = [op EXCEPT ![u].step = "unref"]
      <4>1. OpKept(u) /\ op'[u].step = "unref" /\ op'[u].dev = op[u].dev
        BY <1>t, <3>3, OpGoes DEF Go
      <4> QED BY <2>0, <3>1, <4>1 DEF UserInv
    <3> QED BY <2>2, <3>2, <3>3 DEF OpenFailedLocks
  <2>3. ASSUME TakeList(u) PROVE UserInv'
    <3>0. usb_devs \subseteq Devs
      BY TypeFacts
    <3>1. /\ op[u].step = "list" /\ handles' = handles
          /\ \A v \in Users : v # u => lists'[v] = lists[v]
          /\ \/ op' = [op EXCEPT ![u] = Idle]
             \/ op' = [op EXCEPT ![u] = [@ EXCEPT !.step = "tell", !.todo = usb_devs]]
      <4>1. op' = [op EXCEPT ![u] = IF @.cb = None THEN Idle
                                    ELSE [@ EXCEPT !.step = "tell", !.todo = usb_devs]]
        BY <2>3 DEF TakeList
      <4>2. CASE op[u].cb = None
        BY <1>t, <2>3, <4>1, <4>2 DEF TakeList, At
      <4>3. CASE op[u].cb # None
        BY <1>t, <2>3, <4>1, <4>3 DEF TakeList, At
      <4> QED BY <4>2, <4>3
    <3>2. OpKept(u) /\ op'[u].step \in {"idle", "tell"} /\ op'[u].dev \in {NoDev, op[u].dev}
      BY <1>t, <3>0, <3>1, OpEnds, OpTells
    <3> QED BY <2>0, <3>1, <3>2 DEF UserInv
  <2>4. ASSUME OpenRef(u) PROVE UserInv'
    <3>1. op[u].step = "ref" /\ UNCHANGED <<lists, handles>>
      BY <2>4 DEF OpenRef, At
    <3>2. OpKept(u) /\ op'[u].step = "open" /\ op'[u].dev = op[u].dev
      BY <1>t, <2>4, OpGoes DEF OpenRef
    <3> QED BY <2>0, <3>1, <3>2 DEF UserInv
  <2>5. ASSUME OpenBackend(u) PROVE UserInv'
    <3>1. op[u].step = "open" /\ UNCHANGED lists
      BY <2>5 DEF OpenBackend, At
    <3>2. CASE session[op[u].dev] \in bus
      <4>1. OpKept(u) /\ op'[u].step = "idle" /\ op'[u].dev = NoDev
        BY <1>t, <2>5, <3>2, OpEnds DEF OpenBackend
      <4>2. \A v \in Users : v # u => handles'[v] = handles[v]
        BY <1>t, <2>5, <3>2 DEF OpenBackend
      <4> QED BY <2>0, <3>1, <4>1, <4>2
    <3>3. CASE session[op[u].dev] \notin bus
      <4>1. OpKept(u) /\ op'[u].step = "failed" /\ op'[u].dev = op[u].dev /\ UNCHANGED handles
        BY <1>t, <2>5, <3>3, OpGoes DEF OpenBackend
      <4> QED BY <2>0, <3>1, <4>1 DEF UserInv
    <3> QED BY <3>2, <3>3
  <2>6. ASSUME OpenUnref(u) \/ RegisterEnd(u) PROVE UserInv'
    <3>1. UNCHANGED <<lists, handles>> /\ op' = [op EXCEPT ![u] = Idle]
      BY <2>6 DEF OpenUnref, RegisterEnd
    <3>2. OpKept(u) /\ op'[u].step = "idle" /\ op'[u].dev = NoDev
      BY <1>t, <3>1, OpEnds
    <3> QED BY <2>0, <3>1, <3>2
  <2>7. ASSUME TellRegistered(u) PROVE UserInv'
    <3>1. UNCHANGED <<lists, handles>> /\ op[u].step = "tell"
      BY <2>7 DEF TellRegistered, At
    <3>2. OpKept(u) /\ op'[u].step = op[u].step /\ op'[u].dev = op[u].dev
      BY <1>t, <2>7, OpHasTold DEF TellRegistered
    <3> QED BY <2>0, <3>1, <3>2 DEF UserInv
  <2>8. ASSUME ToldRegistered(u) PROVE UserInv'
    <3>1. UNCHANGED <<lists, handles>> /\ op[u].step = "tell"
      BY <2>8 DEF ToldRegistered, At
    <3>2. OpKept(u) /\ op'[u].step = "free" /\ op'[u].dev = op[u].dev
      BY <1>t, <2>8, OpGoes DEF ToldRegistered
    <3> QED BY <2>0, <3>1, <3>2 DEF UserInv
  <2>9. ASSUME FreeListed(u), At(u, "free") \/ Ready(u) PROVE UserInv'
    <3>1. /\ UNCHANGED <<op, handles>> /\ op[u].step \in {"free", "idle"}
          /\ \A v \in Users : v # u => lists'[v] = lists[v]
      BY <1>t, <2>9 DEF FreeListed, At, Ready
    <3> QED BY <1>t, <2>0, <3>1 DEF OpKept, UserInv
  <2>10. ASSUME GetDeviceList(u) PROVE UserInv'
    <3>1. UNCHANGED <<lists, handles>> /\ op[u].step = "idle" /\ lists[u] = {}
      BY <2>10 DEF GetDeviceList, Ready, At
    <3>2. OpKept(u) /\ op'[u].step = "poll" /\ op'[u].dev = op[u].dev
      BY <1>t, <2>10, OpGoes DEF GetDeviceList
    <3> QED BY <2>0, <3>1, <3>2 DEF UserInv
  <2>11. ASSUME Open(u) PROVE UserInv'
    <3>1. PICK d \in lists[u] : op' = [op EXCEPT ![u] = Op("ref", d, None)]
      BY <2>11 DEF Open
    <3>2. UNCHANGED <<lists, handles>> /\ handles[u] = NoDev /\ d \in Devs
      BY <1>t, <2>11 DEF Open
    <3>3. OpKept(u) /\ op'[u].step = "ref" /\ op'[u].dev = d
      BY <1>t, <3>1, <3>2, OpOpens
    <3> QED BY <2>0, <3>1, <3>2, <3>3
  <2>12. ASSUME Close(u) PROVE UserInv'
    <3>1. /\ UNCHANGED <<op, lists>> /\ op[u].step = "idle"
          /\ \A v \in Users : v # u => handles'[v] = handles[v]
      BY <1>t, <2>12 DEF Close, Ready, At
    <3> QED BY <1>t, <2>0, <3>1 DEF OpKept, UserInv
  <2>13. ASSUME NEW c \in Callbacks, Register(u, c) PROVE UserInv'
    <3>1. UNCHANGED <<lists, handles>> /\ lists[u] = {}
      BY <2>13 DEF Register
    <3>2. OpKept(u) /\ op'[u].step = "poll" /\ op'[u].dev = NoDev
      BY <1>t, <2>13, OpRegisters DEF Register
    <3> QED BY <2>0, <3>1, <3>2
  <2>14. ASSUME NEW c \in Callbacks, Deregister(u, c) PROVE UserInv'
    BY <1>1, <2>14 DEF Deregister
  <2> QED BY <1>6, <2>1, <2>2, <2>3, <2>4, <2>5, <2>6, <2>7, <2>8, <2>9, <2>10, <2>11,
             <2>12, <2>13, <2>14 DEF User, Continue, FreeWhen
<1>7. ASSUME UNCHANGED vars PROVE UNCHANGED <<op, lists, handles>>
  BY <1>7 DEF vars
<1> QED BY <1>1, <1>2, <1>3, <1>4, <1>5, <1>6, <1>7 DEF Next

LEMMA EventsDiffer ==
  /\ \A m \in Messages : m.event # "POLLERR"
  /\ NoMessage.event # "POLLERR" /\ NoMessage \notin Messages
  /\ \A d \in Devs : /\ NoMessage # Left(d) /\ NoMessage # Arrived(d)
                     /\ Deregistered # Left(d) /\ Deregistered # Arrived(d)
                     /\ \A e \in Devs : /\ Left(e) # Arrived(d)
                                        /\ PollError(e) # Left(d) /\ PollError(e) # Arrived(d)
                                        /\ Left(e) = Left(d) => e = d
                                        /\ Arrived(e) = Arrived(d) => e = d
<1>1. ASSUME NEW m \in Messages PROVE m.event \in {"NONE", "ARRIVED", "LEFT"}
  <2>1. CASE m = Deregistered
    BY <2>1, MessageTypes
  <2>2. CASE m.dev \in Devs /\ (m = Arrived(m.dev) \/ m = Left(m.dev))
    BY <2>2, MessageTypes
  <2> QED BY <2>1, <2>2, MessageCases
<1>2. \A m \in Messages : m.event # "POLLERR" /\ m.event # "no message"
  BY <1>1
<1>3. NoMessage.event = "no message" /\ NoMessage \notin Messages
  BY <1>2, MessageTypes
<1>4. ASSUME NEW d \in Devs
      PROVE /\ NoMessage # Left(d) /\ NoMessage # Arrived(d)
            /\ Deregistered # Left(d) /\ Deregistered # Arrived(d)
  BY MessageTypes
<1>5. ASSUME NEW d \in Devs, NEW e \in Devs
      PROVE /\ Left(e) # Arrived(d) /\ PollError(e) # Left(d) /\ PollError(e) # Arrived(d)
            /\ (Left(e) = Left(d) => e = d) /\ (Arrived(e) = Arrived(d) => e = d)
  <2>1. /\ Left(e).event = "LEFT" /\ Left(d).event = "LEFT" /\ Arrived(d).event = "ARRIVED"
        /\ PollError(e).event = "POLLERR"
    BY MessageTypes
  <2>2. Left(e).dev = e /\ Left(d).dev = d /\ Arrived(e).dev = e /\ Arrived(d).dev = d
    BY MessageTypes
  <2>3. Left(e) # Arrived(d) /\ PollError(e) # Left(d) /\ PollError(e) # Arrived(d)
    BY <2>1
  <2> QED BY <2>2, <2>3
<1> QED BY <1>2, <1>3, <1>4, <1>5

LEMMA PlaceStep == TypeInv /\ UserInv /\ PlaceInv /\ [Next]_vars => PlaceInv'
<1> SUFFICES ASSUME TypeInv, UserInv, PlaceInv, [Next]_vars PROVE PlaceInv'  OBVIOUS
<1>t. /\ work \in Works /\ usb_devs \subseteq Devs
      /\ handles \in [Users -> Devs \cup {NoDev}] /\ NoDev \notin Devs
      /\ hotplug_msgs \in Seq(Messages) /\ (hotplug_lock = None <=> work.step = "none")
  BY TypeFacts
<1>l. None \notin Users /\ None # "handler" /\ "handler" \notin Users
  BY UsbDevicesAssumption
<1> USE DEF busVars, devVars, lockVars, eventVars, cbVars, userVars
(* The three parts in steps that do not disturb them.                       *)
<1>a. ASSUME work'.step \notin {"arrive", "detach", "delist"} \/ UNCHANGED <<work, usb_devs>>,
             hotplug_lock' # "handler" \/ UNCHANGED <<hotplug_lock, message>>,
             message'.event # "POLLERR" \/ UNCHANGED <<message, handles>>
      PROVE PlaceInv'
  BY <1>a DEF PlaceInv
<1>b. ASSUME Release \/ WorkDone, UNCHANGED handles PROVE PlaceInv'
  <2>1. /\ WorkEnded
        /\ message' = message \/ (message.event = "POLLERR" /\ message' = NoMessage)
        /\ UNCHANGED <<hotplug_lock, message>> \/ hotplug_lock' = None
    BY <1>b, EndedMessage
  <2>2. work'.step \in {"none", "read"}
    BY <2>1 DEF WorkEnded
  <2> QED BY <1>a, <1>b, <1>l, <2>1, <2>2, EventsDiffer
<1>1. ASSUME Starting PROVE PlaceInv'
  <2>1. CASE InitBackend \/ InitIo
    BY <1>a, <2>1 DEF InitBackend, InitIo
  <2>2. CASE ScanStart
    <3>1. work'.step = "scan"
      BY <2>2 DEF ScanStart, Work
    <3> QED BY <1>a, <2>2, <3>1 DEF ScanStart
  <2>3. CASE ScanDevice
    <3>1. work'.step = "scan"
      BY <1>t, <2>3 DEF ScanDevice, Works
    <3> QED BY <1>a, <2>3, <3>1 DEF ScanDevice
  <2>4. CASE ScanEnd
    BY <1>a, <1>l, <2>4, WorkTypes DEF ScanEnd
  <2> QED BY <1>1, <2>1, <2>2, <2>3, <2>4 DEF Starting
<1>2. ASSUME MonitorLocks PROVE PlaceInv'
  BY <1>a, <1>2, WorkTypes DEF MonitorLocks, Begin
<1>3. ASSUME HandlerLocks PROVE PlaceInv'
  <2>1. CASE message' = NoMessage /\ UNCHANGED lockVars
    BY <1>3, <1>a, <1>l, <2>1, EventsDiffer DEF HandlerLocks
  <2>2. CASE Begin("handler", Finding(session[message.dev])) /\ UNCHANGED message
    <3>1. work'.step = "find"
      BY <2>2 DEF Begin, Finding, Work
    <3> QED BY <1>3, <2>2, <3>1 DEF HandlerLocks, PlaceInv
  <2> QED BY <1>3, <2>1, <2>2 DEF HandlerLocks
<1>4. ASSUME ReadNone \/ Arrive \/ Unref PROVE PlaceInv'
  BY <1>4, <1>b DEF ReadNone, Arrive, Unref
<1>5. ASSUME ReadRemove PROVE PlaceInv'
  <2>1. work'.step = "find"
    BY <1>5 DEF ReadRemove, Finding, Work
  <2> QED BY <1>5, <1>a, <2>1 DEF ReadRemove
<1>6. ASSUME ReadAdd PROVE PlaceInv'
  <2>1. CASE Addable(Head(netlink)[2])
    <3>1. work'.dev \in usb_devs' /\ UNCHANGED <<hotplug_lock, message, handles>>
      BY <1>6, <2>1 DEF ReadAdd, linux_enumerate_device, Work
    <3> QED BY <3>1 DEF PlaceInv
  <2>2. CASE ~Addable(Head(netlink)[2])
    BY <1>6, <1>b, <2>2 DEF ReadAdd
  <2> QED BY <2>1, <2>2
<1>7. ASSUME Find PROVE PlaceInv'
  <2>1. CASE WorkDone
    BY <1>7, <1>b, <2>1 DEF Find
  <2>2. CASE ~WorkDone
    <3>1. PICK d \in usb_devs : work' = Work("detach", d, {})
      BY <1>7, <2>2 DEF Find, WithSession
    <3>2. UNCHANGED <<hotplug_lock, message, handles, usb_devs>>
      BY <1>7, <2>2 DEF Find
    <3> QED BY <3>1, <3>2 DEF PlaceInv, Work
  <2> QED BY <2>1, <2>2
<1>8. ASSUME Detach PROVE PlaceInv'
  <2>1. work'.dev = work.dev /\ work.step = "detach"
    BY <1>8, <1>t, WorkGoes DEF Detach
  <2> QED BY <1>8, <2>1 DEF Detach, PlaceInv
<1>9. ASSUME Delist \/ Leave PROVE PlaceInv'
  <2>1. work'.step \in {"leave", "unref"}
    BY <1>9, <1>t, WorkGoes DEF Delist, Leave
  <2> QED BY <1>9, <1>a, <2>1 DEF Delist, Leave
<1>10. ASSUME Handling PROVE PlaceInv'
  <2>1. CASE TakeMessage
    <3>1. message'.event # "POLLERR" /\ message = NoMessage
      BY <1>t, <2>1, EventsDiffer DEF TakeMessage
    <3>2. hotplug_lock # "handler"
      BY <3>1, EventsDiffer DEF PlaceInv
    <3> QED BY <1>a, <2>1, <3>1, <3>2 DEF TakeMessage
  <2>2. CASE usbi_hotplug_match
    BY <1>a, <2>2 DEF usbi_hotplug_match
  <2>3. CASE EndMessage
    <3>1. message.event # "POLLERR" /\ message' = NoMessage
      BY <2>3, EventsDiffer DEF EndMessage
    <3>2. hotplug_lock # "handler"
      BY <3>1 DEF PlaceInv
    <3> QED BY <1>a, <2>3, <3>1, <3>2, EventsDiffer DEF EndMessage
  <2>4. ASSUME NEW u \in Users, HandleError(u) PROVE PlaceInv'
    <3>1. message = NoMessage /\ fd[u] = "error" /\ message' = PollError(handles[u])
      BY <2>4 DEF HandleError
    <3>2. handles[u] \in Devs
      BY <3>1 DEF TypeInv, WorkIsLocked
    <3>3. hotplug_lock # "handler"
      BY <3>1, EventsDiffer DEF PlaceInv
    <3>4. UNCHANGED <<work, usb_devs, hotplug_lock, handles>>
      BY <2>4 DEF HandleError
    <3> QED BY <3>1, <3>2, <3>3, <3>4, MessageTypes DEF PlaceInv
  <2> QED BY <1>10, <2>1, <2>2, <2>3, <2>4 DEF Handling
<1>11. ASSUME Exit PROVE PlaceInv'
  <2>1. work.step = "none"
    BY <1>11, <1>t DEF Exit
  <2> QED BY <1>11, <1>a, <2>1 DEF Exit
<1>12. ASSUME NEW s \in Sessions, Plug(s) \/ Unplug(s) PROVE PlaceInv'
  BY <1>12, <1>a DEF Plug, Unplug
<1>13. ASSUME NEW u \in Users, User(u) PROVE PlaceInv'
  <2>1. ASSUME PollLocks(u) PROVE PlaceInv'
    BY <1>a, <1>l, <2>1, WorkTypes DEF PollLocks, Begin
  <2>2. ASSUME OpenFailedLocks(u) PROVE PlaceInv'
    <3>1. CASE UNCHANGED lockVars
      BY <1>a, <2>2, <3>1 DEF OpenFailedLocks
    <3>2. CASE Begin(u, Finding(session[op[u].dev]))
      <4>1. work'.step = "find" /\ hotplug_lock' = u
        BY <3>2 DEF Begin, Finding, Work
      <4> QED BY <1>a, <1>l, <2>2, <4>1 DEF OpenFailedLocks
    <3> QED BY <2>2, <3>1, <3>2 DEF OpenFailedLocks
  <2>3. ASSUME OpenBackend(u) PROVE PlaceInv'
    <3>1. UNCHANGED <<work, usb_devs, hotplug_lock, message>> /\ handles[u] = NoDev
      BY <2>3 DEF OpenBackend, At, UserInv
    <3>2. \A v \in Users : v # u => handles'[v] = handles[v]
      BY <1>t, <2>3 DEF OpenBackend
    <3>3. ASSUME message'.event = "POLLERR" PROVE \E v \in Users : handles'[v] = message'.dev
      <4>1. message.dev \in Devs /\ \E v \in Users : handles[v] = message.dev
        BY <3>1, <3>3, PollDev DEF PlaceInv
      <4> QED BY <1>t, <3>1, <3>2, <4>1
    <3> QED BY <3>1, <3>3 DEF PlaceInv
  <2>4. ASSUME Close(u) PROVE PlaceInv'
    BY <1>a, <2>4, EventsDiffer DEF Close
  <2>5. ASSUME Continue(u), ~PollLocks(u), ~OpenFailedLocks(u), ~OpenBackend(u) PROVE PlaceInv'
    BY <1>a, <2>5 DEF Continue, TakeList, OpenRef, OpenUnref, TellRegistered,
                      ToldRegistered, RegisterEnd, FreeWhen, FreeListed
  <2>6. ASSUME User(u), ~Continue(u), ~Close(u) PROVE PlaceInv'
    BY <1>a, <2>6 DEF User, GetDeviceList, Open, FreeWhen, FreeListed, Register,
        Deregister
  <2> QED BY <1>13, <2>1, <2>2, <2>3, <2>4, <2>5, <2>6
<1>14. ASSUME UNCHANGED vars PROVE PlaceInv'
  BY <1>14, <1>a DEF vars
<1> QED BY <1>1, <1>2, <1>3, <1>4, <1>5, <1>6, <1>7, <1>8, <1>9, <1>10, <1>11, <1>12,
           <1>13, <1>14 DEF Next, Working

(* The queue in steps that leave it alone, and that append to it.          *)
Seated(d) == d \in usb_devs \/ Departing(d)

LEMMA QueueKept ==
  ASSUME QueueInv, UNCHANGED hotplug_msgs,
         phase' # "ready" => phase # "ready" /\ (message' = message \/ message' = NoMessage),
         \A d \in Devs : message' = Arrived(d) => message = Arrived(d),
         \A d \in Devs : Seated(d) => Seated(d)'
  PROVE QueueInv'
<1>1. phase' # "ready" => hotplug_msgs' = <<>> /\ message' = NoMessage
  BY DEF QueueInv
<1>2. \A i, j \in DOMAIN hotplug_msgs' :
        hotplug_msgs'[i].event = "LEFT" /\ hotplug_msgs'[j] = hotplug_msgs'[i] => i = j
  BY DEF QueueInv
<1>3. ASSUME NEW d \in Devs, NEW i \in DOMAIN hotplug_msgs', hotplug_msgs'[i] = Arrived(d)
      PROVE Seated(d)' \/ LeftLater(d, i)'
  BY <1>3 DEF QueueInv, Seated, LeftLater
<1>4. ASSUME NEW d \in Devs, message' = Arrived(d) PROVE Seated(d)' \/ Leaving(d)'
  BY <1>4 DEF QueueInv, Seated, Leaving
<1> QED BY <1>1, <1>2, <1>3, <1>4 DEF QueueInv, Seated

LEMMA Notified ==
  ASSUME TypeInv, NEW m \in Messages, Notify(m), phase = "ready"
  PROVE /\ hotplug_msgs' = Append(hotplug_msgs, m) /\ Len(hotplug_msgs) \in Nat
        /\ DOMAIN hotplug_msgs = 1..Len(hotplug_msgs)
        /\ DOMAIN hotplug_msgs' = 1..(Len(hotplug_msgs) + 1)
        /\ \A i \in 1..Len(hotplug_msgs) : hotplug_msgs'[i] = hotplug_msgs[i]
        /\ hotplug_msgs'[Len(hotplug_msgs) + 1] = m
<1>1. hotplug_msgs \in Seq(Messages) /\ hotplug_msgs' = Append(hotplug_msgs, m)
  BY TypeFacts DEF Notify
<1> QED BY <1>1

LEMMA QueueAppended ==
  ASSUME TypeInv, QueueInv, NEW m \in Messages, Notify(m), UNCHANGED phase,
         \A d \in Devs : message' = Arrived(d) => message = Arrived(d),
         phase # "ready" => message' = message \/ message' = NoMessage,
         m.event = "LEFT" => \A i \in DOMAIN hotplug_msgs : hotplug_msgs[i] # m,
         \A d \in Devs : m = Arrived(d) => Seated(d)',
         \A d \in Devs : Seated(d) => Seated(d)' \/ m = Left(d)
  PROVE QueueInv'
<1>1. CASE phase # "ready"
  <2>1. hotplug_msgs = <<>> /\ hotplug_msgs' = <<>> /\ message' = NoMessage
    BY <1>1 DEF QueueInv, Notify
  <2> QED BY <2>1, EventsDiffer DEF QueueInv
<1>2. CASE phase = "ready"
  <2> DEFINE n == Len(hotplug_msgs)
  <2>1. /\ n \in Nat /\ DOMAIN hotplug_msgs = 1..n /\ DOMAIN hotplug_msgs' = 1..(n + 1)
        /\ \A i \in 1..n : hotplug_msgs'[i] = hotplug_msgs[i]
        /\ hotplug_msgs'[n + 1] = m
    BY <1>2, Notified
  <2> HIDE DEF n
  <2>2. ASSUME NEW i \in 1..(n + 1), NEW j \in 1..(n + 1),
               hotplug_msgs'[i].event = "LEFT", hotplug_msgs'[j] = hotplug_msgs'[i]
        PROVE i = j
    <3>1. CASE i \in 1..n /\ j \in 1..n
      BY <2>1, <2>2, <3>1 DEF QueueInv
    <3>2. CASE i = n + 1 /\ j \in 1..n
      BY <2>1, <2>2, <3>2
    <3>3. CASE i \in 1..n /\ j = n + 1
      BY <2>1, <2>2, <3>3
    <3> QED BY <2>1, <3>1, <3>2, <3>3
  <2>3. ASSUME NEW d \in Devs, NEW i \in 1..(n + 1), hotplug_msgs'[i] = Arrived(d)
        PROVE Seated(d)' \/ LeftLater(d, i)'
    <3>1. CASE i \in 1..n
      <4>1. Seated(d) \/ LeftLater(d, i)
        BY <2>1, <2>3, <3>1 DEF QueueInv, Seated
      <4>2. CASE LeftLater(d, i)
        BY <2>1, <4>2 DEF LeftLater
      <4>3. CASE Seated(d) /\ m = Left(d)
        BY <2>1, <3>1, <4>3 DEF LeftLater
      <4> QED BY <4>1, <4>2, <4>3
    <3>2. CASE i = n + 1
      BY <2>1, <2>3, <3>2
    <3> QED BY <2>1, <3>1, <3>2
  <2>4. ASSUME NEW d \in Devs, message' = Arrived(d) PROVE Seated(d)' \/ Leaving(d)'
    <3>1. Seated(d) \/ Leaving(d)
      BY <2>4 DEF QueueInv, Seated
    <3>2. CASE Leaving(d)
      BY <2>1, <3>2 DEF Leaving
    <3>3. CASE Seated(d) /\ m = Left(d)
      BY <2>1, <3>3 DEF Leaving
    <3> QED BY <3>1, <3>2, <3>3
  <2> QED BY <1>2, <2>1, <2>2, <2>3, <2>4 DEF QueueInv, Seated
<1> QED BY <1>1, <1>2

LEMMA Taken ==
  ASSUME TypeInv, TakeMessage
  PROVE /\ DOMAIN hotplug_msgs = 1..Len(hotplug_msgs) /\ Len(hotplug_msgs) \in Nat \ {0}
        /\ DOMAIN hotplug_msgs' = 1..(Len(hotplug_msgs) - 1)
        /\ \A i \in DOMAIN hotplug_msgs' : hotplug_msgs'[i] = hotplug_msgs[i + 1]
        /\ message' = hotplug_msgs[1] /\ message = NoMessage /\ message' \in Messages
<1>1. hotplug_msgs \in Seq(Messages) /\ hotplug_msgs # <<>>
  BY TypeFacts DEF TakeMessage
<1>2. message' = Head(hotplug_msgs) /\ hotplug_msgs' = Tail(hotplug_msgs) /\ message = NoMessage
  BY DEF TakeMessage
<1> QED BY <1>1, <1>2

LEMMA QueueTaken ==
  ASSUME TypeInv, QueueInv, TakeMessage
  PROVE QueueInv'
<1> DEFINE n == Len(hotplug_msgs)
<1>1. /\ DOMAIN hotplug_msgs = 1..n /\ n \in Nat \ {0} /\ DOMAIN hotplug_msgs' = 1..(n - 1)
      /\ \A i \in 1..(n - 1) : hotplug_msgs'[i] = hotplug_msgs[i + 1]
      /\ message' = hotplug_msgs[1]
  BY Taken
<1> HIDE DEF n
<1>2. /\ phase' = "ready" /\ UNCHANGED <<usb_devs, work>>
  BY DEF TakeMessage, devVars, lockVars
<1>3. \A d \in Devs : Seated(d)' <=> Seated(d)
  BY <1>2 DEF Seated, Departing
<1>4. ASSUME NEW i \in 1..(n - 1), NEW j \in 1..(n - 1),
             hotplug_msgs'[i].event = "LEFT", hotplug_msgs'[j] = hotplug_msgs'[i]
      PROVE i = j
  <2>1. i + 1 \in 1..n /\ j + 1 \in 1..n
    BY <1>1
  <2>2. i + 1 = j + 1
    BY <1>1, <1>4, <2>1 DEF QueueInv
  <2> QED BY <1>1, <2>2
<1>5. ASSUME NEW d \in Devs, NEW i \in 1..n, LeftLater(d, i)
      PROVE \E j \in 1..(n - 1) : j >= i /\ hotplug_msgs'[j] = Left(d)
  <2>1. PICK j \in 1..n : j > i /\ hotplug_msgs[j] = Left(d)
    BY <1>1, <1>5 DEF LeftLater
  <2>2. j - 1 \in 1..(n - 1) /\ j - 1 >= i /\ (j - 1) + 1 = j
    BY <1>1, <2>1
  <2> QED BY <1>1, <2>1, <2>2
<1>6. ASSUME NEW d \in Devs, NEW i \in 1..(n - 1), hotplug_msgs'[i] = Arrived(d)
      PROVE Seated(d)' \/ LeftLater(d, i)'
  <2>1. i + 1 \in 1..n /\ hotplug_msgs[i + 1] = Arrived(d)
    BY <1>1, <1>6
  <2>2. Seated(d) \/ LeftLater(d, i + 1)
    BY <1>1, <2>1 DEF QueueInv, Seated
  <2>3. CASE LeftLater(d, i + 1)
    <3>1. PICK j \in 1..(n - 1) : j >= i + 1 /\ hotplug_msgs'[j] = Left(d)
      BY <1>5, <2>1, <2>3
    <3> QED BY <1>1, <3>1 DEF LeftLater
  <2> QED BY <1>3, <2>2, <2>3
<1>7. ASSUME NEW d \in Devs, message' = Arrived(d) PROVE Seated(d)' \/ Leaving(d)'
  <2>1. 1 \in 1..n /\ hotplug_msgs[1] = Arrived(d)
    BY <1>1, <1>7
  <2>2. Seated(d) \/ LeftLater(d, 1)
    BY <1>1, <2>1 DEF QueueInv, Seated
  <2>3. CASE LeftLater(d, 1)
    BY <1>1, <1>5, <2>1, <2>3 DEF Leaving
  <2> QED BY <1>3, <2>2, <2>3
<1> QED BY <1>1, <1>2, <1>4, <1>6, <1>7 DEF QueueInv, Seated

LEMMA QueueStep ==
  SessionInv /\ PlaceInv /\ QueueInv /\ CountInv /\ [Next]_vars => QueueInv'
<1> SUFFICES ASSUME SessionInv, PlaceInv, QueueInv, CountInv, [Next]_vars PROVE QueueInv'
  OBVIOUS
<1>0. TypeInv
  BY DEF SessionInv
<1>t. work \in Works
  BY <1>0, TypeFacts
<1> USE DEF busVars, devVars, lockVars, eventVars, cbVars, userVars
(* Nothing is removed from the list, and no message arrives.                *)
<1>a. ASSUME UNCHANGED <<hotplug_msgs, phase>>, work.step # "leave",
             \/ message' = message
             \/ /\ \A d \in Devs : message' # Arrived(d)
                /\ phase = "ready" \/ message' = NoMessage,
             usb_devs \subseteq usb_devs'
      PROVE QueueInv'
  BY <1>a, QueueKept DEF Seated, Departing
<1>q. ASSUME UNCHANGED <<hotplug_msgs, phase, message, usb_devs, work>> PROVE QueueInv'
  BY <1>q, QueueKept DEF Seated, Departing
<1>b. ASSUME Release \/ WorkDone, UNCHANGED <<hotplug_msgs, phase, usb_devs>>,
             work.step # "leave"
      PROVE QueueInv'
  <2>1. message' = message \/ message' = NoMessage
    BY <1>0, <1>b, EndedMessage
  <2> QED BY <1>a, <1>b, <2>1, EventsDiffer
<1>1. ASSUME Starting PROVE QueueInv'
  <2>1. CASE InitBackend \/ InitIo
    <3>1. UNCHANGED <<hotplug_msgs, message, usb_devs, work>> /\ phase # "ready"
      BY <2>1 DEF InitBackend, InitIo
    <3> QED BY <3>1, QueueKept DEF Seated, Departing
  <2>2. CASE ScanStart
    <3>1. UNCHANGED <<hotplug_msgs, message, usb_devs, phase>> /\ hotplug_lock = None
      BY <2>2 DEF ScanStart
    <3>2. work.step = "none"
      BY <1>0, <3>1, TypeFacts
    <3> QED BY <1>a, <3>1, <3>2
  <2>3. CASE ScanDevice
    <3>1. UNCHANGED <<hotplug_msgs, message, phase>> /\ work.step = "scan"
      BY <2>3 DEF ScanDevice
    <3>2. usb_devs \subseteq usb_devs'
      BY <2>3 DEF ScanDevice, linux_enumerate_device
    <3> QED BY <1>a, <3>1, <3>2
  <2>4. CASE ScanEnd
    <3>1. /\ UNCHANGED <<hotplug_msgs, message, usb_devs>> /\ work.step = "scan"
          /\ phase' = "scanned"
      BY <2>4 DEF ScanEnd
    <3>2. phase # "ready"
      BY <3>1 DEF SessionInv
    <3> QED BY <3>1, <3>2, QueueKept DEF Seated, Departing
  <2> QED BY <1>1, <2>1, <2>2, <2>3, <2>4 DEF Starting
<1>2. ASSUME MonitorLocks \/ HandlerLocks PROVE QueueInv'
  <2>1. UNCHANGED <<hotplug_msgs, phase, usb_devs>> /\ hotplug_lock = None
    BY <1>2 DEF MonitorLocks, HandlerLocks, Begin
  <2>2. work.step = "none"
    BY <1>0, <2>1, TypeFacts
  <2>3. message' = message \/ message' = NoMessage
    BY <1>2 DEF MonitorLocks, HandlerLocks
  <2> QED BY <1>a, <2>1, <2>2, <2>3, EventsDiffer
<1>3. ASSUME ReadNone \/ Unref PROVE QueueInv'
  <2>1. work.step \in {"read", "unref"} /\ UNCHANGED <<hotplug_msgs, phase, usb_devs>>
    BY <1>3 DEF ReadNone, Unref
  <2> QED BY <1>3, <1>b, <2>1 DEF ReadNone, Unref
<1>4. ASSUME ReadRemove \/ Detach PROVE QueueInv'
  <2>1. /\ UNCHANGED <<hotplug_msgs, phase, usb_devs, message>>
        /\ work.step \in {"read", "detach"}
    BY <1>4 DEF ReadRemove, Detach
  <2> QED BY <1>a, <2>1
<1>5. ASSUME ReadAdd PROVE QueueInv'
  <2>1. UNCHANGED <<hotplug_msgs, phase>> /\ work.step = "read"
    BY <1>5 DEF ReadAdd
  <2>2. CASE Addable(Head(netlink)[2])
    <3>1. usb_devs \subseteq usb_devs' /\ message' = message
      BY <1>5, <2>2 DEF ReadAdd, linux_enumerate_device
    <3> QED BY <1>a, <2>1, <3>1
  <2>3. CASE ~Addable(Head(netlink)[2])
    BY <1>5, <1>b, <2>1, <2>3 DEF ReadAdd
  <2> QED BY <2>2, <2>3
<1>6. ASSUME Arrive PROVE QueueInv'
  <2>1. /\ work.step = "arrive" /\ Notify(Arrived(work.dev)) /\ WorkDone
        /\ UNCHANGED <<phase, usb_devs>>
    BY <1>6 DEF Arrive
  <2>2. work.dev \in usb_devs /\ work.dev \in Devs
    BY <1>0, <2>1, TypeFacts DEF PlaceInv
  <2>3. message' = message \/ message' = NoMessage
    BY <1>0, <2>1, EndedMessage
  <2>4. \A d \in Devs : message' = Arrived(d) => message = Arrived(d)
    BY <2>3, EventsDiffer
  <2>5. /\ Arrived(work.dev) \in Messages /\ Arrived(work.dev).event # "LEFT"
        /\ \A d \in Devs : Arrived(work.dev) = Arrived(d) => d = work.dev
    BY <2>2, MessageTypes, EventsDiffer
  <2>6. \A d \in Devs : Seated(d) => Seated(d)'
    BY <2>1 DEF Seated, Departing
  <2>7. \A d \in Devs : Arrived(work.dev) = Arrived(d) => Seated(d)'
    BY <2>1, <2>2, <2>5 DEF Seated
  <2> QED BY <1>0, <2>1, <2>3, <2>4, <2>5, <2>6, <2>7, QueueAppended
<1>7. ASSUME Find PROVE QueueInv'
  <2>1. UNCHANGED <<hotplug_msgs, phase, usb_devs>> /\ work.step = "find"
    BY <1>7 DEF Find
  <2>2. CASE WorkDone
    BY <1>b, <2>1, <2>2
  <2>3. CASE ~WorkDone
    <3>1. message' = message
      BY <1>7, <2>3 DEF Find
    <3> QED BY <1>a, <2>1, <3>1
  <2> QED BY <2>2, <2>3
<1>8. ASSUME Delist PROVE QueueInv'
  <2>1. /\ work.step = "delist" /\ UNCHANGED <<hotplug_msgs, phase, message>>
        /\ usb_devs' = usb_devs \ {work.dev} /\ Then("leave")
    BY <1>8 DEF Delist
  <2>2. work'.step = "leave" /\ work'.dev = work.dev
    BY <1>t, <2>1, WorkGoes
  <2>3. \A d \in Devs : Seated(d) => Seated(d)'
    BY <2>1, <2>2 DEF Seated, Departing
  <2> QED BY <2>1, <2>3, QueueKept
<1>9. ASSUME Leave PROVE QueueInv'
  <2>1. /\ work.step = "leave" /\ Notify(Left(work.dev))
        /\ UNCHANGED <<phase, usb_devs, message>>
    BY <1>9 DEF Leave
  <2>2. work.dev \in Devs
    BY <1>0, <2>1 DEF TypeInv, WorkIsLocked
  <2>3. Departing(work.dev)
    BY <2>1 DEF Departing
  <2>4. ~Leaving(work.dev)
    BY <2>2, <2>3, FirstIs DEF CountInv
  <2>5. /\ Left(work.dev) \in Messages
        /\ \A d \in Devs : Left(work.dev) # Arrived(d)
    BY <2>2, MessageTypes, EventsDiffer
  <2>6. \A d \in Devs : Seated(d) => Seated(d)' \/ Left(work.dev) = Left(d)
    BY <2>1 DEF Seated, Departing
  <2> QED BY <1>0, <2>1, <2>4, <2>5, <2>6, QueueAppended DEF Leaving
<1>10. ASSUME Handling PROVE QueueInv'
  <2>1. CASE TakeMessage
    BY <1>0, <2>1, QueueTaken
  <2>2. CASE usbi_hotplug_match
    BY <1>q, <2>2 DEF usbi_hotplug_match
  <2>3. CASE EndMessage
    <3>1. /\ UNCHANGED <<hotplug_msgs, phase, usb_devs, work>> /\ message' = NoMessage
          /\ phase = "ready"
      BY <2>3 DEF EndMessage
    <3>2. \A d \in Devs : Seated(d) => Seated(d)'
      BY <3>1 DEF Seated, Departing
    <3> QED BY <3>1, <3>2, QueueKept, EventsDiffer
  <2>4. ASSUME NEW u \in Users, HandleError(u) PROVE QueueInv'
    <3>1. /\ UNCHANGED <<hotplug_msgs, phase, usb_devs, work>> /\ phase = "ready"
          /\ message' = PollError(handles[u])
      BY <2>4 DEF HandleError
    <3>2. handles[u] \in Devs
      BY <1>0, <2>4 DEF TypeInv, WorkIsLocked, HandleError
    <3>3. \A d \in Devs : Seated(d) => Seated(d)'
      BY <3>1 DEF Seated, Departing
    <3> QED BY <3>1, <3>2, <3>3, QueueKept, EventsDiffer
  <2> QED BY <1>10, <2>1, <2>2, <2>3, <2>4 DEF Handling
<1>11. ASSUME Exit PROVE QueueInv'
  <2>1. message' = NoMessage /\ hotplug_msgs' = <<>>
    BY <1>11 DEF Exit
  <2> QED BY <2>1, EventsDiffer DEF QueueInv
<1>12. ASSUME NEW s \in Sessions, Plug(s) \/ Unplug(s) PROVE QueueInv'
  BY <1>12, <1>q DEF Plug, Unplug
<1>13. ASSUME NEW u \in Users, User(u) PROVE QueueInv'
  <2>1. ASSUME PollLocks(u) \/ OpenFailedLocks(u) PROVE QueueInv'
    <3>1. UNCHANGED <<hotplug_msgs, phase, usb_devs, message>> /\ hotplug_lock = None
      BY <2>1 DEF PollLocks, OpenFailedLocks, Begin
    <3>2. work.step = "none"
      BY <1>0, <3>1, TypeFacts
    <3> QED BY <1>a, <3>1, <3>2
  <2>2. ASSUME Continue(u), ~PollLocks(u), ~OpenFailedLocks(u) PROVE QueueInv'
    BY <1>q, <2>2 DEF Continue, TakeList, OpenRef, OpenBackend, OpenUnref, TellRegistered,
                      ToldRegistered, RegisterEnd, FreeWhen, FreeListed
  <2>3. ASSUME NEW c \in Callbacks, Deregister(u, c) PROVE QueueInv'
    <3>1. UNCHANGED <<phase, usb_devs, work, message>> /\ Notify(Deregistered)
      BY <2>3 DEF Deregister
    <3>2. \A d \in Devs : Seated(d) => Seated(d)'
      BY <3>1 DEF Seated, Departing
    <3>3. /\ Deregistered \in Messages /\ Deregistered.event # "LEFT"
          /\ \A d \in Devs : Deregistered # Arrived(d)
      BY MessageTypes, EventsDiffer
    <3> QED BY <1>0, <3>1, <3>2, <3>3, QueueAppended
  <2>4. ASSUME User(u), ~Continue(u), \A c \in Callbacks : ~Deregister(u, c) PROVE QueueInv'
    BY <1>q, <2>4 DEF User, GetDeviceList, Open, Close, FreeWhen, FreeListed, Register
  <2> QED BY <1>13, <2>1, <2>2, <2>3, <2>4
<1>14. ASSUME UNCHANGED vars PROVE QueueInv'
  BY <1>14, <1>q DEF vars
<1> QED BY <1>1, <1>2, <1>3, <1>4, <1>5, <1>6, <1>7, <1>8, <1>9, <1>10, <1>11, <1>12,
           <1>13, <1>14 DEF Next, Working

(* The count of one device, in steps that change it.                       *)
CountAt(d) ==
  FirstReference(d) \in {0, 1} /\ Counted(d) /\ (d > allocated => refcnt[d] = 0)

LEMMA CountOf == CountInv <=> \A d \in Devs : CountAt(d)
BY DEF CountInv, CountAt

UserKept(d) ==
  Listing(d)' = Listing(d) /\ Having(d)' = Having(d) /\ Opening(d)' = Opening(d)

FirstKept(d) ==
  /\ (d \in usb_devs)' <=> d \in usb_devs
  /\ Departing(d)' <=> Departing(d)
  /\ Leaving(d)' <=> Leaving(d)
  /\ (message = Left(d))' <=> message = Left(d)
  /\ (d \in leaked)' <=> d \in leaked

LEMMA FirstKeptCount ==
  ASSUME NEW d, FirstKept(d) PROVE FirstReference(d)' = FirstReference(d)
BY DEF FirstKept, FirstReference, One, Departing

LEMMA FirstMoves ==
  ASSUME NEW d \in Devs, CountAt(d)
  PROVE /\ FirstReference(d) = 1 <=> \/ d \in usb_devs \/ Departing(d) \/ Leaving(d)
                                     \/ message = Left(d) \/ d \in leaked
        /\ FirstReference(d) = 0 <=> /\ d \notin usb_devs /\ ~Departing(d) /\ ~Leaving(d)
                                     /\ message # Left(d) /\ d \notin leaked
BY FirstIs DEF CountAt

(* A step that changes the references to a device and its count alike.     *)
LEMMA Balanced ==
  ASSUME TypeInv, NEW d \in Devs, CountAt(d),
         NEW f \in Int, NEW k \in Int, NEW l \in Int, NEW h \in Int, NEW o \in Int,
         FirstReference(d)' = FirstReference(d) + f,
         One(LookedUp(d))' = One(LookedUp(d)) + k,
         Cardinality(Listing(d))' = Cardinality(Listing(d)) + l,
         Cardinality(Having(d))' = Cardinality(Having(d)) + h,
         Cardinality(Opening(d))' = Cardinality(Opening(d)) + o,
         refcnt'[d] = refcnt[d] + (f + k + l + h + o),
         FirstReference(d)' \in {0, 1},
         d <= allocated', allocated' \in Nat
  PROVE CountAt(d)'
<1>1. /\ Cardinality(Listing(d)) \in Nat /\ Cardinality(Having(d)) \in Nat
      /\ Cardinality(Opening(d)) \in Nat /\ One(LookedUp(d)) \in {0, 1}
      /\ FirstReference(d) \in Nat
  BY Terms
<1>2. Counted(d) /\ d \in Nat /\ refcnt[d] \in Int
  BY TypeFacts DEF CountAt
<1>3. Counted(d)'
  BY <1>1, <1>2 DEF Counted
<1> QED BY <1>2, <1>3 DEF CountAt

LEMMA Untouched ==
  ASSUME NEW d \in Devs, CountAt(d), FirstKept(d), LookedUp(d)' <=> LookedUp(d), UserKept(d),
         refcnt'[d] = refcnt[d], d > allocated' => d > allocated
  PROVE CountAt(d)'
<1>1. FirstReference(d)' = FirstReference(d)
  BY FirstKeptCount
<1> QED BY <1>1 DEF CountAt, Counted, UserKept, One

LEMMA NewCount ==
  ASSUME TypeInv, CountInv, UsersSame, UNCHANGED <<message, hotplug_msgs>>,
         NEW s, linux_enumerate_device(s),
         work.step \in {"scan", "read"}, work'.step \in {"scan", "arrive"}
  PROVE CountInv'
<1> SUFFICES ASSUME NEW d \in Devs PROVE CountAt(d)'
  BY CountOf DEF CountInv, CountAt
<1>1. /\ CountAt(d) /\ UserKept(d)
  BY CountOf, UsersSameCount DEF UserKept
<1>2. ~LookedUp(d) /\ ~LookedUp(d)' /\ ~Departing(d) /\ ~Departing(d)'
  BY DEF LookedUp, Departing
<1>3. /\ allocated \in Nat /\ d \in Nat /\ refcnt \in [Devs -> Int] /\ Devs \subseteq Nat
      /\ usb_devs \subseteq Devs
  BY TypeFacts
<1>4. /\ allocated' = allocated + 1 /\ usb_devs' = usb_devs \cup {allocated + 1}
      /\ refcnt' = [refcnt EXCEPT ![allocated + 1] = 1] /\ leaked' = leaked
  BY DEF linux_enumerate_device
<1>5. Leaving(d)' <=> Leaving(d)
  BY DEF Leaving
<1>6. CASE d # allocated + 1
  <2>1. FirstKept(d)
    BY <1>2, <1>4, <1>5, <1>6 DEF FirstKept
  <2>2. refcnt'[d] = refcnt[d] /\ (d > allocated' => d > allocated)
    BY <1>3, <1>4, <1>6
  <2> QED BY <1>1, <1>2, <2>1, <2>2, Untouched
<1>7. CASE d = allocated + 1
  <2>1. refcnt[d] = 0 /\ refcnt'[d] = 1
    BY <1>1, <1>3, <1>4, <1>7 DEF CountAt
  <2>2. d \notin usb_devs /\ ~Leaving(d) /\ message # Left(d) /\ d \notin leaked
    BY <2>1, ReferredIsLive, <1>3
  <2>3. FirstReference(d) = 0
    BY <1>1, <1>2, <2>2, FirstMoves
  <2>4. FirstReference(d)' = 1
    BY <1>2, <1>4, <1>5, <1>7, <2>2 DEF FirstReference, One, Departing
  <2>5. /\ One(LookedUp(d))' = One(LookedUp(d)) + 0
        /\ Cardinality(Listing(d))' = Cardinality(Listing(d)) + 0
        /\ Cardinality(Having(d))' = Cardinality(Having(d)) + 0
        /\ Cardinality(Opening(d))' = Cardinality(Opening(d)) + 0
    BY <1>1, <1>2, Terms DEF UserKept, One
  <2>6. d <= allocated' /\ allocated' \in Nat
    BY <1>3, <1>4, <1>7
  <2>7. FirstReference(d)' = FirstReference(d) + 1 /\ refcnt'[d] = refcnt[d] + (1 + 0 + 0 + 0 + 0)
    BY <2>1, <2>3, <2>4
  <2> QED BY <1>1, <2>4, <2>5, <2>6, <2>7, Balanced
<1> QED BY <1>6, <1>7

(* What a count of the same is, plus nothing.                              *)
LEMMA UserKeptCount ==
  ASSUME NEW d, UserKept(d)
  PROVE /\ Cardinality(Listing(d))' = Cardinality(Listing(d)) + 0
        /\ Cardinality(Having(d))' = Cardinality(Having(d)) + 0
        /\ Cardinality(Opening(d))' = Cardinality(Opening(d)) + 0
BY Terms DEF UserKept

LEMMA LookedUpKept ==
  ASSUME NEW d, LookedUp(d)' <=> LookedUp(d)
  PROVE One(LookedUp(d))' = One(LookedUp(d)) + 0
BY DEF One

LEMMA FirstStays ==
  ASSUME NEW d \in Devs, CountAt(d), FirstReference(d)' = FirstReference(d)
  PROVE FirstReference(d)' = FirstReference(d) + 0 /\ FirstReference(d)' \in {0, 1}
BY DEF CountAt

LEMMA Allocated ==
  ASSUME TypeInv, CountInv, UNCHANGED allocated, NEW d \in Devs,
         \/ d \in usb_devs \/ Departing(d) \/ Leaving(d) \/ message = Left(d) \/ d \in leaked
         \/ LookedUp(d) \/ \E u \in Users : u \in Listing(d) \cup Having(d) \cup Opening(d)
  PROVE d <= allocated' /\ allocated' \in Nat
BY ReferredIsLive, TypeFacts

LEMMA CountFound ==
  ASSUME TypeInv, CountInv, UsersSame, UNCHANGED <<message, hotplug_msgs, usb_devs, leaked, allocated>>,
         NEW d \in usb_devs, work.step = "find", FoundBySession(d),
         work' = Work("detach", d, {})
  PROVE CountInv'
<1> SUFFICES ASSUME NEW e \in Devs PROVE CountAt(e)'
  BY CountOf DEF CountInv, CountAt
<1>1. CountAt(e) /\ UserKept(e)
  BY CountOf, UsersSameCount DEF UserKept
<1>2. work'.step = "detach" /\ work'.dev = d /\ d \in Devs
  BY TypeFacts DEF Work
<1>3. ~LookedUp(e) /\ ~Departing(e) /\ ~Departing(e)' /\ (LookedUp(e)' <=> e = d)
  BY <1>2 DEF LookedUp, Departing
<1>4. FirstKept(e)
  BY <1>3 DEF FirstKept, Leaving
<1>5. refcnt'[e] = IF e = d THEN refcnt[e] + 1 ELSE refcnt[e]
  BY DEF FoundBySession, libusb_ref_device
<1>6. CASE e # d
  BY <1>1, <1>3, <1>4, <1>5, <1>6, Untouched
<1>7. CASE e = d
  <2>1. e <= allocated' /\ allocated' \in Nat
    BY <1>7, Allocated
  <2>2. One(LookedUp(e))' = One(LookedUp(e)) + 1
    BY <1>3, <1>7 DEF One
  <2>3. refcnt'[e] = refcnt[e] + (0 + 1 + 0 + 0 + 0)
    BY <1>5, <1>7, TypeFacts
  <2>4. FirstReference(e)' = FirstReference(e)
    BY <1>4, FirstKeptCount
  <2> QED BY <1>1, <2>1, <2>2, <2>3, <2>4, FirstStays, UserKeptCount, Balanced
<1> QED BY <1>6, <1>7

LEMMA CountDelisted ==
  ASSUME TypeInv, PlaceInv, CountInv, Delist
  PROVE CountInv'
<1> SUFFICES ASSUME NEW d \in Devs PROVE CountAt(d)'
  BY CountOf DEF CountInv, CountAt
<1>1. /\ work.step = "delist" /\ usb_devs' = usb_devs \ {work.dev} /\ Then("leave")
      /\ UNCHANGED <<lists, handles, op, refcnt, leaked, message, hotplug_msgs, allocated>>
  BY DEF Delist, userVars, eventVars
<1>2. work'.step = "leave" /\ work'.dev = work.dev /\ work.dev \in usb_devs
  BY <1>1, TypeFacts, WorkGoes DEF PlaceInv
<1>3. CountAt(d) /\ UserKept(d)
  BY <1>1, CountOf DEF UserKept, Listing, Having, Opening
<1>4. /\ LookedUp(d)' <=> LookedUp(d)
      /\ ~Departing(d) /\ (Departing(d)' <=> d = work.dev)
      /\ Leaving(d)' <=> Leaving(d)
  BY <1>1, <1>2 DEF LookedUp, Departing, Leaving
<1>5. CASE d # work.dev
  <2>1. FirstKept(d)
    BY <1>1, <1>4, <1>5 DEF FirstKept
  <2> QED BY <1>1, <1>3, <1>4, <2>1, Untouched
<1>6. CASE d = work.dev
  <2>1. FirstReference(d) = 1 /\ ~Leaving(d) /\ message # Left(d) /\ d \notin leaked
    BY <1>2, <1>3, <1>6, FirstMoves, FirstIs DEF CountAt
  <2>2. FirstReference(d)' = 1
    BY <1>1, <1>4, <1>6, <2>1 DEF FirstReference, One, Departing
  <2> QED BY <1>1, <1>3, <1>4, <2>1, <2>2 DEF CountAt, Counted, UserKept, One
<1> QED BY <1>5, <1>6

LEMMA CountLeft ==
  ASSUME TypeInv, QueueInv, CountInv, Leave
  PROVE CountInv'
<1> SUFFICES ASSUME NEW d \in Devs PROVE CountAt(d)'
  BY CountOf DEF CountInv, CountAt
<1>1. /\ work.step = "leave" /\ Notify(Left(work.dev)) /\ Then("unref")
      /\ leaked' = IF phase = "ready" THEN leaked ELSE leaked \cup {work.dev}
      /\ UNCHANGED <<lists, handles, op, refcnt, usb_devs, message, allocated>>
  BY DEF Leave, userVars, eventVars
<1>2. work'.step = "unref" /\ work'.dev = work.dev /\ work.dev \in Devs
  BY <1>1, TypeFacts, WorkGoes DEF TypeInv, WorkIsLocked
<1>3. CountAt(d) /\ UserKept(d)
  BY <1>1, CountOf DEF UserKept, Listing, Having, Opening
<1>4. /\ LookedUp(d)' <=> LookedUp(d)
      /\ ~Departing(d)' /\ (Departing(d) <=> d = work.dev)
  BY <1>1, <1>2 DEF LookedUp, Departing
<1>5. Leaving(d)' <=> Leaving(d) \/ (d = work.dev /\ phase = "ready")
  <2>1. CASE phase # "ready"
    BY <1>1, <2>1 DEF Notify, Leaving
  <2>2. CASE phase = "ready"
    <3> DEFINE n == Len(hotplug_msgs)
    <3>1. Left(work.dev) \in Messages /\ (Left(work.dev) = Left(d) <=> d = work.dev)
      BY <1>2, MessageTypes, EventsDiffer
    <3>2. /\ n \in Nat /\ DOMAIN hotplug_msgs = 1..n /\ DOMAIN hotplug_msgs' = 1..(n + 1)
          /\ \A i \in 1..n : hotplug_msgs'[i] = hotplug_msgs[i]
          /\ hotplug_msgs'[n + 1] = Left(work.dev)
      BY <1>1, <2>2, <3>1, Notified
    <3> HIDE DEF n
    <3>3. (\E i \in 1..(n + 1) : hotplug_msgs'[i] = Left(d))
            <=> (\E i \in 1..n : hotplug_msgs[i] = Left(d)) \/ d = work.dev
      BY <3>1, <3>2
    <3> QED BY <2>2, <3>2, <3>3 DEF Leaving
  <2> QED BY <2>1, <2>2
<1>6. CASE d # work.dev
  <2>1. FirstKept(d)
    BY <1>1, <1>4, <1>5, <1>6 DEF FirstKept
  <2> QED BY <1>1, <1>3, <1>4, <2>1, Untouched
<1>7. CASE d = work.dev
  <2>1. /\ FirstReference(d) = 1 /\ d \notin usb_devs /\ ~Leaving(d) /\ message # Left(d)
        /\ d \notin leaked
    BY <1>3, <1>4, <1>7, FirstMoves, FirstIs DEF CountAt
  <2>2. d \notin usb_devs' /\ message' # Left(d) /\ (d \in leaked' <=> phase # "ready")
    BY <1>1, <1>7, <2>1
  <2>3. FirstReference(d)' = 1
    BY <1>4, <1>5, <1>7, <2>1, <2>2 DEF FirstReference, One, Departing
  <2> QED BY <1>1, <1>3, <1>4, <2>1, <2>3 DEF CountAt, Counted, UserKept, One
<1> QED BY <1>6, <1>7

LEMMA CountUnref ==
  ASSUME TypeInv, CountInv, UsersSame, MessageSame,
         UNCHANGED <<hotplug_msgs, usb_devs, leaked, allocated>>,
         work.step = "unref", \A d \in Devs : ~LookedUp(d)' /\ ~Departing(d)',
         libusb_unref_device(work.dev)
  PROVE CountInv'
<1> SUFFICES ASSUME NEW d \in Devs PROVE CountAt(d)'
  BY CountOf DEF CountInv, CountAt
<1>1. CountAt(d) /\ UserKept(d)
  BY CountOf, UsersSameCount DEF UserKept
<1>2. ~Departing(d) /\ (LookedUp(d) <=> d = work.dev)
  BY DEF LookedUp, Departing
<1>3. FirstKept(d)
  BY <1>2 DEF FirstKept, Leaving, MessageSame
<1>4. refcnt'[d] = IF d = work.dev THEN refcnt[d] - 1 ELSE refcnt[d]
  BY TypeFacts DEF libusb_unref_device
<1>5. CASE d # work.dev
  BY <1>1, <1>2, <1>3, <1>4, <1>5, Untouched
<1>6. CASE d = work.dev
  <2>1. d <= allocated' /\ allocated' \in Nat
    BY <1>2, <1>6, Allocated
  <2>2. One(LookedUp(d))' = One(LookedUp(d)) + (-1)
    BY <1>2, <1>6 DEF One
  <2>3. refcnt'[d] = refcnt[d] + (0 + (-1) + 0 + 0 + 0)
    BY <1>4, <1>6, TypeFacts
  <2>4. FirstReference(d)' = FirstReference(d)
    BY <1>3, FirstKeptCount
  <2> QED BY <1>1, <2>1, <2>2, <2>3, <2>4, FirstStays, UserKeptCount, Balanced
<1> QED BY <1>5, <1>6

LEMMA CountTaken ==
  ASSUME TypeInv, QueueInv, CountInv, TakeMessage
  PROVE CountInv'
<1> SUFFICES ASSUME NEW d \in Devs PROVE CountAt(d)'
  BY CountOf DEF CountInv, CountAt
<1> DEFINE n == Len(hotplug_msgs)
<1>1. /\ DOMAIN hotplug_msgs = 1..n /\ n \in Nat \ {0} /\ DOMAIN hotplug_msgs' = 1..(n - 1)
      /\ \A i \in 1..(n - 1) : hotplug_msgs'[i] = hotplug_msgs[i + 1]
      /\ message' = hotplug_msgs[1] /\ message = NoMessage
  BY Taken
<1> HIDE DEF n
<1>2. UNCHANGED <<lists, handles, op, refcnt, usb_devs, leaked, allocated, work>>
  BY DEF TakeMessage, devVars, lockVars, userVars
<1>3. CountAt(d) /\ UserKept(d)
  BY <1>2, CountOf DEF UserKept, Listing, Having, Opening
<1>4. (LookedUp(d)' <=> LookedUp(d)) /\ (Departing(d)' <=> Departing(d))
  BY <1>2 DEF LookedUp, Departing
<1>5. message # Left(d)
  BY <1>1, EventsDiffer
<1>6. Leaving(d) <=> Leaving(d)' \/ hotplug_msgs[1] = Left(d)
  <2>1. ASSUME Leaving(d), hotplug_msgs[1] # Left(d) PROVE Leaving(d)'
    <3>1. PICK i \in 1..n : hotplug_msgs[i] = Left(d)
      BY <1>1, <2>1 DEF Leaving
    <3>2. i - 1 \in 1..(n - 1) /\ (i - 1) + 1 = i
      BY <1>1, <2>1, <3>1
    <3> QED BY <1>1, <3>1, <3>2 DEF Leaving
  <2>2. ASSUME Leaving(d)' PROVE Leaving(d)
    <3>1. PICK i \in 1..(n - 1) : hotplug_msgs'[i] = Left(d)
      BY <1>1, <2>2 DEF Leaving
    <3>2. i + 1 \in 1..n
      BY <1>1
    <3> QED BY <1>1, <3>1, <3>2 DEF Leaving
  <2>3. ASSUME hotplug_msgs[1] = Left(d) PROVE Leaving(d)
    BY <1>1, <2>3 DEF Leaving
  <2> QED BY <2>1, <2>2, <2>3
<1>7. CASE hotplug_msgs[1] # Left(d)
  <2>1. FirstKept(d)
    BY <1>1, <1>2, <1>4, <1>5, <1>6, <1>7 DEF FirstKept
  <2> QED BY <1>2, <1>3, <1>4, <2>1, Untouched
<1>8. CASE hotplug_msgs[1] = Left(d)
  <2>1. ~Leaving(d)'
    <3> SUFFICES ASSUME Leaving(d)' PROVE FALSE  OBVIOUS
    <3>1. PICK i \in 1..(n - 1) : hotplug_msgs'[i] = Left(d)
      BY <1>1 DEF Leaving
    <3>2. i + 1 \in 1..n /\ 1 \in 1..n /\ hotplug_msgs[i + 1] = Left(d) /\ i + 1 # 1
      BY <1>1, <3>1
    <3>3. Left(d).event = "LEFT"
      BY MessageTypes
    <3> QED BY <1>1, <1>8, <3>2, <3>3 DEF QueueInv
  <2>2. FirstReference(d) = 1 /\ d \notin usb_devs /\ ~Departing(d) /\ d \notin leaked
    BY <1>3, <1>6, <1>8, FirstMoves, FirstIs DEF CountAt
  <2>3. FirstReference(d)' = 1
    BY <1>1, <1>2, <1>4, <1>8, <2>1, <2>2 DEF FirstReference, One, Departing
  <2> QED BY <1>2, <1>3, <1>4, <2>2, <2>3 DEF CountAt, Counted, UserKept, One
<1> QED BY <1>7, <1>8

LEMMA CountEnded ==
  ASSUME TypeInv, CountInv, EndMessage
  PROVE CountInv'
<1> SUFFICES ASSUME NEW d \in Devs PROVE CountAt(d)'
  BY CountOf DEF CountInv, CountAt
<1>1. /\ message' = NoMessage /\ GiveUp(message) /\ message \in Messages
      /\ UNCHANGED <<lists, handles, op, usb_devs, leaked, allocated, work, hotplug_msgs>>
  BY DEF EndMessage, lockVars, userVars
<1>2. CountAt(d) /\ UserKept(d)
  BY <1>1, CountOf DEF UserKept, Listing, Having, Opening
<1>3. /\ LookedUp(d)' <=> LookedUp(d)
      /\ Departing(d)' <=> Departing(d)
      /\ Leaving(d)' <=> Leaving(d)
      /\ message' # Left(d)
  BY <1>1, EventsDiffer DEF LookedUp, Departing, Leaving
<1>4. CASE message # Left(d)
  <2>1. FirstKept(d)
    BY <1>1, <1>3, <1>4 DEF FirstKept
  <2>2. refcnt'[d] = refcnt[d]
    <3>1. CASE \/ message = Deregistered
               \/ message.dev \in Devs /\ message = Arrived(message.dev)
      <4>1. message.event # "LEFT"
        BY <3>1, MessageTypes
      <4> QED BY <1>1, <4>1 DEF GiveUp
    <3>2. CASE message.dev \in Devs /\ message = Left(message.dev)
      <4>1. message.dev # d /\ message.event = "LEFT"
        BY <1>4, <3>2, MessageTypes
      <4> QED BY <1>1, <4>1, TypeFacts DEF GiveUp, libusb_unref_device
    <3> QED BY <1>1, <3>1, <3>2, MessageCases
  <2> QED BY <1>1, <1>2, <1>3, <2>1, <2>2, Untouched
<1>5. CASE message = Left(d)
  <2>1. /\ FirstReference(d) = 1 /\ d \notin usb_devs /\ ~Departing(d) /\ ~Leaving(d)
        /\ d \notin leaked
    BY <1>2, <1>5, FirstMoves, FirstIs DEF CountAt
  <2>2. FirstReference(d)' = 0
    BY <1>1, <1>3, <2>1 DEF FirstReference, One, Departing
  <2>3. d <= allocated' /\ allocated' \in Nat
    BY <1>1, <1>5, Allocated
  <2>4. message.event = "LEFT" /\ message.dev = d
    BY <1>5, MessageTypes
  <2>5. refcnt'[d] = refcnt[d] + ((-1) + 0 + 0 + 0 + 0)
    BY <1>1, <2>4, TypeFacts DEF GiveUp, libusb_unref_device
  <2>6. FirstReference(d)' = FirstReference(d) + (-1) /\ FirstReference(d)' \in {0, 1}
    BY <2>1, <2>2
  <2> QED BY <1>2, <1>3, <2>3, <2>5, <2>6, LookedUpKept, UserKeptCount, Balanced
<1> QED BY <1>4, <1>5

LEMMA CountExit ==
  ASSUME TypeInv, QueueInv, CountInv, Exit
  PROVE CountInv'
<1> SUFFICES ASSUME NEW d \in Devs PROVE CountAt(d)'
  BY CountOf DEF CountInv, CountAt
<1>1. /\ message = NoMessage /\ message' = NoMessage
      /\ usb_devs' = {} /\ hotplug_msgs' = <<>> /\ hotplug_lock = None
      /\ UNCHANGED <<lists, handles, op, allocated, work, leaked>>
      /\ refcnt'[d] = IF d \in usb_devs \/ Leaving(d) THEN refcnt[d] - 1 ELSE refcnt[d]
  BY DEF Exit, lockVars, userVars, eventVars
<1>2. work.step = "none"
  BY <1>1, TypeFacts
<1>3. ~LookedUp(d) /\ ~LookedUp(d)' /\ ~Departing(d) /\ ~Departing(d)'
  BY <1>1, <1>2 DEF LookedUp, Departing
<1>4. CountAt(d) /\ UserKept(d)
  BY <1>1, CountOf DEF UserKept, Listing, Having, Opening
<1>5. message # Left(d) /\ message' # Left(d)
  BY <1>1, EventsDiffer
<1>6. ~Leaving(d)'
  BY <1>1 DEF Leaving
<1>7. CASE d \notin usb_devs /\ ~Leaving(d)
  <2>1. FirstReference(d)' = FirstReference(d)
    BY <1>1, <1>3, <1>5, <1>6, <1>7 DEF FirstReference, One, Departing
  <2> QED BY <1>1, <1>3, <1>4, <1>7, <2>1 DEF CountAt, Counted, UserKept, One
<1>8. CASE d \in usb_devs \/ Leaving(d)
  <2>1. FirstReference(d) = 1 /\ d \notin leaked /\ ~(d \in usb_devs /\ Leaving(d))
    BY <1>4, <1>8, FirstMoves, FirstIs DEF CountAt
  <2>2. FirstReference(d)' = 0
    BY <1>1, <1>3, <1>5, <1>6, <2>1 DEF FirstReference, One, Departing
  <2>3. d <= allocated' /\ allocated' \in Nat
    BY <1>1, <1>8, Allocated
  <2>4. refcnt'[d] = refcnt[d] + ((-1) + 0 + 0 + 0 + 0)
    BY <1>1, <1>8, TypeFacts
  <2>5. FirstReference(d)' = FirstReference(d) + (-1) /\ FirstReference(d)' \in {0, 1}
    BY <2>1, <2>2
  <2> QED BY <1>3, <1>4, <2>3, <2>4, <2>5, LookedUpKept, UserKeptCount, Balanced
<1> QED BY <1>7, <1>8

(* What users do.                                                          *)
LEMMA Added ==
  ASSUME NEW S \in SUBSET Users, NEW T, NEW u \in Users, u \notin S, T = S \cup {u}
  PROVE Cardinality(T) = Cardinality(S) + 1
<1>1. IsFiniteSet(S)
  BY UsbDevicesAssumption, FS_Subset
<1> QED BY <1>1, FS_AddElement

LEMMA Removed ==
  ASSUME NEW S \in SUBSET Users, NEW T, NEW u \in S, T = S \ {u}
  PROVE Cardinality(T) = Cardinality(S) + (-1)
<1>1. IsFiniteSet(S)
  BY UsbDevicesAssumption, FS_Subset
<1>2. Cardinality(S) \in Nat /\ Cardinality(T) = Cardinality(S) - 1
  BY <1>1, FS_RemoveElement, FS_CardinalityType
<1> QED BY <1>2

NothingElse == UNCHANGED <<usb_devs, leaked, allocated, work, message, hotplug_msgs>>

LEMMA NothingElseFirst ==
  ASSUME NothingElse, NEW d \in Devs, CountAt(d)
  PROVE /\ FirstKept(d)
        /\ FirstReference(d)' = FirstReference(d) + 0 /\ FirstReference(d)' \in {0, 1}
        /\ LookedUp(d)' <=> LookedUp(d)
        /\ One(LookedUp(d))' = One(LookedUp(d)) + 0
<1>1. FirstKept(d) /\ (LookedUp(d)' <=> LookedUp(d))
  BY DEF NothingElse, FirstKept, LookedUp, Departing, Leaving
<1> QED BY <1>1, FirstKeptCount, FirstStays, LookedUpKept

LEMMA CountListed ==
  ASSUME TypeInv, UserInv, CountInv, NEW u \in Users, TakeList(u)
  PROVE CountInv'
<1> SUFFICES ASSUME NEW d \in Devs PROVE CountAt(d)'
  BY CountOf DEF CountInv, CountAt
<1>1. /\ op[u].step = "list" /\ lists' = [lists EXCEPT ![u] = usb_devs]
      /\ libusb_ref_device(usb_devs) /\ handles' = handles /\ NothingElse
      /\ op' = [op EXCEPT ![u] = IF @.cb = None THEN Idle
                                 ELSE [@ EXCEPT !.step = "tell", !.todo = usb_devs]]
  BY DEF TakeList, At, NothingElse, lockVars, eventVars
<1>2. lists[u] = {} /\ usb_devs \subseteq Devs /\ op \in [Users -> Ops]
  BY <1>1, TypeFacts DEF UserInv
<1>3. OpKept(u) /\ op'[u].step \in {"idle", "tell"}
  <2>1. CASE op[u].cb = None
    <3>1. op' = [op EXCEPT ![u] = Idle]
      BY <1>1, <1>2, <2>1
    <3> QED BY <1>2, <3>1, OpEnds
  <2>2. CASE op[u].cb # None
    <3>1. op' = [op EXCEPT ![u] = [@ EXCEPT !.step = "tell", !.todo = usb_devs]]
      BY <1>1, <1>2, <2>2
    <3> QED BY <1>2, <3>1, OpTells
  <2> QED BY <2>1, <2>2
<1>4. CountAt(d)
  BY CountOf
<1>5. /\ FirstKept(d)
      /\ FirstReference(d)' = FirstReference(d) + 0 /\ FirstReference(d)' \in {0, 1}
      /\ LookedUp(d)' <=> LookedUp(d)
      /\ One(LookedUp(d))' = One(LookedUp(d)) + 0
  BY <1>1, <1>4, NothingElseFirst
<1>6. Opening(d)' = Opening(d) /\ Having(d)' = Having(d)
  BY <1>1, <1>3 DEF Opening, Having, OpKept
<1>7. Listing(d)' = IF d \in usb_devs THEN Listing(d) \cup {u} ELSE Listing(d)
  <2>1. \A v \in Users : lists'[v] = IF v = u THEN usb_devs ELSE lists[v]
    BY <1>1, TypeFacts
  <2>2. u \notin Listing(d)
    BY <1>2 DEF Listing
  <2> QED BY <2>1, <2>2 DEF Listing
<1>8. refcnt'[d] = IF d \in usb_devs THEN refcnt[d] + 1 ELSE refcnt[d]
  BY <1>1 DEF libusb_ref_device
<1>9. allocated' = allocated
  BY <1>1 DEF NothingElse
<1>10. CASE d \notin usb_devs
  <2>1. UserKept(d)
    BY <1>6, <1>7, <1>10 DEF UserKept
  <2> QED BY <1>4, <1>5, <1>8, <1>9, <1>10, <2>1, Untouched
<1>11. CASE d \in usb_devs
  <2>1. Cardinality(Listing(d))' = Cardinality(Listing(d)) + 1
    <3>1. Listing(d) \in SUBSET Users /\ u \notin Listing(d)
      BY <1>2 DEF Listing
    <3> QED BY <1>7, <1>11, <3>1, Added
  <2>2. /\ Cardinality(Having(d))' = Cardinality(Having(d)) + 0
        /\ Cardinality(Opening(d))' = Cardinality(Opening(d)) + 0
    BY <1>6, Terms
  <2>3. d <= allocated' /\ allocated' \in Nat
    BY <1>9, <1>11, Allocated
  <2>4. refcnt'[d] = refcnt[d] + (0 + 0 + 1 + 0 + 0)
    BY <1>8, <1>11, TypeFacts
  <2> QED BY <1>4, <1>5, <2>1, <2>2, <2>3, <2>4, Balanced
<1> QED BY <1>10, <1>11

LEMMA CountFreed ==
  ASSUME TypeInv, CountInv, NEW u \in Users, FreeListed(u)
  PROVE CountInv'
<1> SUFFICES ASSUME NEW d \in Devs PROVE CountAt(d)'
  BY CountOf DEF CountInv, CountAt
<1>1. PICK e \in lists[u] : lists' = [lists EXCEPT ![u] = @ \ {e}] /\ libusb_unref_device(e)
  BY DEF FreeListed
<1>2. handles' = handles /\ op' = op /\ NothingElse
  BY DEF FreeListed, NothingElse, lockVars, eventVars
<1>3. /\ CountAt(d)
      /\ FirstKept(d)
      /\ FirstReference(d)' = FirstReference(d) + 0 /\ FirstReference(d)' \in {0, 1}
      /\ LookedUp(d)' <=> LookedUp(d)
      /\ One(LookedUp(d))' = One(LookedUp(d)) + 0
  BY <1>2, CountOf, NothingElseFirst
<1>4. Opening(d)' = Opening(d) /\ Having(d)' = Having(d)
  BY <1>2 DEF Opening, Having
<1>5. Listing(d)' = IF d = e THEN Listing(d) \ {u} ELSE Listing(d)
  <2>1. \A v \in Users : lists'[v] = IF v = u THEN lists[v] \ {e} ELSE lists[v]
    BY <1>1, TypeFacts
  <2> QED BY <2>1 DEF Listing
<1>6. refcnt'[d] = IF d = e THEN refcnt[d] - 1 ELSE refcnt[d]
  BY <1>1, TypeFacts DEF libusb_unref_device
<1>7. allocated' = allocated
  BY <1>2 DEF NothingElse
<1>8. CASE d # e
  <2>1. UserKept(d)
    BY <1>4, <1>5, <1>8 DEF UserKept
  <2> QED BY <1>3, <1>6, <1>7, <1>8, <2>1, Untouched
<1>9. CASE d = e
  <2>0. Listing(d) \in SUBSET Users /\ u \in Listing(d)
    BY <1>1, <1>9 DEF Listing
  <2>1. Cardinality(Listing(d))' = Cardinality(Listing(d)) + (-1)
    BY <1>5, <1>9, <2>0, Removed
  <2>2. /\ Cardinality(Having(d))' = Cardinality(Having(d)) + 0
        /\ Cardinality(Opening(d))' = Cardinality(Opening(d)) + 0
    BY <1>4, Terms
  <2>3. d <= allocated' /\ allocated' \in Nat
    BY <1>7, <2>0, Allocated
  <2>4. refcnt'[d] = refcnt[d] + (0 + 0 + (-1) + 0 + 0)
    BY <1>6, <1>9, TypeFacts
  <2> QED BY <1>3, <2>1, <2>2, <2>3, <2>4, Balanced
<1> QED BY <1>8, <1>9

(* The three steps of an open that count, and the close.                   *)
LEMMA CountReferred ==
  ASSUME TypeInv, UserInv, CountInv, NEW u \in Users, OpenRef(u)
  PROVE CountInv'
<1> SUFFICES ASSUME NEW d \in Devs PROVE CountAt(d)'
  BY CountOf DEF CountInv, CountAt
<1>1. /\ op[u].step = "ref" /\ libusb_ref_device({op[u].dev}) /\ Go(u, "open")
      /\ UNCHANGED <<lists, handles>> /\ NothingElse
  BY DEF OpenRef, At, NothingElse, lockVars, eventVars
<1>2. OpKept(u) /\ op'[u].step = "open" /\ op'[u].dev = op[u].dev
  BY <1>1, TypeFacts, OpGoes
<1>3. /\ CountAt(d)
      /\ FirstKept(d)
      /\ FirstReference(d)' = FirstReference(d) + 0 /\ FirstReference(d)' \in {0, 1}
      /\ LookedUp(d)' <=> LookedUp(d)
      /\ One(LookedUp(d))' = One(LookedUp(d)) + 0
  BY <1>1, CountOf, NothingElseFirst
<1>4. Listing(d)' = Listing(d) /\ Having(d)' = Having(d)
  BY <1>1 DEF Listing, Having
<1>5. u \notin Opening(d)
  BY <1>1 DEF Opening
<1>6. Opening(d)' = IF d = op[u].dev THEN Opening(d) \cup {u} ELSE Opening(d)
  BY <1>2, <1>5 DEF Opening, OpKept
<1>7. refcnt'[d] = IF d = op[u].dev THEN refcnt[d] + 1 ELSE refcnt[d]
  BY <1>1 DEF libusb_ref_device
<1>8. allocated' = allocated
  BY <1>1 DEF NothingElse
<1>9. CASE d # op[u].dev
  <2>1. UserKept(d)
    BY <1>4, <1>6, <1>9 DEF UserKept
  <2> QED BY <1>3, <1>7, <1>8, <1>9, <2>1, Untouched
<1>10. CASE d = op[u].dev
  <2>0. Opening(d) \in SUBSET Users /\ u \in Listing(d)
    BY <1>1, <1>10 DEF Opening, Listing, UserInv
  <2>1. Cardinality(Opening(d))' = Cardinality(Opening(d)) + 1
    BY <1>5, <1>6, <1>10, <2>0, Added
  <2>2. /\ Cardinality(Having(d))' = Cardinality(Having(d)) + 0
        /\ Cardinality(Listing(d))' = Cardinality(Listing(d)) + 0
    BY <1>4, Terms
  <2>3. d <= allocated' /\ allocated' \in Nat
    BY <1>8, <2>0, Allocated
  <2>4. refcnt'[d] = refcnt[d] + (0 + 0 + 0 + 0 + 1)
    BY <1>7, <1>10, TypeFacts
  <2> QED BY <1>3, <2>1, <2>2, <2>3, <2>4, Balanced
<1> QED BY <1>9, <1>10

LEMMA CountOpened ==
  ASSUME TypeInv, UserInv, CountInv, NEW u \in Users, OpenBackend(u)
  PROVE CountInv'
<1> SUFFICES ASSUME NEW d \in Devs PROVE CountAt(d)'
  BY CountOf DEF CountInv, CountAt
<1>1. op[u].step = "open" /\ lists' = lists /\ UNCHANGED refcnt /\ NothingElse
  BY DEF OpenBackend, At, NothingElse, devVars, lockVars, eventVars
<1>2. /\ CountAt(d)
      /\ FirstKept(d)
      /\ FirstReference(d)' = FirstReference(d) + 0 /\ FirstReference(d)' \in {0, 1}
      /\ LookedUp(d)' <=> LookedUp(d)
      /\ One(LookedUp(d))' = One(LookedUp(d)) + 0
  BY <1>1, CountOf, NothingElseFirst
<1>3. Listing(d)' = Listing(d) /\ allocated' = allocated /\ refcnt'[d] = refcnt[d]
  BY <1>1 DEF Listing, NothingElse
<1>4. CASE session[op[u].dev] \notin bus
  <2>1. Go(u, "failed") /\ handles' = handles
    BY <1>4 DEF OpenBackend
  <2>2. OpKept(u) /\ op'[u].step = "failed" /\ op'[u].dev = op[u].dev
    BY <2>1, TypeFacts, OpGoes
  <2>3. UserKept(d)
    BY <1>1, <1>3, <2>1, <2>2 DEF UserKept, Having, Opening, OpKept
  <2> QED BY <1>2, <1>3, <2>3, Untouched
<1>5. CASE session[op[u].dev] \in bus
  <2>1. op' = [op EXCEPT ![u] = Idle] /\ handles' = [handles EXCEPT ![u] = op[u].dev]
    BY <1>5 DEF OpenBackend
  <2>2. OpKept(u) /\ op'[u].step = "idle"
    BY <2>1, TypeFacts, OpEnds
  <2>3. \A v \in Users : handles'[v] = IF v = u THEN op[u].dev ELSE handles[v]
    BY <2>1, TypeFacts
  <2>4. handles[u] = NoDev /\ u \notin Having(d)
    BY <1>1, TypeFacts DEF UserInv, Having
  <2>5. /\ Opening(d)' = IF d = op[u].dev THEN Opening(d) \ {u} ELSE Opening(d)
        /\ d = op[u].dev => u \in Opening(d)
    BY <1>1, <2>2 DEF Opening, OpKept
  <2>6. Having(d)' = IF d = op[u].dev THEN Having(d) \cup {u} ELSE Having(d)
    BY <2>3, <2>4 DEF Having
  <2>7. CASE d # op[u].dev
    <3>1. UserKept(d)
      BY <1>3, <2>5, <2>6, <2>7 DEF UserKept
    <3> QED BY <1>2, <1>3, <3>1, Untouched
  <2>8. CASE d = op[u].dev
    <3>1. Opening(d) \in SUBSET Users /\ Having(d) \in SUBSET Users
      BY DEF Opening, Having
    <3>2. Cardinality(Opening(d))' = Cardinality(Opening(d)) + (-1)
      BY <2>5, <2>8, <3>1, Removed
    <3>3. Cardinality(Having(d))' = Cardinality(Having(d)) + 1
      BY <2>4, <2>6, <2>8, <3>1, Added
    <3>4. Cardinality(Listing(d))' = Cardinality(Listing(d)) + 0
      BY <1>3, Terms
    <3>5. d <= allocated' /\ allocated' \in Nat
      BY <1>3, <2>5, <2>8, Allocated
    <3>6. refcnt'[d] = refcnt[d] + (0 + 0 + 0 + 1 + (-1))
      BY <1>3, TypeFacts
    <3> QED BY <1>2, <3>2, <3>3, <3>4, <3>5, <3>6, Balanced
  <2> QED BY <2>7, <2>8
<1> QED BY <1>4, <1>5

LEMMA CountAbandoned ==
  ASSUME TypeInv, UserInv, CountInv, NEW u \in Users, OpenUnref(u)
  PROVE CountInv'
<1> SUFFICES ASSUME NEW d \in Devs PROVE CountAt(d)'
  BY CountOf DEF CountInv, CountAt
<1>1. /\ op[u].step = "unref" /\ libusb_unref_device(op[u].dev)
      /\ op' = [op EXCEPT ![u] = Idle]
      /\ UNCHANGED <<lists, handles>> /\ NothingElse
  BY DEF OpenUnref, At, NothingElse, lockVars, eventVars
<1>2. OpKept(u) /\ op'[u].step = "idle"
  BY <1>1, TypeFacts, OpEnds
<1>3. /\ CountAt(d)
      /\ FirstKept(d)
      /\ FirstReference(d)' = FirstReference(d) + 0 /\ FirstReference(d)' \in {0, 1}
      /\ LookedUp(d)' <=> LookedUp(d)
      /\ One(LookedUp(d))' = One(LookedUp(d)) + 0
  BY <1>1, CountOf, NothingElseFirst
<1>4. Listing(d)' = Listing(d) /\ Having(d)' = Having(d) /\ allocated' = allocated
  BY <1>1 DEF Listing, Having, NothingElse
<1>5. /\ Opening(d)' = IF d = op[u].dev THEN Opening(d) \ {u} ELSE Opening(d)
      /\ d = op[u].dev => u \in Opening(d)
  BY <1>1, <1>2 DEF Opening, OpKept
<1>6. refcnt'[d] = IF d = op[u].dev THEN refcnt[d] - 1 ELSE refcnt[d]
  BY <1>1, TypeFacts DEF libusb_unref_device
<1>7. CASE d # op[u].dev
  <2>1. UserKept(d)
    BY <1>4, <1>5, <1>7 DEF UserKept
  <2> QED BY <1>3, <1>4, <1>6, <1>7, <2>1, Untouched
<1>8. CASE d = op[u].dev
  <2>0. Opening(d) \in SUBSET Users
    BY DEF Opening
  <2>1. Cardinality(Opening(d))' = Cardinality(Opening(d)) + (-1)
    BY <1>5, <1>8, <2>0, Removed
  <2>2. /\ Cardinality(Having(d))' = Cardinality(Having(d)) + 0
        /\ Cardinality(Listing(d))' = Cardinality(Listing(d)) + 0
    BY <1>4, Terms
  <2>3. d <= allocated' /\ allocated' \in Nat
    BY <1>4, <1>5, <1>8, Allocated
  <2>4. refcnt'[d] = refcnt[d] + (0 + 0 + 0 + 0 + (-1))
    BY <1>6, <1>8, TypeFacts
  <2> QED BY <1>3, <2>1, <2>2, <2>3, <2>4, Balanced
<1> QED BY <1>7, <1>8

LEMMA CountClosed ==
  ASSUME TypeInv, CountInv, NEW u \in Users, Close(u)
  PROVE CountInv'
<1> SUFFICES ASSUME NEW d \in Devs PROVE CountAt(d)'
  BY CountOf DEF CountInv, CountAt
<1>1. /\ handles[u] # NoDev /\ libusb_unref_device(handles[u])
      /\ handles' = [handles EXCEPT ![u] = NoDev]
      /\ UNCHANGED <<lists, op>> /\ NothingElse
  BY DEF Close, NothingElse, lockVars, eventVars
<1>2. /\ CountAt(d)
      /\ FirstKept(d)
      /\ FirstReference(d)' = FirstReference(d) + 0 /\ FirstReference(d)' \in {0, 1}
      /\ LookedUp(d)' <=> LookedUp(d)
      /\ One(LookedUp(d))' = One(LookedUp(d)) + 0
  BY <1>1, CountOf, NothingElseFirst
<1>3. Listing(d)' = Listing(d) /\ Opening(d)' = Opening(d) /\ allocated' = allocated
  BY <1>1 DEF Listing, Opening, NothingElse
<1>4. /\ Having(d)' = IF d = handles[u] THEN Having(d) \ {u} ELSE Having(d)
      /\ d = handles[u] => u \in Having(d)
  <2>1. \A v \in Users : handles'[v] = IF v = u THEN NoDev ELSE handles[v]
    BY <1>1, TypeFacts
  <2>2. d # NoDev
    BY TypeFacts
  <2> QED BY <2>1, <2>2 DEF Having
<1>5. refcnt'[d] = IF d = handles[u] THEN refcnt[d] - 1 ELSE refcnt[d]
  BY <1>1, TypeFacts DEF libusb_unref_device
<1>6. CASE d # handles[u]
  <2>1. UserKept(d)
    BY <1>3, <1>4, <1>6 DEF UserKept
  <2> QED BY <1>2, <1>3, <1>5, <1>6, <2>1, Untouched
<1>7. CASE d = handles[u]
  <2>0. Having(d) \in SUBSET Users
    BY DEF Having
  <2>1. Cardinality(Having(d))' = Cardinality(Having(d)) + (-1)
    BY <1>4, <1>7, <2>0, Removed
  <2>2. /\ Cardinality(Opening(d))' = Cardinality(Opening(d)) + 0
        /\ Cardinality(Listing(d))' = Cardinality(Listing(d)) + 0
    BY <1>3, Terms
  <2>3. d <= allocated' /\ allocated' \in Nat
    BY <1>3, <1>4, <1>7, Allocated
  <2>4. refcnt'[d] = refcnt[d] + (0 + 0 + 0 + (-1) + 0)
    BY <1>5, <1>7, TypeFacts
  <2> QED BY <1>2, <2>1, <2>2, <2>3, <2>4, Balanced
<1> QED BY <1>6, <1>7

(* A message that is not about a departure.                                *)
LEMMA AppendedOther ==
  ASSUME TypeInv, NEW m \in Messages, Notify(m), NEW d \in Devs, m # Left(d)
  PROVE Leaving(d)' <=> Leaving(d)
<1>1. CASE phase # "ready"
  BY <1>1 DEF Notify, Leaving
<1>2. CASE phase = "ready"
  <2> DEFINE n == Len(hotplug_msgs)
  <2>1. /\ n \in Nat /\ DOMAIN hotplug_msgs = 1..n /\ DOMAIN hotplug_msgs' = 1..(n + 1)
        /\ \A i \in 1..n : hotplug_msgs'[i] = hotplug_msgs[i]
        /\ hotplug_msgs'[n + 1] = m
    BY <1>2, Notified
  <2> HIDE DEF n
  <2>2. (\E i \in 1..(n + 1) : hotplug_msgs'[i] = Left(d))
          <=> (\E i \in 1..n : hotplug_msgs[i] = Left(d))
    BY <2>1
  <2> QED BY <2>1, <2>2 DEF Leaving
<1> QED BY <1>1, <1>2

LEMMA CountStep ==
  TypeInv /\ UserInv /\ PlaceInv /\ QueueInv /\ CountInv /\ [Next]_vars => CountInv'
<1> SUFFICES ASSUME TypeInv, UserInv, PlaceInv, QueueInv, CountInv, [Next]_vars
             PROVE CountInv'
  OBVIOUS
<1>t. work \in Works /\ op \in [Users -> Ops] /\ (hotplug_lock = None <=> work.step = "none")
  BY TypeFacts
<1> USE DEF busVars, devVars, lockVars, eventVars, cbVars, userVars
<1>k. ASSUME UNCHANGED <<lists, handles, op>> PROVE UsersSame
  BY <1>k DEF UsersSame, Opens
(* Steps that change neither the devices nor the queue, and do not look    *)
(* anything up; and the end of the work.                                   *)
<1>a. ASSUME UsersSame, UNCHANGED <<refcnt, usb_devs, leaked, allocated, hotplug_msgs>>,
             message' = message \/ (\A d \in Devs : message # Left(d) /\ message' # Left(d)),
             \/ UNCHANGED work
             \/ /\ work.step \notin {"detach", "delist", "leave", "unref"}
                /\ work'.step \notin {"detach", "delist", "leave", "unref"}
      PROVE CountInv'
  <2>1. WorkSame
    BY <1>a DEF WorkSame, LookedUp, Departing
  <2>2. QueueSame /\ MessageSame
    BY <1>a DEF QueueSame, MessageSame, Leaving
  <2> QED BY <1>a, <2>1, <2>2, QuietKeepsCount DEF Quiet
<1>b. ASSUME Release \/ WorkDone, UNCHANGED <<lists, handles>>
      PROVE /\ UsersSame /\ work'.step \in {"none", "read"}
            /\ message' = message \/ (\A d \in Devs : message # Left(d) /\ message' # Left(d))
            /\ \A d \in Devs : ~LookedUp(d)' /\ ~Departing(d)'
  <2>1. WorkEnded /\ (message' = message \/ (message.event = "POLLERR" /\ message' = NoMessage))
    BY <1>b, EndedMessage
  <2>2. /\ \A u \in Users, d \in Devs : Opens(u, d)' <=> Opens(u, d)
        /\ \A d \in Devs : ~LookedUp(d)' /\ ~Departing(d)'
    BY <2>1, EndedUsers
  <2>3. work'.step \in {"none", "read"}
    BY <2>1 DEF WorkEnded
  <2>4. \A d \in Devs : Left(d).event = "LEFT" /\ NoMessage # Left(d)
    BY MessageTypes, EventsDiffer
  <2> QED BY <1>b, <2>1, <2>2, <2>3, <2>4 DEF UsersSame
<1>1. ASSUME Starting PROVE CountInv'
  <2>1. CASE InitBackend \/ InitIo
    <3>1. UNCHANGED <<devVars, lockVars, hotplug_msgs, message, userVars>>
      BY <2>1 DEF InitBackend, InitIo
    <3> QED BY <1>a, <1>k, <3>1
  <2>2. CASE ScanStart
    <3>1. UNCHANGED <<devVars, hotplug_msgs, message, userVars>> /\ hotplug_lock = None
      BY <2>2 DEF ScanStart
    <3>2. work.step = "none" /\ work'.step = "scan"
      BY <1>t, <2>2, <3>1 DEF ScanStart, Work
    <3> QED BY <1>a, <1>k, <3>1, <3>2
  <2>3. CASE ScanDevice
    <3>1. UNCHANGED <<hotplug_msgs, message, userVars>> /\ work.step = "scan"
      BY <2>3 DEF ScanDevice
    <3>2. work'.step = "scan"
      BY <1>t, <2>3 DEF ScanDevice, Works
    <3>3. UNCHANGED devVars \/ \E s \in work.todo : linux_enumerate_device(s)
      BY <2>3 DEF ScanDevice
    <3>4. CASE UNCHANGED devVars
      BY <1>a, <1>k, <3>1, <3>2, <3>4
    <3>5. CASE \E s \in work.todo : linux_enumerate_device(s)
      BY <1>k, <3>1, <3>2, <3>5, NewCount
    <3> QED BY <3>3, <3>4, <3>5
  <2>4. CASE ScanEnd
    <3>1. UNCHANGED <<devVars, hotplug_msgs, message, userVars>> /\ work.step = "scan"
      BY <2>4 DEF ScanEnd
    <3>2. work'.step = "none"
      BY <2>4, WorkTypes DEF ScanEnd
    <3> QED BY <1>a, <1>k, <3>1, <3>2
  <2> QED BY <1>1, <2>1, <2>2, <2>3, <2>4 DEF Starting
<1>2. ASSUME MonitorLocks PROVE CountInv'
  <2>1. UNCHANGED <<devVars, hotplug_msgs, message, userVars>> /\ hotplug_lock = None
    BY <1>2 DEF MonitorLocks, Begin
  <2>2. work.step = "none" /\ work'.step = "read"
    BY <1>2, <1>t, <2>1, WorkTypes DEF MonitorLocks, Begin
  <2> QED BY <1>a, <1>k, <2>1, <2>2
<1>3. ASSUME HandlerLocks PROVE CountInv'
  <2>1. /\ UNCHANGED <<devVars, hotplug_msgs, userVars>> /\ hotplug_lock = None
        /\ message.event = "POLLERR" /\ message' \in {message, NoMessage}
    BY <1>3 DEF HandlerLocks, Begin
  <2>2. UNCHANGED work \/ (work.step = "none" /\ work'.step = "find")
    BY <1>3, <1>t, <2>1 DEF HandlerLocks, Begin, Finding, Work
  <2>3. \A d \in Devs : Left(d).event = "LEFT" /\ NoMessage # Left(d)
    BY MessageTypes, EventsDiffer
  <2> QED BY <1>a, <1>k, <2>1, <2>2, <2>3
<1>4. ASSUME ReadNone PROVE CountInv'
  <2>1. /\ UNCHANGED <<devVars, hotplug_msgs, lists, handles>> /\ work.step = "read" /\ Release
    BY <1>4 DEF ReadNone
  <2> QED BY <1>a, <1>b, <2>1
<1>5. ASSUME ReadRemove PROVE CountInv'
  <2>1. UNCHANGED <<devVars, hotplug_msgs, message, userVars>> /\ work.step = "read"
    BY <1>5 DEF ReadRemove
  <2>2. work'.step = "find"
    BY <1>5 DEF ReadRemove, Finding, Work
  <2> QED BY <1>a, <1>k, <2>1, <2>2
<1>6. ASSUME ReadAdd PROVE CountInv'
  <2>1. UNCHANGED <<hotplug_msgs, lists, handles>> /\ work.step = "read"
    BY <1>6 DEF ReadAdd
  <2>2. CASE Addable(Head(netlink)[2])
    <3>1. linux_enumerate_device(Head(netlink)[2]) /\ UNCHANGED <<message, op>>
      BY <1>6, <2>2 DEF ReadAdd
    <3>2. work'.step = "arrive"
      BY <1>6, <2>2 DEF ReadAdd, Work
    <3> QED BY <1>k, <2>1, <3>1, <3>2, NewCount
  <2>3. CASE ~Addable(Head(netlink)[2])
    <3>1. WorkDone /\ UNCHANGED devVars
      BY <1>6, <2>3 DEF ReadAdd
    <3> QED BY <1>a, <1>b, <2>1, <3>1
  <2> QED BY <2>2, <2>3
<1>7. ASSUME Arrive PROVE CountInv'
  <2>1. /\ work.step = "arrive" /\ Notify(Arrived(work.dev)) /\ WorkDone
        /\ UNCHANGED <<devVars, lists, handles>>
    BY <1>7 DEF Arrive
  <2>2. work.dev \in Devs
    BY <2>1 DEF TypeInv, WorkIsLocked
  <2>3. QueueSame
    BY <2>1, <2>2, MessageTypes, EventsDiffer, AppendedOther DEF QueueSame
  <2>4. WorkSame /\ MessageSame /\ UsersSame
    <3>1. /\ UsersSame /\ \A d \in Devs : ~LookedUp(d)' /\ ~Departing(d)'
          /\ message' = message \/ (\A d \in Devs : message # Left(d) /\ message' # Left(d))
      BY <1>b, <2>1
    <3> QED BY <2>1, <3>1 DEF WorkSame, MessageSame, LookedUp, Departing
  <2> QED BY <2>1, <2>3, <2>4, QuietKeepsCount DEF Quiet
<1>8. ASSUME Find PROVE CountInv'
  <2>1. /\ UNCHANGED <<hotplug_msgs, lists, handles, usb_devs, leaked, allocated>>
        /\ work.step = "find"
    BY <1>8 DEF Find
  <2>2. CASE WorkDone /\ UNCHANGED refcnt
    BY <1>a, <1>b, <2>1, <2>2
  <2>3. CASE ~(WorkDone /\ UNCHANGED refcnt)
    <3>1. PICK d \in usb_devs : FoundBySession(d) /\ work' = Work("detach", d, {})
      BY <1>8, <2>3 DEF Find, WithSession
    <3>2. UNCHANGED <<message, op>>
      BY <1>8, <2>3 DEF Find
    <3> QED BY <1>k, <2>1, <3>1, <3>2, CountFound
  <2> QED BY <2>2, <2>3
<1>9. ASSUME Detach PROVE CountInv'
  <2>1. /\ UNCHANGED <<refcnt, usb_devs, leaked, allocated, hotplug_msgs, message, userVars>>
        /\ work.step = "detach" /\ Then("delist")
    BY <1>9 DEF Detach
  <2>2. work'.step = "delist" /\ work'.dev = work.dev
    BY <1>t, <2>1, WorkGoes
  <2>3. WorkSame /\ QueueSame /\ MessageSame
    BY <2>1, <2>2 DEF WorkSame, QueueSame, MessageSame, LookedUp, Departing, Leaving
  <2> QED BY <1>k, <2>1, <2>3, QuietKeepsCount DEF Quiet
<1>10. ASSUME Delist \/ Leave PROVE CountInv'
  BY <1>10, CountDelisted, CountLeft
<1>11. ASSUME Unref PROVE CountInv'
  <2>1. /\ UNCHANGED <<hotplug_msgs, lists, handles, usb_devs, leaked, allocated>>
        /\ work.step = "unref" /\ libusb_unref_device(work.dev) /\ WorkDone
    BY <1>11 DEF Unref
  <2>2. /\ UsersSame /\ \A d \in Devs : ~LookedUp(d)' /\ ~Departing(d)'
        /\ message' = message \/ (\A d \in Devs : message # Left(d) /\ message' # Left(d))
    BY <1>b, <2>1
  <2>3. MessageSame
    BY <2>2 DEF MessageSame
  <2> QED BY <2>1, <2>2, <2>3, CountUnref
<1>12. ASSUME Handling PROVE CountInv'
  <2>1. CASE usbi_hotplug_match
    <3>1. UNCHANGED <<devVars, lockVars, hotplug_msgs, message, userVars>>
      BY <2>1 DEF usbi_hotplug_match
    <3> QED BY <1>a, <1>k, <3>1
  <2>2. ASSUME NEW u \in Users, HandleError(u) PROVE CountInv'
    <3>1. /\ UNCHANGED <<devVars, lockVars, hotplug_msgs, lists, handles, op>>
          /\ message = NoMessage /\ message' = PollError(handles[u]) /\ fd[u] = "error"
      BY <2>2 DEF HandleError
    <3>2. handles[u] \in Devs
      BY <3>1 DEF TypeInv, WorkIsLocked
    <3>3. \A d \in Devs : message # Left(d) /\ message' # Left(d)
      BY <3>1, <3>2, EventsDiffer
    <3> QED BY <1>a, <1>k, <3>1, <3>3
  <2> QED BY <1>12, <2>1, <2>2, CountTaken, CountEnded DEF Handling
<1>13. ASSUME Exit PROVE CountInv'
  BY <1>13, CountExit
<1>14. ASSUME NEW s \in Sessions, Plug(s) \/ Unplug(s) PROVE CountInv'
  <2>1. UNCHANGED <<devVars, lockVars, hotplug_msgs, message, lists, handles, op>>
    BY <1>14 DEF Plug, Unplug
  <2> QED BY <1>a, <1>k, <2>1
<1>15. ASSUME NEW u \in Users, User(u) PROVE CountInv'
  (* What the user does next refers to no other device than before.         *)
  <2>0. ASSUME UNCHANGED <<devVars, hotplug_msgs, message, lists, handles>>, OpKept(u),
               \A d \in Devs : Opens(u, d)' <=> Opens(u, d),
               UNCHANGED work \/ (work.step = "none" /\ work'.step \in {"read", "find"})
        PROVE CountInv'
    <3>1. UsersSame
      BY <2>0 DEF UsersSame, OpKept, Opens
    <3> QED BY <1>a, <2>0, <3>1
  <2>1. ASSUME PollLocks(u) PROVE CountInv'
    <3>1. UNCHANGED <<devVars, hotplug_msgs, message, userVars>> /\ hotplug_lock = None
      BY <2>1 DEF PollLocks, Begin
    <3>2. work.step = "none" /\ work'.step = "read"
      BY <1>t, <2>1, <3>1, WorkTypes DEF PollLocks, Begin
    <3> QED BY <1>a, <1>k, <3>1, <3>2
  <2>2. ASSUME OpenFailedLocks(u) PROVE CountInv'
    <3>1. /\ UNCHANGED <<devVars, hotplug_msgs, message, lists, handles>>
          /\ hotplug_lock = None /\ op[u].step = "failed"
      BY <2>2 DEF OpenFailedLocks
    <3>2. CASE UNCHANGED op
      <4>1. work.step = "none" /\ (UNCHANGED work \/ work'.step = "find")
        BY <1>t, <2>2, <3>1 DEF OpenFailedLocks, Begin, Finding, Work
      <4> QED BY <1>a, <1>k, <3>1, <3>2, <4>1
    <3>3. CASE op' = [op EXCEPT ![u].step = "unref"] /\ UNCHANGED lockVars
      <4>1. OpKept(u) /\ op'[u].step = "unref" /\ op'[u].dev = op[u].dev
        BY <1>t, <3>3, OpGoes DEF Go
      <4> QED BY <2>0, <3>1, <3>3, <4>1 DEF Opens
    <3> QED BY <2>2, <3>2, <3>3 DEF OpenFailedLocks
  <2>3. ASSUME TakeList(u) \/ OpenRef(u) \/ OpenBackend(u) \/ OpenUnref(u) \/ Close(u)
               \/ FreeListed(u)
        PROVE CountInv'
    BY <2>3, CountListed, CountReferred, CountOpened, CountAbandoned, CountClosed,
        CountFreed
  <2>4. ASSUME TellRegistered(u) \/ ToldRegistered(u) \/ RegisterEnd(u) PROVE CountInv'
    <3>1. /\ UNCHANGED <<devVars, lockVars, hotplug_msgs, message, lists, handles>>
          /\ op[u].step \in {"tell", "free"}
      BY <2>4 DEF TellRegistered, ToldRegistered, RegisterEnd, At
    <3>2. OpKept(u) /\ op'[u].step \in {"tell", "free", "idle"}
      <4>1. CASE TellRegistered(u)
        BY <1>t, <3>1, <4>1, OpHasTold DEF TellRegistered, At
      <4>2. CASE ToldRegistered(u)
        BY <1>t, <4>2, OpGoes DEF ToldRegistered
      <4>3. CASE RegisterEnd(u)
        BY <1>t, <4>3, OpEnds DEF RegisterEnd
      <4> QED BY <2>4, <4>1, <4>2, <4>3
    <3> QED BY <2>0, <3>1, <3>2 DEF Opens
  <2>5. ASSUME GetDeviceList(u) PROVE CountInv'
    <3>1. /\ UNCHANGED <<devVars, lockVars, hotplug_msgs, message, lists, handles>>
          /\ op[u].step = "idle"
      BY <2>5 DEF GetDeviceList, Ready, At
    <3>2. OpKept(u) /\ op'[u].step = "poll"
      BY <1>t, <2>5, OpGoes DEF GetDeviceList
    <3> QED BY <2>0, <3>1, <3>2 DEF Opens
  <2>6. ASSUME Open(u) PROVE CountInv'
    <3>1. /\ UNCHANGED <<devVars, lockVars, hotplug_msgs, message, lists, handles>>
          /\ op[u].step = "idle"
      BY <2>6 DEF Open, Ready, At
    <3>2. PICK d \in lists[u] : op' = [op EXCEPT ![u] = Op("ref", d, None)]
      BY <2>6 DEF Open
    <3>3. d \in Devs
      BY TypeFacts
    <3>4. OpKept(u) /\ op'[u].step = "ref"
      BY <1>t, <3>2, <3>3, OpOpens
    <3> QED BY <2>0, <3>1, <3>4 DEF Opens
  <2>7. ASSUME NEW c \in Callbacks, Register(u, c) PROVE CountInv'
    <3>1. /\ UNCHANGED <<devVars, lockVars, hotplug_msgs, message, lists, handles>>
          /\ op[u].step = "idle"
      BY <2>7 DEF Register, Ready, At
    <3>2. OpKept(u) /\ op'[u].step = "poll"
      BY <1>t, <2>7, OpRegisters DEF Register
    <3> QED BY <2>0, <3>1, <3>2 DEF Opens
  <2>8. ASSUME NEW c \in Callbacks, Deregister(u, c) PROVE CountInv'
    <3>1. UNCHANGED <<devVars, lockVars, message, userVars>> /\ Notify(Deregistered)
      BY <2>8 DEF Deregister
    <3>2. QueueSame
      BY <3>1, MessageTypes, EventsDiffer, AppendedOther DEF QueueSame
    <3>3. WorkSame /\ MessageSame
      BY <3>1 DEF WorkSame, MessageSame, LookedUp, Departing
    <3> QED BY <1>k, <3>1, <3>2, <3>3, QuietKeepsCount DEF Quiet
  <2> QED BY <1>15, <2>1, <2>2, <2>3, <2>4, <2>5, <2>6, <2>7, <2>8 DEF User, Continue,
          FreeWhen
<1>16. ASSUME UNCHANGED vars PROVE CountInv'
  <2>1. UNCHANGED <<devVars, lockVars, hotplug_msgs, message, userVars>>
    BY <1>16 DEF vars
  <2> QED BY <1>a, <1>k, <2>1
<1> QED BY <1>1, <1>2, <1>3, <1>4, <1>5, <1>6, <1>7, <1>8, <1>9, <1>10, <1>11, <1>12,
           <1>13, <1>14, <1>15, <1>16 DEF Next, Working

LEMMA EmptyDomain == DOMAIN <<>> = {}
OBVIOUS

LEMMA ReferencesInit == DevicesInit => SessionInv /\ UserInv /\ PlaceInv /\ QueueInv /\ CountInv
<1> SUFFICES ASSUME DevicesInit PROVE SessionInv /\ UserInv /\ PlaceInv /\ QueueInv /\ CountInv
  OBVIOUS
<1>1. SessionInv
  BY TypeInit DEF DevicesInit, SessionInv, OnePerSession, NoWork, Work, Devs
<1>2. TypeInv /\ hotplug_msgs = <<>> /\ message = NoMessage /\ message.event = "no message"
  BY <1>1, MessageTypes DEF SessionInv, DevicesInit
<1>3. work.step = "none" /\ work.dev = NoDev /\ hotplug_lock = None
  BY WorkTypes DEF DevicesInit
<1>4. \A u \in Users : /\ op[u].step = "idle" /\ op[u].dev = NoDev
                       /\ lists[u] = {} /\ handles[u] = NoDev
  BY DEF DevicesInit, Idle, Op
<1>5. UserInv
  BY <1>4 DEF UserInv
<1>6. PlaceInv
  BY <1>2, <1>3, UsbDevicesAssumption DEF PlaceInv
<1>7. QueueInv
  <2>1. DOMAIN hotplug_msgs = {}
    BY <1>2, EmptyDomain
  <2>2. \A d \in Devs : message # Arrived(d)
    BY <1>2, EventsDiffer
  <2> QED BY <1>2, <2>1, <2>2 DEF QueueInv
<1>8. ASSUME NEW d \in Devs PROVE CountAt(d)
  <2>0. /\ usb_devs = {} /\ leaked = {} /\ DOMAIN hotplug_msgs = {}
        /\ message # Left(d)
    BY <1>2, EmptyDomain, EventsDiffer DEF DevicesInit
  <2>1. /\ ~LookedUp(d) /\ ~Departing(d) /\ ~Leaving(d) /\ message # Left(d)
        /\ d \notin usb_devs /\ d \notin leaked
    BY <1>3, <2>0 DEF LookedUp, Departing, Leaving
  <2>2. Listing(d) = {} /\ Having(d) = {} /\ Opening(d) = {}
    BY <1>4, TypeFacts, <1>2 DEF Listing, Having, Opening
  <2>3. FirstReference(d) = 0 /\ One(LookedUp(d)) = 0
    BY <2>1 DEF FirstReference, One, Departing
  <2>4. refcnt[d] = 0
    BY DEF DevicesInit
  <2> QED BY <2>2, <2>3, <2>4, FS_EmptySet DEF CountAt, Counted
<1> QED BY <1>1, <1>5, <1>6, <1>7, <1>8, CountOf

(* Between its steps, what anybody has of a device is a live one: its      *)
(* references are counted exactly, whoever attaches, removes, opens,       *)
(* closes and is told of it, in whatever order (core.c, hotplug.c).        *)
THEOREM RefsExactCorrect == DevicesSpec => []RefsExact
<1> DEFINE Inv == SessionInv /\ UserInv /\ PlaceInv /\ QueueInv /\ CountInv
<1>1. DevicesInit => Inv
  BY ReferencesInit
<1>2. Inv /\ [Next]_vars => Inv'
  <2> SUFFICES ASSUME Inv, [Next]_vars PROVE Inv'  OBVIOUS
  <2>1. TypeInv
    BY DEF SessionInv
  <2> QED BY <2>1, SessionStep, UserStep, PlaceStep, QueueStep, CountStep
<1>3. Inv => RefsExact
  <2> SUFFICES ASSUME Inv PROVE RefsExact  OBVIOUS
  <2>t. TypeInv
    BY DEF SessionInv
  <2>1. ASSUME NEW d \in Devs PROVE FirstReference(d) \in {0, 1} /\ Counted(d)
    BY DEF CountInv
  <2>2. ASSUME NEW d \in Devs,
               \/ d \in usb_devs \/ Departing(d) \/ Leaving(d) \/ message = Left(d)
               \/ \E u \in Users : u \in Listing(d) \cup Having(d) \cup Opening(d)
        PROVE Live(d)
    BY <2>t, <2>2, ReferredIsLive DEF Live
  <2>3. ASSUME NEW i \in DOMAIN hotplug_msgs, hotplug_msgs[i] # Deregistered
        PROVE Live(hotplug_msgs[i].dev)
    <3>1. hotplug_msgs[i] \in Messages
      BY <2>t, TypeFacts
    <3> DEFINE d == hotplug_msgs[i].dev
    <3>2. d \in Devs /\ (hotplug_msgs[i] = Arrived(d) \/ hotplug_msgs[i] = Left(d))
      BY <2>3, <3>1, MessageCases
    <3>3. d \in usb_devs \/ Departing(d) \/ Leaving(d)
      BY <3>2 DEF QueueInv, LeftLater, Leaving
    <3> QED BY <2>2, <3>2, <3>3
  <2>4. ASSUME message \notin {NoMessage, Deregistered} PROVE Live(message.dev)
    <3> DEFINE d == message.dev
    <3>1. CASE message \in Messages
      <4>1. d \in Devs /\ (message = Arrived(d) \/ message = Left(d))
        BY <2>4, <3>1, MessageCases
      <4>2. d \in usb_devs \/ Departing(d) \/ Leaving(d) \/ message = Left(d)
        BY <4>1 DEF QueueInv
      <4> QED BY <2>2, <4>1, <4>2
    <3>2. CASE \E e \in Devs : message = PollError(e)
      <4>0. PICK e \in Devs : message = PollError(e)
        BY <3>2
      <4>1. message.event = "POLLERR" /\ d = e
        BY <4>0, MessageTypes
      <4>2. PICK u \in Users : handles[u] = d
        BY <4>1 DEF PlaceInv
      <4>3. u \in Having(d)
        BY <4>2 DEF Having
      <4> QED BY <2>2, <4>1, <4>3
    <3>3. message \in Messages \/ \E e \in Devs : message = PollError(e)
      <4>1. message \in Messages \cup {NoMessage} \cup {PollError(e) : e \in Devs}
        BY <2>t DEF TypeInv, DevicesTypeOK
      <4>2. message # NoMessage
        BY <2>4
      <4> QED BY <4>1, <4>2
    <3> QED BY <3>1, <3>2, <3>3
  <2>5. ASSUME NEW u \in Users, op[u].dev # NoDev PROVE Live(op[u].dev)
    <3> DEFINE d == op[u].dev
    <3>1. op[u].step \in {"ref", "open", "failed", "unref"} /\ d \in Devs
      BY <2>5, <2>t DEF UserInv, TypeInv, WorkIsLocked
    <3>2. u \in Listing(d) \cup Opening(d)
      BY <3>1 DEF UserInv, Listing, Opening
    <3> QED BY <2>2, <3>1, <3>2
  <2> QED BY <2>1, <2>3, <2>4, <2>5 DEF RefsExact, QueueInv, Counted
<1> QED BY <1>1, <1>2, <1>3, PTL DEF DevicesSpec

-----------------------------------------------------------------------------
(* The list and the bus.  The last unread message about a session says     *)
(* whether a device is in that place now.                                  *)
Pending(s) == \E i \in DOMAIN netlink : netlink[i][2] = s
RemovePending(s) == \E i \in DOMAIN netlink : netlink[i] = <<"remove", s>>
LastSays(s) ==
  \E i \in DOMAIN netlink :
    /\ netlink[i][2] = s /\ (netlink[i][1] = "add" <=> s \in bus)
    /\ \A j \in DOMAIN netlink : j > i => netlink[j][2] # s

NewsInv ==
  /\ \A s \in Sessions : Pending(s) => LastSays(s)
  /\ ~Monitored => netlink = <<>>

(* What nothing is pending about is right in the list, or is being put     *)
(* right.                                                                  *)
Listed(s) == \E d \in usb_devs : session[d] = s
Removing(s) ==
  \/ work.step = "find" /\ s \in work.todo
  \/ work.step \in {"detach", "delist"} /\ session[work.dev] = s
ToScan(s) == work.step = "scan" /\ s \in work.todo

InStep(s) ==
  /\ Listed(s) /\ ~Removing(s) => s \in bus
  /\ Removing(s) => s \notin bus
  /\ ToScan(s) => s \in bus
  /\ s \in bus => Listed(s) \/ ToScan(s) \/ (phase = "active" /\ work.step # "scan")

BusInv == Monitored => \A s \in Sessions : ~Pending(s) => InStep(s)

(* Whoever finds out that a device has gone, before the monitor does, is   *)
(* right about it: as long as the device is marked as attached, a message  *)
(* that it has gone is unread, or it is being removed.                     *)
Erring(u, d) ==
  \/ op[u].dev = d /\ op[u].step = "failed"
  \/ handles[u] = d /\ fd[u] = "error"
Suspect(d) == message = PollError(d) \/ \E u \in Users : Erring(u, d)
GoneFrom(d) ==
  \/ RemovePending(session[d])
  \/ work.step = "find" /\ session[d] \in work.todo
  \/ work.step = "detach" /\ work.dev = d

SuspectInv ==
  phase = "ready" => \A d \in Devs : attached[d] /\ Suspect(d) => GoneFrom(d)

StageInv ==
  /\ \A u \in Users : op[u].step # "idle" \/ fd[u] # "none" => phase = "ready"
  /\ phase = "none" => usb_devs = {} /\ work.step = "none"
  /\ work.step = "find" => \E s \in Sessions : work.todo = {s}

BaseInv == SessionInv /\ UserInv /\ PlaceInv /\ QueueInv /\ CountInv

LEMMA BaseStep == BaseInv /\ [Next]_vars => BaseInv'
<1> SUFFICES ASSUME BaseInv, [Next]_vars PROVE BaseInv'  OBVIOUS
<1>1. TypeInv
  BY DEF BaseInv, SessionInv
<1> QED BY <1>1, SessionStep, UserStep, PlaceStep, QueueStep, CountStep DEF BaseInv

LEMMA BaseFacts ==
  ASSUME BaseInv
  PROVE /\ TypeInv /\ SessionInv /\ UserInv /\ PlaceInv /\ QueueInv /\ CountInv
        /\ OnePerSession
        /\ work \in Works /\ op \in [Users -> Ops] /\ usb_devs \subseteq Devs
        /\ usb_devs \subseteq 1..allocated /\ allocated \in Nat /\ Devs \subseteq Nat
        /\ (hotplug_lock = None <=> work.step = "none")
        /\ handles \in [Users -> Devs \cup {NoDev}] /\ NoDev \notin Devs
        /\ netlink \in Seq({"add", "remove"} \X Sessions)
        /\ session \in [Devs -> Sessions] /\ attached \in [Devs -> BOOLEAN]
        /\ bus \subseteq Sessions
<1>1. TypeInv /\ SessionInv /\ UserInv /\ PlaceInv /\ QueueInv /\ CountInv /\ OnePerSession
  BY DEF BaseInv, SessionInv
<1>2. /\ netlink \in Seq({"add", "remove"} \X Sessions)
      /\ session \in [Devs -> Sessions] /\ attached \in [Devs -> BOOLEAN]
      /\ bus \subseteq Sessions
  BY <1>1 DEF TypeInv, DevicesTypeOK
<1> QED BY <1>1, <1>2, TypeFacts

(* Which steps change who is busy, and what is looked for.                 *)
LEMMA StageStep == BaseInv /\ StageInv /\ [Next]_vars => StageInv'
<1> SUFFICES ASSUME BaseInv, StageInv, [Next]_vars PROVE StageInv'  OBVIOUS
<1>t. /\ work \in Works /\ op \in [Users -> Ops] /\ TypeInv /\ QueueInv /\ UserInv
      /\ (hotplug_lock = None <=> work.step = "none")
      /\ netlink \in Seq({"add", "remove"} \X Sessions)
      /\ session \in [Devs -> Sessions]
      /\ fd \in [Users -> {"none", "open", "error", "removed"}]
  <2>1. fd \in [Users -> {"none", "open", "error", "removed"}]
    BY BaseFacts DEF TypeInv, DevicesTypeOK
  <2> QED BY <2>1, BaseFacts
<1> USE DEF busVars, devVars, lockVars, eventVars, cbVars, userVars
<1>a. ASSUME \A u \in Users : op'[u].step # "idle" \/ fd'[u] # "none"
                                => \/ op[u].step # "idle" \/ fd[u] # "none"
                                   \/ phase = "ready",
             phase' = phase, phase = "none" => usb_devs' = usb_devs /\ work' = work,
             work'.step = "find" => UNCHANGED work \/ \E s \in Sessions : work'.todo = {s}
      PROVE StageInv'
  BY <1>a DEF StageInv
<1>b. phase = "none" => work.step = "none"
  BY DEF StageInv
<1>c. ASSUME NEW u \in Users, op[u].step # "idle" PROVE phase = "ready"
  BY <1>c DEF StageInv
<1>d. ASSUME WorkEnded, UNCHANGED <<fd, phase, usb_devs>>, work.step # "none"
      PROVE StageInv'
  <2>1. \A u \in Users : op'[u].step # "idle" => op[u].step # "idle"
    BY <1>d DEF WorkEnded
  <2>2. work'.step # "find"
    BY <1>d DEF WorkEnded
  <2>3. phase # "none"
    BY <1>b, <1>d
  <2> QED BY <1>a, <1>d, <2>1, <2>2, <2>3
<1>e. ASSUME NEW u \in Users, OpKept(u), phase' = phase, phase = "ready",
             UNCHANGED <<usb_devs, work>>
      PROVE StageInv'
  BY <1>a, <1>e DEF StageInv
<1>1. ASSUME InitBackend \/ InitIo PROVE StageInv'
  BY <1>1 DEF InitBackend, InitIo, StageInv
<1>2. ASSUME ScanStart PROVE StageInv'
  <2>1. work'.step = "scan" /\ phase = "active"
    BY <1>2 DEF ScanStart, Work
  <2> QED BY <1>2, <1>a, <2>1 DEF ScanStart
<1>3. ASSUME ScanDevice PROVE StageInv'
  <2>1. work'.step = "scan" /\ phase # "none"
    BY <1>t, <1>b, <1>3 DEF ScanDevice, Works
  <2> QED BY <1>3, <1>a, <2>1 DEF ScanDevice
<1>4. ASSUME ScanEnd PROVE StageInv'
  <2>1. work'.step = "none" /\ phase' = "scanned" /\ phase = "active"
    BY <1>4, WorkTypes DEF ScanEnd, BaseInv, SessionInv
  <2>2. UNCHANGED <<op, fd>>
    BY <1>4 DEF ScanEnd
  <2> QED BY <2>1, <2>2 DEF StageInv
<1>5. ASSUME MonitorLocks PROVE StageInv'
  <2>1. work'.step = "read" /\ phase # "none"
    BY <1>5, WorkTypes DEF MonitorLocks, Begin, Monitored
  <2> QED BY <1>5, <1>a, <2>1 DEF MonitorLocks
<1>6. ASSUME HandlerLocks PROVE StageInv'
  <2>1. message.dev \in Devs /\ phase = "ready"
    BY <1>6, <1>t, PollDev, EventsDiffer DEF HandlerLocks, QueueInv
  <2>2. UNCHANGED work \/ work' = Finding(session[message.dev])
    BY <1>6 DEF HandlerLocks, Begin
  <2>3. session[message.dev] \in Sessions
    BY <1>t, <2>1
  <2>4. work'.step = "find" => UNCHANGED work \/ \E s \in Sessions : work'.todo = {s}
    BY <2>2, <2>3, WorkTypes
  <2> QED BY <1>6, <1>a, <2>1, <2>4 DEF HandlerLocks
<1>7. ASSUME ReadNone PROVE StageInv'
  BY <1>7, <1>t, <1>d, ReleaseEnds DEF ReadNone
<1>8. ASSUME ReadRemove PROVE StageInv'
  <2>1. Head(netlink)[2] \in Sessions
    BY <1>t, <1>8 DEF ReadRemove
  <2>2. work' = Finding(Head(netlink)[2]) /\ phase # "none"
    BY <1>b, <1>8 DEF ReadRemove
  <2> QED BY <1>8, <1>a, <2>1, <2>2, WorkTypes DEF ReadRemove
<1>9. ASSUME ReadAdd PROVE StageInv'
  <2>1. CASE Addable(Head(netlink)[2])
    <3>1. work'.step = "arrive" /\ phase # "none" /\ UNCHANGED op
      BY <1>b, <1>9, <2>1 DEF ReadAdd, Work
    <3> QED BY <1>9, <1>a, <3>1 DEF ReadAdd
  <2>2. CASE ~Addable(Head(netlink)[2])
    BY <1>9, <1>t, <1>d, <2>2, WorkDoneEnds DEF ReadAdd
  <2> QED BY <2>1, <2>2
<1>10. ASSUME Arrive \/ Unref PROVE StageInv'
  BY <1>10, <1>t, <1>d, WorkDoneEnds DEF Arrive, Unref
<1>11. ASSUME Find PROVE StageInv'
  <2>1. CASE WorkDone
    BY <1>11, <1>t, <1>d, <2>1, WorkDoneEnds DEF Find
  <2>2. CASE ~WorkDone
    <3>1. work'.step = "detach" /\ phase # "none" /\ UNCHANGED op
      BY <1>b, <1>11, <2>2 DEF Find, Work
    <3> QED BY <1>11, <1>a, <3>1 DEF Find
  <2> QED BY <2>1, <2>2
<1>12. ASSUME Detach \/ Delist \/ Leave PROVE StageInv'
  <2>1. work'.step # "find" /\ phase # "none"
    BY <1>t, <1>b, <1>12, WorkGoes DEF Detach, Delist, Leave
  <2>2. UNCHANGED <<phase, op, fd>>
    BY <1>12 DEF Detach, Delist, Leave
  <2> QED BY <1>a, <2>1, <2>2
<1>13. ASSUME Handling PROVE StageInv'
  <2>1. UNCHANGED <<phase, op, usb_devs, work>> /\ phase = "ready"
    BY <1>13 DEF Handling, TakeMessage, usbi_hotplug_match, EndMessage, HandleError
  <2> QED BY <1>a, <2>1
<1>14. ASSUME Exit PROVE StageInv'
  <2>1. \A u \in Users : op[u].step = "idle" /\ handles[u] = NoDev
    BY <1>14 DEF Exit, At
  <2>2. \A u \in Users : fd[u] = "none"
    BY <1>t, <2>1, BaseFacts DEF TypeInv, WorkIsLocked
  <2>3. UNCHANGED <<op, fd, work>> /\ phase' = "gone" /\ work.step = "none"
    BY <1>14, <1>t DEF Exit
  <2> QED BY <2>1, <2>2, <2>3 DEF StageInv
<1>15. ASSUME NEW s \in Sessions, Plug(s) \/ Unplug(s) PROVE StageInv'
  <2>1. \A u \in Users : fd'[u] # "none" => fd[u] # "none"
    BY <1>15, <1>t DEF Plug, Unplug
  <2> QED BY <1>15, <1>a, <2>1 DEF Plug, Unplug
<1>16. ASSUME NEW u \in Users, User(u) PROVE StageInv'
  <2>1. ASSUME PollLocks(u) PROVE StageInv'
    <3>1. work'.step = "read" /\ phase = "ready"
      BY <2>1, <1>c, WorkTypes DEF PollLocks, Begin
    <3> QED BY <2>1, <1>a, <3>1 DEF PollLocks
  <2>2. ASSUME OpenFailedLocks(u) PROVE StageInv'
    <3>1. op[u].step = "failed" /\ phase = "ready" /\ op[u].dev \in Devs
      BY <1>t, <1>c, <2>2 DEF OpenFailedLocks, TypeInv, WorkIsLocked
    <3>2. UNCHANGED work \/ work' = Finding(session[op[u].dev])
      BY <2>2 DEF OpenFailedLocks, Begin
    <3>3. session[op[u].dev] \in Sessions
      BY <1>t, <3>1
    <3>4. work'.step = "find" => UNCHANGED work \/ \E s \in Sessions : work'.todo = {s}
      BY <3>2, <3>3, WorkTypes
    <3> QED BY <2>2, <1>a, <3>1, <3>4 DEF OpenFailedLocks
  <2>3. ASSUME Continue(u), ~PollLocks(u), ~OpenFailedLocks(u),
               At(u, "free") => op[u].step # "idle"
        PROVE StageInv'
    <3>1. phase = "ready" /\ UNCHANGED <<phase, usb_devs, work>>
      BY <1>c, <2>3 DEF Continue, TakeList, OpenRef, OpenBackend, OpenUnref,
            TellRegistered, ToldRegistered, RegisterEnd, FreeWhen, FreeListed, At
    <3> QED BY <1>a, <3>1
  <2>4. ASSUME User(u), ~Continue(u) PROVE StageInv'
    <3>1. phase = "ready" /\ UNCHANGED <<phase, usb_devs, work>>
      BY <2>4 DEF User, GetDeviceList, Open, Close, FreeWhen, FreeListed, Register,
                  Deregister, Ready
    <3> QED BY <1>a, <3>1
  <2> QED BY <1>16, <2>1, <2>2, <2>3, <2>4 DEF At
<1>17. ASSUME UNCHANGED vars PROVE StageInv'
  BY <1>17, <1>a DEF vars
<1> QED BY <1>1, <1>2, <1>3, <1>4, <1>5, <1>6, <1>7, <1>8, <1>9, <1>10, <1>11, <1>12,
           <1>13, <1>14, <1>15, <1>16, <1>17 DEF Next, Starting, Working

(* Messages of the kernel.                                                 *)
LEMMA NewsQuiet ==
  ASSUME UNCHANGED <<bus, netlink>>, NewsInv, Monitored => Monitored'
  PROVE /\ NewsInv'
        /\ \A s : (Pending(s)' <=> Pending(s)) /\ (RemovePending(s)' <=> RemovePending(s))
BY DEF NewsInv, Pending, RemovePending, LastSays

LEMMA NewsTold ==
  ASSUME BaseInv, NewsInv, NEW s \in Sessions, NEW kind \in {"add", "remove"},
         Tell(kind, s), phase' = phase,
         bus' = IF kind = "add" THEN bus \cup {s} ELSE bus \ {s}
  PROVE /\ NewsInv'
        /\ Monitored => Pending(s)'
        /\ Monitored /\ kind = "remove" => RemovePending(s)'
        /\ \A t : RemovePending(t) => RemovePending(t)'
        /\ \A t \in Sessions : t # s => (Pending(t)' <=> Pending(t))
<1>t. netlink \in Seq({"add", "remove"} \X Sessions) /\ bus \subseteq Sessions
  BY BaseFacts
<1>1. CASE ~Monitored
  <2>1. netlink' = netlink /\ netlink = <<>> /\ ~Monitored'
    BY <1>1 DEF Tell, NewsInv, Monitored
  <2> QED BY <1>1, <2>1, EmptyDomain DEF NewsInv, Pending, RemovePending
<1>2. CASE Monitored
  <2> DEFINE n == Len(netlink)
             m == <<kind, s>>
  <2>1. netlink' = Append(netlink, m) /\ Monitored'
    BY <1>2 DEF Tell, Monitored
  <2>2. /\ n \in Nat /\ DOMAIN netlink = 1..n /\ DOMAIN netlink' = 1..(n + 1)
        /\ \A i \in 1..n : netlink'[i] = netlink[i]
        /\ netlink'[n + 1] = m
    BY <1>t, <2>1
  <2>3. m[1] = kind /\ m[2] = s
    OBVIOUS
  <2> HIDE DEF n, m
  <2>4. Pending(s)' /\ LastSays(s)'
    BY <2>2, <2>3 DEF Pending, LastSays
  <2>5. ASSUME NEW t \in Sessions, t # s
        PROVE (Pending(t)' <=> Pending(t)) /\ (LastSays(t) => LastSays(t)')
    <3>1. \A i \in DOMAIN netlink' : netlink'[i][2] = t
                                      => i \in DOMAIN netlink /\ netlink[i][2] = t
      BY <2>2, <2>3, <2>5
    <3>2. \A i \in DOMAIN netlink : i \in DOMAIN netlink' /\ netlink'[i] = netlink[i]
      BY <2>2
    <3>3. t \in bus' <=> t \in bus
      BY <2>5
    <3>4. ASSUME LastSays(t) PROVE LastSays(t)'
      <4>1. PICK i \in DOMAIN netlink :
              /\ netlink[i][2] = t /\ (netlink[i][1] = "add" <=> t \in bus)
              /\ \A j \in DOMAIN netlink : j > i => netlink[j][2] # t
        BY <3>4 DEF LastSays
      <4>2. \A j \in DOMAIN netlink' : j > i => netlink'[j][2] # t
        BY <3>1, <4>1
      <4> QED BY <3>2, <3>3, <4>1, <4>2 DEF LastSays
    <3>5. Pending(t)' <=> Pending(t)
      BY <3>1, <3>2 DEF Pending
    <3> QED BY <3>4, <3>5
  <2>6. \A t : RemovePending(t) => RemovePending(t)'
    BY <2>2 DEF RemovePending
  <2>7. kind = "remove" => RemovePending(s)'
    BY <2>2 DEF RemovePending, m
  <2>8. NewsInv'
    BY <2>1, <2>4, <2>5 DEF NewsInv
  <2> QED BY <2>4, <2>5, <2>6, <2>7, <2>8
<1> QED BY <1>1, <1>2

LEMMA NewsRead ==
  ASSUME BaseInv, NewsInv, netlink # <<>>, netlink' = Tail(netlink), UNCHANGED <<bus, phase>>
  PROVE /\ NewsInv'
        /\ Head(netlink) \in {"add", "remove"} \X Sessions
        /\ \A s \in Sessions :
             /\ Head(netlink)[2] # s => (Pending(s)' <=> Pending(s))
             /\ Head(netlink)[2] = s /\ ~Pending(s)' => (Head(netlink)[1] = "add" <=> s \in bus)
             /\ Head(netlink) # <<"remove", s>> => (RemovePending(s) => RemovePending(s)')
<1>t. netlink \in Seq({"add", "remove"} \X Sessions)
  BY BaseFacts
<1> DEFINE n == Len(netlink)
           h == Head(netlink)
<1>1. /\ n \in Nat \ {0} /\ DOMAIN netlink = 1..n /\ DOMAIN netlink' = 1..(n - 1)
      /\ \A i \in 1..(n - 1) : netlink'[i] = netlink[i + 1]
      /\ h = netlink[1] /\ h \in {"add", "remove"} \X Sessions
  BY <1>t
<1> HIDE DEF n, h
<1>2. ASSUME NEW s \in Sessions
      PROVE /\ h[2] # s => (Pending(s)' <=> Pending(s))
            /\ h[2] = s /\ ~Pending(s)' => (h[1] = "add" <=> s \in bus)
            /\ h # <<"remove", s>> => (RemovePending(s) => RemovePending(s)')
            /\ Pending(s)' => LastSays(s)'
  <2>1. Pending(s)' => Pending(s)
    BY <1>1 DEF Pending
  <2>2. ASSUME Pending(s), h[2] # s PROVE Pending(s)'
    <3>1. PICK i \in 1..n : netlink[i][2] = s
      BY <1>1, <2>2 DEF Pending
    <3>2. i - 1 \in 1..(n - 1) /\ i - 1 + 1 = i
      BY <1>1, <2>2, <3>1
    <3> QED BY <1>1, <3>1, <3>2 DEF Pending
  <2>3. ASSUME RemovePending(s), h # <<"remove", s>> PROVE RemovePending(s)'
    <3>1. PICK i \in 1..n : netlink[i] = <<"remove", s>>
      BY <1>1, <2>3 DEF RemovePending
    <3>2. i - 1 \in 1..(n - 1) /\ i - 1 + 1 = i
      BY <1>1, <2>3, <3>1
    <3> QED BY <1>1, <3>1, <3>2 DEF RemovePending
  <2>4. ASSUME Pending(s)
        PROVE \E i \in 1..n : /\ netlink[i][2] = s /\ (netlink[i][1] = "add" <=> s \in bus)
                              /\ \A j \in 1..n : j > i => netlink[j][2] # s
    BY <1>1, <2>4, SMTT(30) DEF NewsInv, LastSays
  <2>5. ASSUME h[2] = s, ~Pending(s)' PROVE h[1] = "add" <=> s \in bus
    <3>0. 1 \in 1..n /\ Pending(s)
      BY <1>1, <2>5 DEF Pending
    <3>1. PICK i \in 1..n : netlink[i][2] = s /\ (netlink[i][1] = "add" <=> s \in bus)
      BY <2>4, <3>0
    <3>2. CASE i = 1
      BY <1>1, <3>1, <3>2
    <3>3. CASE i # 1
      <4>1. i - 1 \in 1..(n - 1) /\ i - 1 + 1 = i
        BY <1>1, <3>3
      <4>2. netlink'[i - 1] = netlink[i]
        BY <1>1, <4>1
      <4>3. netlink'[i - 1][2] = s /\ i - 1 \in DOMAIN netlink'
        BY <1>1, <3>1, <4>1, <4>2
      <4>4. Pending(s)'
        BY <4>3 DEF Pending
      <4> QED BY <2>5, <4>4
    <3> QED BY <3>2, <3>3
  <2>6. ASSUME Pending(s)' PROVE LastSays(s)'
    <3>1. PICK i \in 1..n : /\ netlink[i][2] = s /\ (netlink[i][1] = "add" <=> s \in bus)
                            /\ \A j \in 1..n : j > i => netlink[j][2] # s
      BY <2>1, <2>4, <2>6
    <3>2. PICK k \in 1..(n - 1) : netlink'[k][2] = s
      BY <1>1, <2>6 DEF Pending
    <3>3. k + 1 \in 1..n /\ netlink[k + 1][2] = s
      BY <1>1, <3>2
    <3>4. i - 1 \in 1..(n - 1) /\ i - 1 + 1 = i
      BY <1>1, <3>1, <3>2, <3>3
    <3>5. netlink'[i - 1] = netlink[i]
      BY <1>1, <3>4
    <3>6. ASSUME NEW j \in 1..(n - 1), j > i - 1 PROVE netlink'[j][2] # s
      <4>1. j + 1 \in 1..n /\ j + 1 > i /\ netlink'[j] = netlink[j + 1]
        BY <1>1, <3>4, <3>6
      <4> QED BY <3>1, <4>1
    <3>7. s \in bus' <=> s \in bus
      OBVIOUS
    <3>8. netlink'[i - 1][2] = s /\ (netlink'[i - 1][1] = "add" <=> s \in bus')
      BY <3>1, <3>5, <3>7
    <3> QED BY <1>1, <3>4, <3>6, <3>8 DEF LastSays
  <2> QED BY <2>1, <2>2, <2>3, <2>5, <2>6
<1>3. Monitored
  BY DEF NewsInv
<1>4. NewsInv'
  BY <1>2, <1>3 DEF NewsInv, Monitored
<1> QED BY <1>1, <1>2, <1>4 DEF h

News == NewsInv /\ BusInv /\ SuspectInv

(* Steps that are not about the list or the bus.                           *)
LEMMA NewsKept ==
  ASSUME News, UNCHANGED <<bus, netlink, phase, session, attached, usb_devs>>,
         \/ UNCHANGED work
         \/ /\ work.step \notin {"scan", "find", "detach", "delist"}
            /\ work'.step \notin {"scan", "find", "detach", "delist"},
         \A d \in Devs : phase = "ready" /\ attached[d] /\ Suspect(d)' => Suspect(d)
  PROVE News'
<1>1. /\ NewsInv' /\ (Monitored' <=> Monitored)
      /\ \A s : (Pending(s)' <=> Pending(s)) /\ (RemovePending(s)' <=> RemovePending(s))
  BY NewsQuiet DEF Monitored, News
<1>2. \A s : (Listed(s)' <=> Listed(s)) /\ (Removing(s)' <=> Removing(s))
             /\ (ToScan(s)' <=> ToScan(s))
  BY DEF Listed, Removing, ToScan
<1>3. \A s : InStep(s) => InStep(s)'
  BY <1>2 DEF InStep
<1>4. BusInv'
  BY <1>1, <1>3 DEF BusInv, News
<1>5. \A d \in Devs : GoneFrom(d) => GoneFrom(d)'
  BY <1>1 DEF GoneFrom
<1>6. SuspectInv'
  BY <1>5 DEF SuspectInv, News
<1> QED BY <1>1, <1>4, <1>6 DEF News

LEMMA ErringKept ==
  ASSUME UNCHANGED <<handles, fd>>, NEW d,
         UNCHANGED op \/ WorkEnded
           \/ \E u \in Users : OpKept(u) /\ op'[u].step # "failed",
         NEW u \in Users, Erring(u, d)'
  PROVE Erring(u, d)
BY DEF Erring, WorkEnded, OpKept

LEMMA SuspectIsKnown ==
  ASSUME BaseInv, NEW d \in Devs, Suspect(d)
  PROVE d <= allocated
<1>1. \E u \in Users : u \in Having(d) \cup Opening(d)
  <2>1. CASE message = PollError(d)
    <3>1. \E u \in Users : handles[u] = d
      BY <2>1, BaseFacts, MessageTypes, ZenonT(30) DEF PlaceInv
    <3> QED BY <3>1 DEF Having
  <2>2. CASE \E u \in Users : Erring(u, d)
    BY <2>2 DEF Erring, Having, Opening
  <2> QED BY <2>1, <2>2 DEF Suspect
<1> QED BY <1>1, BaseFacts, ReferredIsLive

LEMMA NoPollError ==
  \A d \in Devs : NoMessage # PollError(d) /\ \A m \in Messages : m # PollError(d)
<1>1. ASSUME NEW d \in Devs PROVE NoMessage # PollError(d)
  BY EventsDiffer, MessageTypes
<1>2. ASSUME NEW d \in Devs, NEW m \in Messages PROVE m # PollError(d)
  <2>1. m.event # "POLLERR"
    BY EventsDiffer
  <2> QED BY <2>1, MessageTypes
<1> QED BY <1>1, <1>2

(* Work that ends, in a state that it leaves in step.                      *)
LEMMA NewsEnded ==
  ASSUME BaseInv, News, WorkEnded, UNCHANGED <<bus, netlink, phase, session, attached,
                                               usb_devs, handles, fd>>,
         work.step \notin {"scan", "find", "detach", "delist"}
  PROVE News'
<1>1. work'.step \notin {"scan", "find", "detach", "delist"}
  BY DEF WorkEnded
<1>2. ASSUME NEW d \in Devs, Suspect(d)' PROVE Suspect(d)
  <2>1. \A u \in Users : Erring(u, d)' => Erring(u, d)
    BY ErringKept
  <2>2. message' = PollError(d) => message = PollError(d)
    BY NoPollError DEF WorkEnded
  <2> QED BY <1>2, <2>1, <2>2 DEF Suspect
<1> QED BY <1>1, <1>2, NewsKept

(* A device is added that the bus has and the list has not.                *)
LEMMA ListedAdded ==
  ASSUME BaseInv, NEW s \in Sessions, Addable(s), linux_enumerate_device(s)
  PROVE /\ \A t \in Sessions : Listed(t)' <=> Listed(t) \/ t = s
        /\ s \in bus
        /\ \A d \in Devs : d <= allocated => session'[d] = session[d] /\ attached'[d] = attached[d]
<1> DEFINE e == allocated + 1
<1>1. /\ e \in Devs /\ e \notin usb_devs /\ usb_devs' = usb_devs \cup {e}
      /\ session'[e] = s
      /\ \A d \in Devs : d # e => session'[d] = session[d] /\ attached'[d] = attached[d]
  <2>1. e \in Devs
    BY BaseFacts, UsbDevicesAssumption DEF linux_enumerate_device, Devs, TypeInv,
        DevicesTypeOK
  <2>2. e \notin usb_devs
    BY BaseFacts
  <2> QED BY <2>1, <2>2, BaseFacts DEF linux_enumerate_device
<1> HIDE DEF e
<1>2. \A d \in usb_devs : d \in Devs /\ d # e
  BY <1>1, BaseFacts
<1>3. \A t : Listed(t)' <=> Listed(t) \/ t = s
  BY <1>1, <1>2 DEF Listed
<1>4. \A d \in Devs : d <= allocated => d # e
  BY BaseFacts DEF e
<1> QED BY <1>1, <1>3, <1>4 DEF Addable

LEMMA NewSuspect ==
  ASSUME BaseInv, SuspectInv, NEW s \in Sessions, Addable(s), linux_enumerate_device(s),
         UNCHANGED <<phase, handles, fd, op, message>>,
         \A d \in Devs : session'[d] = session[d] /\ GoneFrom(d) => GoneFrom(d)'
  PROVE SuspectInv'
<1> SUFFICES ASSUME phase' = "ready", NEW d \in Devs, attached'[d], Suspect(d)'
             PROVE GoneFrom(d)'
  BY DEF SuspectInv
<1>1. Suspect(d)
  BY DEF Suspect, Erring
<1>2. d <= allocated
  BY <1>1, SuspectIsKnown
<1>3. session'[d] = session[d] /\ attached[d]
  BY <1>2, ListedAdded
<1> QED BY <1>1, <1>3 DEF SuspectInv

LEMMA InStepKept ==
  ASSUME NEW s, InStep(s), UNCHANGED <<bus, phase>>, Listed(s)' <=> Listed(s),
         Removing(s)' <=> Removing(s), ToScan(s)' <=> ToScan(s),
         work'.step = "scan" <=> work.step = "scan"
  PROVE InStep(s)'
BY DEF InStep

LEMMA NewsStep == BaseInv /\ StageInv /\ News /\ [Next]_vars => News'
<1> SUFFICES ASSUME BaseInv, StageInv, News, [Next]_vars PROVE News'  OBVIOUS
<1>b. BaseInv' /\ StageInv'
  BY BaseStep, StageStep
<1>t. /\ work \in Works /\ op \in [Users -> Ops] /\ TypeInv /\ QueueInv /\ UserInv /\ PlaceInv
      /\ OnePerSession
      /\ (hotplug_lock = None <=> work.step = "none") /\ usb_devs \subseteq Devs
      /\ handles \in [Users -> Devs \cup {NoDev}] /\ NoDev \notin Devs
      /\ netlink \in Seq({"add", "remove"} \X Sessions)
      /\ session \in [Devs -> Sessions] /\ attached \in [Devs -> BOOLEAN]
      /\ fd \in [Users -> {"none", "open", "error", "removed"}]
  <2>1. fd \in [Users -> {"none", "open", "error", "removed"}]
    BY BaseFacts DEF TypeInv, DevicesTypeOK
  <2> QED BY <2>1, BaseFacts
<1>n. NewsInv /\ BusInv /\ SuspectInv
  BY DEF News
<1> USE DEF busVars, devVars, lockVars, eventVars, cbVars, userVars
<1>k. ASSUME UNCHANGED <<bus, netlink, phase, session, attached, usb_devs>>,
             \/ UNCHANGED work
             \/ /\ work.step \notin {"scan", "find", "detach", "delist"}
                /\ work'.step \notin {"scan", "find", "detach", "delist"},
             \/ UNCHANGED message \/ message' = NoMessage \/ message' \in Messages,
             \A d \in Devs, u \in Users : Erring(u, d)' => Erring(u, d)
      PROVE News'
  <2>1. \A d \in Devs : Suspect(d)' => Suspect(d)
    BY <1>k, NoPollError DEF Suspect
  <2> QED BY <1>k, <2>1, NewsKept
<1>1. ASSUME InitBackend PROVE News'
  <2>1. phase = "none" /\ phase' = "active" /\ UNCHANGED <<bus, netlink, work, usb_devs, session>>
    BY <1>1 DEF InitBackend
  <2>2. work.step = "none" /\ usb_devs = {}
    BY <2>1 DEF StageInv
  <2>3. NewsInv'
    BY <1>n, <2>1, NewsQuiet DEF Monitored
  <2>4. \A s \in Sessions : InStep(s)'
    BY <2>1, <2>2 DEF InStep, Listed, Removing, ToScan
  <2> QED BY <2>1, <2>3, <2>4 DEF News, BusInv, SuspectInv
<1>2. ASSUME ScanStart PROVE News'
  <2>1. /\ work.step = "none" /\ work'.step = "scan" /\ work'.todo = bus /\ phase = "active"
        /\ UNCHANGED <<bus, netlink, usb_devs, session, phase>>
    BY <1>2, <1>t DEF ScanStart, Work
  <2>2. NewsInv' /\ \A s \in Sessions : Pending(s)' <=> Pending(s)
    BY <1>n, <2>1, NewsQuiet DEF Monitored
  <2>3. \A s \in Sessions : InStep(s) => InStep(s)'
    BY <2>1 DEF InStep, Listed, Removing, ToScan
  <2>4. BusInv'
    BY <1>n, <2>1, <2>2, <2>3 DEF BusInv, Monitored
  <2> QED BY <2>1, <2>2, <2>4 DEF News, SuspectInv
<1>3. ASSUME ScanDevice PROVE News'
  <2>1. PICK s \in work.todo : /\ work' = [work EXCEPT !.todo = @ \ {s}]
                               /\ IF Addable(s) THEN linux_enumerate_device(s)
                                  ELSE UNCHANGED devVars
    BY <1>3 DEF ScanDevice
  <2>2. /\ work.step = "scan" /\ work'.step = "scan" /\ work'.todo = work.todo \ {s}
        /\ phase = "active" /\ UNCHANGED <<bus, netlink, phase>> /\ s \in Sessions
    BY <1>3, <1>t, <2>1 DEF ScanDevice, Works, BaseInv, SessionInv
  <2>3. NewsInv' /\ \A t \in Sessions : Pending(t)' <=> Pending(t)
    BY <1>n, <2>2, NewsQuiet DEF Monitored
  <2>4. \A t \in Sessions : Listed(t)' <=> Listed(t) \/ (t = s /\ Addable(s))
    <3>1. CASE Addable(s)
      BY <2>1, <2>2, <3>1, ListedAdded
    <3>2. CASE ~Addable(s)
      BY <2>1, <3>2 DEF Listed
    <3> QED BY <3>1, <3>2
  <2>5. s \notin bus \/ Addable(s) \/ Listed(s)
    BY DEF Addable, WithSession, Listed
  <2>6. \A t \in Sessions : InStep(t) => InStep(t)'
    BY <2>2, <2>4, <2>5 DEF InStep, Removing, ToScan
  <2>7. BusInv'
    BY <1>n, <2>2, <2>3, <2>6 DEF BusInv, Monitored
  <2> QED BY <2>2, <2>3, <2>7 DEF News, SuspectInv
<1>4. ASSUME ScanEnd PROVE News'
  <2>1. /\ work.step = "scan" /\ work.todo = {} /\ work'.step = "none" /\ phase = "active"
        /\ phase' = "scanned" /\ UNCHANGED <<bus, netlink, usb_devs, session>>
    BY <1>4, WorkTypes DEF ScanEnd, BaseInv, SessionInv
  <2>2. NewsInv' /\ \A s \in Sessions : Pending(s)' <=> Pending(s)
    BY <1>n, <2>1, NewsQuiet DEF Monitored
  <2>3. \A s \in Sessions : InStep(s) => InStep(s)'
    BY <2>1 DEF InStep, Listed, Removing, ToScan
  <2>4. BusInv'
    BY <1>n, <2>1, <2>2, <2>3 DEF BusInv, Monitored
  <2> QED BY <2>1, <2>2, <2>4 DEF News, SuspectInv
<1>5. ASSUME InitIo PROVE News'
  <2>1. /\ phase = "scanned" /\ phase' = "ready"
        /\ UNCHANGED <<bus, netlink, usb_devs, session, work, op, fd, message, handles>>
    BY <1>5 DEF InitIo
  <2>2. NewsInv' /\ \A s \in Sessions : Pending(s)' <=> Pending(s)
    BY <1>n, <2>1, NewsQuiet DEF Monitored
  <2>3. \A s \in Sessions : InStep(s) => InStep(s)'
    BY <2>1 DEF InStep, Listed, Removing, ToScan
  <2>4. BusInv'
    BY <1>n, <2>1, <2>2, <2>3 DEF BusInv, Monitored
  <2>5. ASSUME NEW d \in Devs, Suspect(d)' PROVE FALSE
    <3>1. message = NoMessage
      BY <1>t, <2>1 DEF QueueInv
    <3>2. \A u \in Users : op[u].step = "idle" /\ fd[u] = "none"
      BY <2>1 DEF StageInv
    <3> QED BY <2>1, <2>5, <3>1, <3>2, NoPollError DEF Suspect, Erring
  <2> QED BY <2>2, <2>4, <2>5 DEF News, SuspectInv
<1>6. ASSUME MonitorLocks PROVE News'
  <2>1. work'.step = "read" /\ work.step = "none"
    BY <1>6, <1>t, WorkTypes DEF MonitorLocks, Begin
  <2> QED BY <1>6, <1>k, <2>1 DEF MonitorLocks, Erring
(* Whoever looks for a device that has gone does so with the lock.         *)
<1>f. ASSUME NEW d \in Devs, attached[d], Suspect(d), phase = "ready", work.step = "none",
             work' = Finding(session[d]),
             UNCHANGED <<bus, netlink, phase, session, attached, usb_devs, message, op,
                         handles, fd>>
      PROVE News'
  <2>0. session[d] \in Sessions
    BY <1>t
  <2>1. work'.step = "find" /\ work'.todo = {session[d]}
    BY <1>f, <2>0, WorkTypes
  <2>2. /\ NewsInv'
        /\ \A s : (Pending(s)' <=> Pending(s)) /\ (RemovePending(s)' <=> RemovePending(s))
    BY <1>f, <1>n, NewsQuiet DEF Monitored
  <2>3. RemovePending(session[d])
    BY <1>f, <1>n DEF SuspectInv, GoneFrom
  <2>4. Pending(session[d])
    BY <2>3 DEF Pending, RemovePending
  <2>5. ASSUME NEW s \in Sessions, s # session[d], InStep(s) PROVE InStep(s)'
    BY <1>f, <2>1, <2>5 DEF InStep, Listed, Removing, ToScan
  <2>6. BusInv'
    BY <1>f, <1>n, <2>2, <2>4, <2>5 DEF BusInv, Monitored
  <2>7. \A e \in Devs : Suspect(e)' <=> Suspect(e)
    BY <1>f DEF Suspect, Erring
  <2>8. \A e \in Devs : GoneFrom(e) => GoneFrom(e)'
    BY <1>f, <2>2 DEF GoneFrom
  <2>9. SuspectInv'
    BY <1>f, <1>n, <2>7, <2>8 DEF SuspectInv
  <2> QED BY <2>2, <2>6, <2>9 DEF News
<1>7. ASSUME HandlerLocks PROVE News'
  <2>1. message.dev \in Devs /\ message = PollError(message.dev) /\ phase = "ready"
    <3>1. message \in Messages \cup {NoMessage} \cup {PollError(d) : d \in Devs}
      BY <1>t, TypeFacts
    <3>2. message.event = "POLLERR"
      BY <1>7 DEF HandlerLocks
    <3>3. message \notin Messages /\ message # NoMessage
      BY <3>2, EventsDiffer
    <3>4. PICK d \in Devs : message = PollError(d)
      BY <3>1, <3>3
    <3>5. phase = "ready"
      BY <1>t, <3>3 DEF QueueInv
    <3> QED BY <3>4, <3>5, MessageTypes
  <2>2. CASE attached[message.dev]
    <3>1. Suspect(message.dev)
      BY <2>1 DEF Suspect
    <3>2. /\ work' = Finding(session[message.dev]) /\ work.step = "none"
          /\ UNCHANGED <<bus, netlink, phase, session, attached, usb_devs, message, op,
                         handles, fd>>
      BY <1>7, <1>t, <2>2 DEF HandlerLocks, Begin, StillAttached
    <3> QED BY <1>f, <2>1, <2>2, <3>1, <3>2
  <2>3. CASE ~attached[message.dev]
    <3>1. message' = NoMessage /\ UNCHANGED work
      BY <1>7, <2>3 DEF HandlerLocks, StillAttached
    <3> QED BY <1>7, <1>k, <3>1 DEF HandlerLocks, Erring
  <2> QED BY <2>2, <2>3
<1>8. ASSUME ReadNone PROVE News'
  BY <1>8, <1>t, <1>n, ReleaseEnds, NewsEnded DEF ReadNone
<1>9. ASSUME ReadRemove PROVE News'
  <2> DEFINE s == Head(netlink)[2]
  <2>1. /\ netlink # <<>> /\ netlink' = Tail(netlink) /\ Head(netlink)[1] = "remove"
        /\ work' = Finding(s) /\ work.step = "read"
        /\ UNCHANGED <<bus, phase, session, attached, usb_devs, message, op, handles, fd>>
    BY <1>9 DEF ReadRemove
  <2>2. /\ NewsInv'
        /\ Head(netlink) \in {"add", "remove"} \X Sessions
        /\ \A t \in Sessions :
             /\ s # t => (Pending(t)' <=> Pending(t))
             /\ s = t /\ ~Pending(t)' => (Head(netlink)[1] = "add" <=> t \in bus)
             /\ Head(netlink) # <<"remove", t>> => (RemovePending(t) => RemovePending(t)')
    BY <1>n, <2>1, NewsRead
  <2>3. s \in Sessions /\ Head(netlink) = <<"remove", s>>
    BY <2>1, <2>2
  <2> HIDE DEF s
  <2>4. work'.step = "find" /\ work'.todo = {s}
    BY <2>1, <2>3, WorkTypes
  <2>5. ASSUME NEW t \in Sessions, ~Pending(t)', Monitored PROVE InStep(t)'
    <3>1. CASE t = s
      <4>1. s \notin bus
        BY <2>1, <2>2, <2>5, <3>1
      <4> QED BY <2>1, <2>4, <3>1, <4>1 DEF InStep, Removing, ToScan
    <3>2. CASE t # s
      <4>1. InStep(t)
        BY <1>n, <2>2, <2>5, <3>2 DEF BusInv
      <4> QED BY <2>1, <2>4, <3>2, <4>1 DEF InStep, Removing, ToScan, Listed
    <3> QED BY <3>1, <3>2
  <2>6. BusInv'
    BY <2>1, <2>5 DEF BusInv, Monitored
  <2>7. ASSUME NEW d \in Devs, GoneFrom(d) PROVE GoneFrom(d)'
    <3>1. RemovePending(session[d]) /\ session[d] \in Sessions /\ session' = session
      BY <1>t, <2>1, <2>7 DEF GoneFrom
    <3>2. CASE session[d] = s
      BY <2>4, <3>1, <3>2 DEF GoneFrom
    <3>3. CASE session[d] # s
      <4>1. Head(netlink) # <<"remove", session[d]>>
        BY <2>3, <3>3
      <4>2. RemovePending(session[d])'
        BY <2>2, <3>1, <4>1
      <4> QED BY <4>2 DEF GoneFrom
    <3> QED BY <3>2, <3>3
  <2>8. SuspectInv'
    BY <1>n, <2>1, <2>7 DEF SuspectInv, Suspect, Erring
  <2> QED BY <2>2, <2>6, <2>8 DEF News
<1>10. ASSUME ReadAdd PROVE News'
  <2> DEFINE s == Head(netlink)[2]
  <2>1. /\ netlink # <<>> /\ netlink' = Tail(netlink) /\ Head(netlink)[1] = "add"
        /\ work.step = "read" /\ UNCHANGED <<bus, phase, handles, fd>>
        /\ IF Addable(s)
           THEN /\ linux_enumerate_device(s) /\ work' = Work("arrive", allocated', {})
                /\ UNCHANGED <<op, message>>
           ELSE WorkDone /\ UNCHANGED devVars
    BY <1>10 DEF ReadAdd
  <2>2. /\ NewsInv'
        /\ Head(netlink) \in {"add", "remove"} \X Sessions
        /\ \A t \in Sessions :
             /\ s # t => (Pending(t)' <=> Pending(t))
             /\ s = t /\ ~Pending(t)' => (Head(netlink)[1] = "add" <=> t \in bus)
             /\ Head(netlink) # <<"remove", t>> => (RemovePending(t) => RemovePending(t)')
    BY <1>n, <2>1, NewsRead
  <2>3. s \in Sessions /\ \A t \in Sessions : Head(netlink) # <<"remove", t>>
    BY <2>1, <2>2
  <2>4. \A t \in Sessions : Listed(t)' <=> Listed(t) \/ (t = s /\ Addable(s))
    <3> HIDE DEF s
    <3>1. CASE Addable(s)
      BY <2>1, <2>3, <3>1, ListedAdded
    <3>2. CASE ~Addable(s)
      BY <2>1, <3>2 DEF Listed
    <3> QED BY <3>1, <3>2
  <2> HIDE DEF s
  <2>5. work'.step \notin {"scan", "find", "detach", "delist"}
    <3>1. CASE Addable(s)
      BY <2>1, <3>1 DEF Work
    <3>2. CASE ~Addable(s)
      BY <1>t, <2>1, <3>2, WorkDoneEnds DEF WorkEnded
    <3> QED BY <3>1, <3>2
  <2>6. s \notin bus \/ Addable(s) \/ Listed(s)
    BY DEF Addable, WithSession, Listed
  <2>7. ASSUME NEW t \in Sessions, ~Pending(t)', Monitored PROVE InStep(t)'
    <3>1. CASE t = s
      <4>1. s \in bus
        BY <2>1, <2>2, <2>7, <3>1
      <4> QED BY <2>1, <2>4, <2>5, <2>6, <3>1, <4>1 DEF InStep, Removing, ToScan
    <3>2. CASE t # s
      <4>1. InStep(t)
        BY <1>n, <2>2, <2>7, <3>2 DEF BusInv
      <4> QED BY <2>1, <2>4, <2>5, <3>2, <4>1 DEF InStep, Removing, ToScan
    <3> QED BY <3>1, <3>2
  <2>8. BusInv'
    BY <2>1, <2>7 DEF BusInv, Monitored
  <2>9. ASSUME NEW d \in Devs, session'[d] = session[d], GoneFrom(d) PROVE GoneFrom(d)'
    <3>1. RemovePending(session[d]) /\ session[d] \in Sessions
      BY <1>t, <2>1, <2>9 DEF GoneFrom
    <3>2. RemovePending(session[d])'
      <4>1. \A t \in Sessions : RemovePending(t) => RemovePending(t)'
        BY <2>2, <2>3
      <4>2. \A t \in Sessions : t = session[d] => RemovePending(t)'
        BY <3>1, <4>1
      <4>3. PICK t \in Sessions : t = session[d]
        BY <3>1
      <4>4. RemovePending(t)' /\ session'[d] = t
        BY <2>9, <4>2, <4>3
      <4> QED BY <4>4 DEF RemovePending
    <3> QED BY <3>2 DEF GoneFrom
  <2>10. SuspectInv'
    <3>1. CASE Addable(s)
      BY <1>n, <2>1, <2>3, <2>9, <3>1, NewSuspect
    <3>2. CASE ~Addable(s)
      <4>1. WorkEnded /\ UNCHANGED devVars
        BY <1>t, <2>1, <3>2, WorkDoneEnds
      <4>2. \A d \in Devs : Suspect(d)' => Suspect(d)
        BY <2>1, <4>1, ErringKept, NoPollError DEF WorkEnded, Suspect
      <4> QED BY <1>n, <2>1, <2>9, <4>1, <4>2 DEF SuspectInv
    <3> QED BY <3>1, <3>2
  <2> QED BY <2>2, <2>8, <2>10 DEF News
<1>11. ASSUME Arrive \/ Unref PROVE News'
  BY <1>11, <1>t, <1>n, WorkDoneEnds, NewsEnded DEF Arrive, Unref
<1>12. ASSUME Find PROVE News'
  <2>1. /\ UNCHANGED <<bus, netlink, phase, session, attached, usb_devs, handles, fd>>
        /\ work.step = "find"
    BY <1>12 DEF Find
  <2>2. PICK s \in Sessions : work.todo = {s}
    BY <2>1 DEF StageInv
  <2>3. /\ NewsInv'
        /\ \A t : (Pending(t)' <=> Pending(t)) /\ (RemovePending(t)' <=> RemovePending(t))
    BY <1>n, <2>1, NewsQuiet DEF Monitored
  <2>4. \A t : Listed(t)' <=> Listed(t)
    BY <2>1 DEF Listed
  <2>5. CASE WithSession(s) = {}
    <3>1. WorkEnded
      BY <1>12, <1>t, <2>2, <2>5, WorkDoneEnds DEF Find
    <3>2. work'.step \in {"none", "read"} /\ ~Listed(s)
      BY <2>5, <3>1 DEF WorkEnded, Listed, WithSession
    <3>3. \A t \in Sessions : InStep(t) => InStep(t)'
      BY <2>1, <2>2, <2>4, <3>2 DEF InStep, Removing, ToScan
    <3>4. BusInv'
      BY <1>n, <2>1, <2>3, <3>3 DEF BusInv, Monitored
    <3>5. \A d \in Devs : Suspect(d)' => Suspect(d)
      BY <2>1, <3>1, ErringKept, NoPollError DEF WorkEnded, Suspect
    <3>6. ASSUME phase = "ready", NEW d \in Devs, attached[d], GoneFrom(d)
          PROVE RemovePending(session[d])
      <4>1. d \in usb_devs
        BY <1>t, <3>6 DEF OnePerSession
      <4>2. session[d] # s
        BY <2>5, <4>1 DEF WithSession
      <4> QED BY <2>1, <2>2, <3>6, <4>2 DEF GoneFrom
    <3>7. ASSUME phase' = "ready", NEW d \in Devs, attached'[d], Suspect(d)' PROVE GoneFrom(d)'
      <4>1. RemovePending(session[d])
        BY <1>n, <2>1, <3>5, <3>6, <3>7 DEF SuspectInv
      <4> QED BY <2>1, <2>3, <4>1 DEF GoneFrom
    <3>8. SuspectInv'
      BY <3>7 DEF SuspectInv
    <3> QED BY <2>3, <3>4, <3>8 DEF News
  <2>6. CASE WithSession(s) # {}
    <3>1. PICK e \in WithSession(s) : work' = Work("detach", e, {}) /\ UNCHANGED <<op, message>>
      BY <1>12, <2>2, <2>6 DEF Find
    <3>2. work'.step = "detach" /\ work'.dev = e /\ e \in usb_devs /\ session[e] = s
      BY <3>1 DEF Work, WithSession
    <3>3. \A t : (Removing(t)' <=> Removing(t)) /\ (ToScan(t)' <=> ToScan(t))
      BY <2>1, <2>2, <3>2 DEF Removing, ToScan
    <3>4. \A t \in Sessions : InStep(t) => InStep(t)'
      BY <2>1, <2>4, <3>2, <3>3 DEF InStep
    <3>5. BusInv'
      BY <1>n, <2>1, <2>3, <3>4 DEF BusInv, Monitored
    <3>6. ASSUME phase' = "ready", NEW d \in Devs, attached'[d], Suspect(d)' PROVE GoneFrom(d)'
      <4>1. Suspect(d) /\ d \in usb_devs /\ GoneFrom(d)
        BY <1>t, <1>n, <2>1, <3>1, <3>6 DEF Suspect, Erring, OnePerSession, SuspectInv
      <4>2. CASE session[d] = s
        <5>1. d = e
          BY <1>t, <3>2, <4>1, <4>2 DEF OnePerSession
        <5> QED BY <3>2, <5>1 DEF GoneFrom
      <4>3. CASE session[d] # s
        BY <2>1, <2>2, <2>3, <4>1, <4>3 DEF GoneFrom
      <4> QED BY <4>2, <4>3
    <3>7. SuspectInv'
      BY <3>6 DEF SuspectInv
    <3> QED BY <2>3, <3>5, <3>7 DEF News
  <2> QED BY <2>5, <2>6
<1>13. ASSUME Detach PROVE News'
  <2>1. /\ work.step = "detach" /\ work'.step = "delist" /\ work'.dev = work.dev
        /\ UNCHANGED <<bus, netlink, phase, session, usb_devs, handles, fd, op, message>>
        /\ work.dev \in Devs
    BY <1>13, <1>t, WorkGoes DEF Detach, TypeInv, WorkIsLocked
  <2>2. ~attached'[work.dev] /\ \A d \in Devs : attached'[d] => attached[d] /\ d # work.dev
    BY <1>13, <1>t, <2>1 DEF Detach
  <2>3. /\ NewsInv'
        /\ \A t : (Pending(t)' <=> Pending(t)) /\ (RemovePending(t)' <=> RemovePending(t))
    BY <1>n, <2>1, NewsQuiet DEF Monitored
  <2>4. \A t : InStep(t) => InStep(t)'
    BY <2>1 DEF InStep, Listed, Removing, ToScan
  <2>5. BusInv'
    BY <1>n, <2>1, <2>3, <2>4 DEF BusInv, Monitored
  <2>6. ASSUME phase' = "ready", NEW d \in Devs, attached'[d], Suspect(d)' PROVE GoneFrom(d)'
    <3>1. GoneFrom(d) /\ d # work.dev
      BY <1>n, <2>1, <2>2, <2>6 DEF SuspectInv, Suspect, Erring
    <3> QED BY <2>1, <2>3, <3>1 DEF GoneFrom
  <2> QED BY <2>3, <2>5, <2>6 DEF News, SuspectInv
<1>14. ASSUME Delist PROVE News'
  <2>1. /\ work.step = "delist" /\ work'.step = "leave" /\ work'.dev = work.dev
        /\ UNCHANGED <<bus, netlink, phase, session, attached, handles, fd, op, message>>
        /\ usb_devs' = usb_devs \ {work.dev} /\ work.dev \in usb_devs
    BY <1>14, <1>t, WorkGoes DEF Delist, PlaceInv
  <2>2. /\ NewsInv'
        /\ \A t : (Pending(t)' <=> Pending(t)) /\ (RemovePending(t)' <=> RemovePending(t))
    BY <1>n, <2>1, NewsQuiet DEF Monitored
  <2>3. \A t : Listed(t)' <=> Listed(t) /\ t # session[work.dev]
    BY <1>t, <2>1 DEF Listed, OnePerSession
  <2>4. \A t : InStep(t) => InStep(t)'
    BY <2>1, <2>3 DEF InStep, Removing, ToScan
  <2>5. BusInv'
    BY <1>n, <2>1, <2>2, <2>4 DEF BusInv, Monitored
  <2>6. \A d \in Devs : GoneFrom(d) => GoneFrom(d)'
    BY <2>1, <2>2 DEF GoneFrom
  <2>7. \A d \in Devs : Suspect(d)' => Suspect(d)
    BY <2>1 DEF Suspect, Erring
  <2>8. SuspectInv'
    BY <1>n, <2>1, <2>6, <2>7 DEF SuspectInv
  <2> QED BY <2>2, <2>5, <2>8 DEF News
<1>15. ASSUME Leave PROVE News'
  <2>1. work.step = "leave" /\ work'.step = "unref"
    BY <1>15, <1>t, WorkGoes DEF Leave
  <2> QED BY <1>15, <1>k, <2>1 DEF Leave, Erring
<1>16. ASSUME Handling PROVE News'
  <2>1. CASE TakeMessage \/ usbi_hotplug_match \/ EndMessage
    <3>1. UNCHANGED message \/ message' = NoMessage \/ message' \in Messages
      <4>1. ASSUME TakeMessage PROVE message' \in Messages
        BY <1>t, <4>1, TypeFacts DEF TakeMessage
      <4> QED BY <2>1, <4>1 DEF usbi_hotplug_match, EndMessage
    <3>2. UNCHANGED <<bus, netlink, phase, session, attached, usb_devs, work, op, handles, fd>>
      BY <2>1 DEF TakeMessage, usbi_hotplug_match, EndMessage
    <3> QED BY <1>k, <3>1, <3>2 DEF Erring
  <2>2. ASSUME NEW u \in Users, HandleError(u) PROVE News'
    <3>1. /\ fd[u] = "error" /\ message' = PollError(handles[u])
          /\ UNCHANGED <<bus, netlink, phase, session, attached, usb_devs, work, op, handles>>
          /\ \A v \in Users : fd'[v] = "error" => fd[v] = "error"
      BY <1>t, <2>2 DEF HandleError
    <3>2. handles[u] \in Devs
      BY <1>t, <3>1 DEF TypeInv, WorkIsLocked
    <3>3. ASSUME NEW d \in Devs, PollError(handles[u]) = PollError(d) PROVE handles[u] = d
      <4>1. PollError(handles[u]).dev = handles[u] /\ PollError(d).dev = d
        BY <3>2, MessageTypes
      <4> QED BY <3>3, <4>1
    <3>4. \A d \in Devs : Suspect(d)' => Suspect(d)
      BY <3>1, <3>3 DEF Suspect, Erring
    <3> QED BY <3>1, <3>4, NewsKept
  <2> QED BY <1>16, <2>1, <2>2 DEF Handling
<1>17. ASSUME Exit PROVE News'
  <2>1. phase' = "gone" /\ netlink' = <<>>
    BY <1>17 DEF Exit
  <2> QED BY <2>1, EmptyDomain DEF News, NewsInv, BusInv, SuspectInv, Monitored, Pending
<1>18. ASSUME NEW s \in Sessions, Plug(s) PROVE News'
  <2>1. /\ Tell("add", s) /\ bus' = bus \cup {s}
        /\ UNCHANGED <<phase, session, attached, usb_devs, work, message, op, handles, fd>>
    BY <1>18 DEF Plug
  <2>2. /\ NewsInv'
        /\ Monitored => Pending(s)'
        /\ \A t : RemovePending(t) => RemovePending(t)'
        /\ \A t \in Sessions : t # s => (Pending(t)' <=> Pending(t))
    BY <1>n, <2>1, NewsTold
  <2>3. \A t \in Sessions : t # s /\ InStep(t) => InStep(t)'
    BY <2>1 DEF InStep, Listed, Removing, ToScan
  <2>4. BusInv'
    BY <1>n, <2>1, <2>2, <2>3 DEF BusInv, Monitored
  <2>5. \A d \in Devs : (GoneFrom(d) => GoneFrom(d)') /\ (Suspect(d)' => Suspect(d))
    BY <2>1, <2>2 DEF GoneFrom, Suspect, Erring
  <2> QED BY <1>n, <2>1, <2>2, <2>4, <2>5 DEF News, SuspectInv
<1>19. ASSUME NEW s \in Sessions, Unplug(s) PROVE News'
  <2>1. /\ Tell("remove", s) /\ bus' = bus \ {s}
        /\ UNCHANGED <<phase, session, attached, usb_devs, work, message, op, handles>>
        /\ \A u \in Users : fd'[u] = "error" => fd[u] = "error" \/ session[handles[u]] = s
    BY <1>19, <1>t DEF Unplug
  <2>2. /\ NewsInv'
        /\ Monitored => Pending(s)' /\ RemovePending(s)'
        /\ \A t : RemovePending(t) => RemovePending(t)'
        /\ \A t \in Sessions : t # s => (Pending(t)' <=> Pending(t))
    BY <1>n, <2>1, NewsTold
  <2>3. \A t \in Sessions : t # s /\ InStep(t) => InStep(t)'
    BY <2>1 DEF InStep, Listed, Removing, ToScan
  <2>4. BusInv'
    BY <1>n, <2>1, <2>2, <2>3 DEF BusInv, Monitored
  <2>5. ASSUME phase' = "ready", NEW d \in Devs, attached'[d], Suspect(d)' PROVE GoneFrom(d)'
    <3>1. CASE Suspect(d)
      <4>1. GoneFrom(d)
        BY <1>n, <2>1, <2>5, <3>1 DEF SuspectInv
      <4> QED BY <2>1, <2>2, <4>1 DEF GoneFrom
    <3>2. CASE ~Suspect(d)
      <4>1. session[d] = s
        BY <2>1, <2>5, <3>2 DEF Suspect, Erring
      <4> QED BY <2>1, <2>2, <2>5, <4>1 DEF GoneFrom, Monitored
    <3> QED BY <3>1, <3>2
  <2> QED BY <2>2, <2>4, <2>5 DEF News, SuspectInv
<1>20. ASSUME NEW u \in Users, User(u) PROVE News'
  <2>0. ASSUME UNCHANGED <<bus, netlink, phase, session, attached, usb_devs, work, message,
                           handles, fd>>,
               UNCHANGED op \/ (OpKept(u) /\ op'[u].step # "failed")
        PROVE News'
    BY <1>k, <2>0, ErringKept
  <2>1. ASSUME PollLocks(u) PROVE News'
    <3>1. work'.step = "read" /\ work.step = "none"
      BY <1>t, <2>1, WorkTypes DEF PollLocks, Begin
    <3> QED BY <1>k, <2>1, <3>1 DEF PollLocks, Erring
  <2>2. ASSUME OpenFailedLocks(u) PROVE News'
    <3>1. op[u].step = "failed" /\ op[u].dev \in Devs /\ phase = "ready"
      BY <1>t, <2>2 DEF OpenFailedLocks, TypeInv, WorkIsLocked, StageInv
    <3>2. CASE attached[op[u].dev]
      <4>1. /\ work' = Finding(session[op[u].dev]) /\ work.step = "none"
            /\ UNCHANGED <<bus, netlink, phase, session, attached, usb_devs, message, op,
                           handles, fd>>
        BY <1>t, <2>2, <3>2 DEF OpenFailedLocks, Begin, StillAttached
      <4>2. Suspect(op[u].dev)
        BY <3>1 DEF Suspect, Erring
      <4> QED BY <1>f, <3>1, <3>2, <4>1, <4>2
    <3>3. CASE ~attached[op[u].dev]
      <4>1. Go(u, "unref") /\ UNCHANGED work
        BY <2>2, <3>3 DEF OpenFailedLocks, StillAttached, Go
      <4>2. OpKept(u) /\ op'[u].step # "failed"
        BY <1>t, <4>1, OpGoes
      <4> QED BY <2>0, <2>2, <4>1, <4>2 DEF OpenFailedLocks
    <3> QED BY <3>2, <3>3
  <2>3. ASSUME TakeList(u) PROVE News'
    <3>1. /\ OpKept(u)
          /\ op'[u].step # "failed"
      <4>1. op' = [op EXCEPT ![u] = IF @.cb = None THEN Idle
                                    ELSE [@ EXCEPT !.step = "tell", !.todo = usb_devs]]
        BY <2>3 DEF TakeList
      <4>2. CASE op[u].cb = None
        <5>1. op' = [op EXCEPT ![u] = Idle]
          BY <1>t, <4>1, <4>2
        <5> QED BY <1>t, <5>1, OpEnds
      <4>3. CASE op[u].cb # None
        <5>1. op' = [op EXCEPT ![u] = [@ EXCEPT !.step = "tell", !.todo = usb_devs]]
          BY <1>t, <4>1, <4>3
        <5> QED BY <1>t, <5>1, OpTells
      <4> QED BY <4>2, <4>3
    <3> QED BY <2>0, <2>3, <3>1 DEF TakeList
  <2>4. ASSUME OpenRef(u) PROVE News'
    BY <1>t, <2>0, <2>4, OpGoes DEF OpenRef
  <2>5. ASSUME OpenBackend(u) PROVE News'
    <3>1. /\ op[u].step = "open" /\ op[u].dev \in Devs /\ phase = "ready" /\ handles[u] = NoDev
          /\ UNCHANGED <<bus, netlink, phase, session, attached, usb_devs, work, message>>
      BY <1>t, <2>5 DEF OpenBackend, At, TypeInv, WorkIsLocked, StageInv, UserInv
    <3> DEFINE d == op[u].dev
    <3>2. CASE session[d] \in bus
      <4>1. OpKept(u) /\ op'[u].step = "idle"
        BY <1>t, <2>5, <3>2, OpEnds DEF OpenBackend
      <4>2. /\ \A v \in Users : v # u => handles'[v] = handles[v] /\ fd'[v] = fd[v]
            /\ fd'[u] = "open"
        BY <1>t, <2>5, <3>2 DEF OpenBackend
      <4>3. \A e \in Devs, v \in Users : Erring(v, e)' => Erring(v, e)
        BY <4>1, <4>2 DEF Erring, OpKept
      <4> QED BY <1>k, <3>1, <4>3
    <3>3. CASE session[d] \notin bus
      <4>1. /\ OpKept(u) /\ op'[u].step = "failed" /\ op'[u].dev = d
            /\ UNCHANGED <<handles, fd>>
        BY <1>t, <2>5, <3>3, OpGoes DEF OpenBackend
      <4>2. \A e \in Devs : e # d => (Suspect(e)' => Suspect(e))
        BY <3>1, <4>1 DEF Suspect, Erring, OpKept
      <4>3. ASSUME attached[d] PROVE GoneFrom(d)
        <5> DEFINE s == session[d]
        <5>1. d \in usb_devs /\ s \in Sessions /\ Listed(s) /\ s \notin bus
          BY <1>t, <3>1, <3>3, <4>3 DEF OnePerSession, Listed
        <5>2. CASE Pending(s)
          <6>1. PICK i \in DOMAIN netlink : netlink[i][2] = s /\ netlink[i][1] # "add"
            BY <1>n, <5>1, <5>2 DEF NewsInv, LastSays
          <6>2. netlink[i] \in {"add", "remove"} \X Sessions
            BY <1>t, <6>1
          <6>3. netlink[i] = <<"remove", s>>
            BY <6>1, <6>2
          <6> QED BY <6>3 DEF GoneFrom, RemovePending
        <5>3. CASE ~Pending(s)
          <6>1. Removing(s)
            BY <1>n, <3>1, <5>1, <5>3 DEF BusInv, InStep, Monitored
          <6>2. CASE work.step = "find" /\ s \in work.todo
            BY <6>2 DEF GoneFrom
          <6>3. CASE work.step \in {"detach", "delist"} /\ session[work.dev] = s
            <7>1. work.dev \in usb_devs
              BY <1>t, <6>3 DEF PlaceInv
            <7>2. work.dev = d
              BY <1>t, <5>1, <6>3, <7>1 DEF OnePerSession
            <7>3. work.step # "delist"
              BY <4>3, <7>2 DEF BaseInv, SessionInv
            <7> QED BY <6>3, <7>2, <7>3 DEF GoneFrom
          <6> QED BY <6>1, <6>2, <6>3 DEF Removing
        <5> QED BY <5>2, <5>3
      <4>4. \A e \in Devs : GoneFrom(e) => GoneFrom(e)'
        BY <3>1 DEF GoneFrom, RemovePending
      <4>5. NewsInv' /\ BusInv'
        <5>1. NewsInv' /\ \A t : Pending(t)' <=> Pending(t)
          BY <1>n, <3>1, NewsQuiet DEF Monitored
        <5>2. \A t : InStep(t) => InStep(t)'
          BY <3>1 DEF InStep, Listed, Removing, ToScan
        <5> QED BY <1>n, <3>1, <5>1, <5>2 DEF BusInv, Monitored
      <4>6. ASSUME NEW e \in Devs, attached'[e], Suspect(e)' PROVE GoneFrom(e)
        <5>1. CASE e = d
          BY <3>1, <4>3, <4>6, <5>1
        <5>2. CASE e # d
          BY <1>n, <3>1, <4>2, <4>6, <5>2 DEF SuspectInv
        <5> QED BY <5>1, <5>2
      <4>7. SuspectInv'
        BY <4>4, <4>6 DEF SuspectInv
      <4> QED BY <4>5, <4>7 DEF News
    <3> QED BY <3>2, <3>3
  <2>6. ASSUME OpenUnref(u) \/ RegisterEnd(u) PROVE News'
    <3>1. OpKept(u) /\ op'[u].step # "failed"
      BY <1>t, <2>6, OpEnds DEF OpenUnref, RegisterEnd
    <3> QED BY <2>0, <2>6, <3>1 DEF OpenUnref, RegisterEnd
  <2>7. ASSUME TellRegistered(u) PROVE News'
    <3>1. OpKept(u) /\ op'[u].step # "failed"
      BY <1>t, <2>7, OpHasTold DEF TellRegistered, At
    <3> QED BY <2>0, <2>7, <3>1 DEF TellRegistered
  <2>8. ASSUME ToldRegistered(u) PROVE News'
    BY <1>t, <2>0, <2>8, OpGoes DEF ToldRegistered
  <2>9. ASSUME FreeListed(u) PROVE News'
    BY <2>0, <2>9 DEF FreeListed
  <2>10. ASSUME GetDeviceList(u) PROVE News'
    BY <1>t, <2>0, <2>10, OpGoes DEF GetDeviceList
  <2>11. ASSUME Open(u) PROVE News'
    <3>1. OpKept(u) /\ op'[u].step # "failed"
      <4>1. PICK d \in lists[u] : op' = [op EXCEPT ![u] = Op("ref", d, None)]
        BY <2>11 DEF Open
      <4>2. d \in Devs
        BY <1>t, TypeFacts
      <4> QED BY <1>t, <4>1, <4>2, OpOpens
    <3> QED BY <2>0, <2>11, <3>1 DEF Open
  <2>12. ASSUME Close(u) PROVE News'
    <3>1. /\ UNCHANGED <<bus, netlink, phase, session, attached, usb_devs, work, message, op>>
          /\ fd'[u] = "none"
          /\ \A v \in Users : v # u => handles'[v] = handles[v] /\ fd'[v] = fd[v]
      BY <1>t, <2>12 DEF Close
    <3>2. \A e \in Devs, v \in Users : Erring(v, e)' => Erring(v, e)
      BY <3>1 DEF Erring
    <3> QED BY <1>k, <3>1, <3>2
  <2>13. ASSUME NEW c \in Callbacks, Register(u, c) PROVE News'
    <3>1. OpKept(u) /\ op'[u].step # "failed"
      BY <1>t, <2>13, OpRegisters DEF Register
    <3> QED BY <2>0, <2>13, <3>1 DEF Register
  <2>14. ASSUME NEW c \in Callbacks, Deregister(u, c) PROVE News'
    BY <2>0, <2>14 DEF Deregister
  <2> QED BY <1>20, <2>1, <2>2, <2>3, <2>4, <2>5, <2>6, <2>7, <2>8, <2>9, <2>10, <2>11,
             <2>12, <2>13, <2>14 DEF User, Continue, FreeWhen
<1>21. ASSUME UNCHANGED vars PROVE News'
  BY <1>21, <1>k DEF vars, Erring
<1> QED BY <1>1, <1>2, <1>3, <1>4, <1>5, <1>6, <1>7, <1>8, <1>9, <1>10, <1>11, <1>12,
        <1>13,
           <1>14, <1>15, <1>16, <1>17, <1>18, <1>19, <1>20, <1>21
    DEF Next, Starting, Working

LEMMA BaseInit == DevicesInit => BaseInv /\ StageInv /\ News
<1> SUFFICES ASSUME DevicesInit PROVE BaseInv /\ StageInv /\ News  OBVIOUS
<1>1. BaseInv
  BY ReferencesInit DEF BaseInv
<1>2. /\ work.step = "none" /\ usb_devs = {} /\ netlink = <<>> /\ phase = "none"
      /\ \A u \in Users : op[u].step = "idle" /\ fd[u] = "none"
  BY WorkTypes DEF DevicesInit, Idle, Op
<1>3. StageInv
  BY <1>2 DEF StageInv
<1>4. News
  BY <1>2, EmptyDomain DEF News, NewsInv, BusInv, SuspectInv, Pending, Monitored
<1> QED BY <1>1, <1>3, <1>4

(* When the kernel's messages have been read, the list has one device for  *)
(* everything that is plugged in and nothing else, whoever found out first *)
(* that a device had gone and whatever took its place in the meantime.     *)
THEOREM ListMatchesBusCorrect == DevicesSpec => []ListMatchesBus
<1> DEFINE Inv == BaseInv /\ StageInv /\ News
<1>1. Inv /\ [Next]_vars => Inv'
  BY BaseStep, StageStep, NewsStep
<1>2. Inv => ListMatchesBus
  <2> SUFFICES ASSUME Inv, phase \in {"scanned", "ready"}, netlink = <<>>, hotplug_lock = None
               PROVE {session[d] : d \in usb_devs} = bus
    BY DEF ListMatchesBus
  <2>1. work.step = "none" /\ usb_devs \subseteq Devs /\ bus \subseteq Sessions
        /\ session \in [Devs -> Sessions]
    BY BaseFacts
  <2>2. \A s \in Sessions : InStep(s)
    BY EmptyDomain DEF News, BusInv, Pending, Monitored
  <2>3. \A s \in Sessions : Listed(s) <=> s \in bus
    BY <2>1, <2>2 DEF InStep, Removing, ToScan
  <2> QED BY <2>1, <2>3 DEF Listed
<1> QED BY <1>1, <1>2, BaseInit, PTL DEF DevicesSpec

-----------------------------------------------------------------------------
(* What callbacks know, whoever registers one while another thread handles *)
(* events.  One that is new has not been told anything.                    *)
CallInv ==
  /\ \A c \in Callbacks : cbs[c] \in {"on", "needs_free"} => phase = "ready"
  /\ \A c \in Callbacks :
       cbs[c] = "new" => told[c] = {} /\ c \notin todo /\ \A u \in Users : op[u].cb # c
  /\ \A u \in Users :
       op[u].cb # None => op[u].step \in {"poll", "list", "tell", "free"}

(* Told of a device, or about to be by the user who registers it; without  *)
(* a list to tell from yet; with a message still to come.                  *)
Telling(u, c, d) == op[u].cb = c /\ op[u].step = "tell" /\ d \in op[u].todo
Told(c, d) == d \in told[c] \/ \E u \in Users : Telling(u, c, d)
Unlisted(c) == \E u \in Users : op[u].cb = c /\ op[u].step \in {"poll", "list"}
Queued(m) == \E i \in DOMAIN hotplug_msgs : hotplug_msgs[i] = m
Coming(c, m) == Queued(m) \/ (message = m /\ c \in todo)
Arriving(d) == work.step = "arrive" /\ work.dev = d

Knows(c, d) ==
  d \in usb_devs => Told(c, d) \/ Coming(c, Arrived(d)) \/ Arriving(d) \/ Unlisted(c)

KnowInv == \A c \in Callbacks : cbs[c] = "on" => \A d \in Devs : Knows(c, d)

LEMMA CallFacts ==
  ASSUME BaseInv
  PROVE /\ cbs \in [Callbacks -> {"new", "on", "needs_free", "freed"}]
        /\ told \in [Callbacks -> SUBSET Devs] /\ todo \subseteq Callbacks
        /\ None \notin Callbacks /\ hotplug_msgs \in Seq(Messages)
        /\ \A u \in Users : op[u].cb \in Callbacks \cup {None}
        /\ fd \in [Users -> {"none", "open", "error", "removed"}]
<1>1. TypeInv
  BY BaseFacts
<1>2. \A u \in Users : op[u].cb \in Callbacks \cup {None}
  BY BaseFacts DEF Ops
<1>3. None \notin Callbacks
  BY UsbDevicesAssumption
<1> QED BY <1>1, <1>2, <1>3 DEF TypeInv, DevicesTypeOK

LEMMA CallStep ==
  ASSUME BaseInv, StageInv, CallInv, [Next]_vars
  PROVE CallInv'
<1>t. /\ TypeInv /\ UserInv /\ QueueInv
      /\ op \in [Users -> Ops] /\ usb_devs \subseteq Devs
      /\ cbs \in [Callbacks -> {"new", "on", "needs_free", "freed"}]
      /\ told \in [Callbacks -> SUBSET Devs] /\ todo \subseteq Callbacks
      /\ None \notin Callbacks /\ \A u \in Users : op[u].cb \in Callbacks \cup {None}
  BY BaseFacts, CallFacts
<1> USE DEF busVars, devVars, lockVars, eventVars, cbVars, userVars
<1>a. ASSUME UNCHANGED <<cbs, told, todo>>, phase = "ready" => phase' = "ready",
             \A u \in Users :
               \/ op'[u].cb = None
               \/ op'[u].cb = op[u].cb /\ op'[u].step \in {"poll", "list", "tell", "free"}
      PROVE CallInv'
  BY <1>a, <1>t DEF CallInv
<1>b. ASSUME UNCHANGED <<cbs, told, todo, op>>, phase = "ready" => phase' = "ready"
      PROVE CallInv'
  BY <1>b, <1>t DEF CallInv
<1>c. ASSUME WorkEnded, UNCHANGED <<cbs, told, todo, phase>> PROVE CallInv'
  <2>1. ASSUME NEW u \in Users, op'[u].cb # None
        PROVE op'[u].cb = op[u].cb /\ op'[u].step \in {"poll", "list", "tell", "free"}
    <3>1. op[u].cb = op'[u].cb /\ op[u].step \in {"poll", "list", "tell", "free"}
      BY <1>c, <2>1 DEF WorkEnded, CallInv
    <3> QED BY <1>c, <3>1 DEF WorkEnded
  <2> QED BY <1>a, <1>c, <2>1
<1>d. ASSUME NEW u \in Users, OpKept(u), UNCHANGED <<cbs, told, todo, phase>>,
             \/ op'[u].cb = None
             \/ op'[u].cb = op[u].cb /\ op'[u].step \in {"poll", "list", "tell", "free"}
      PROVE CallInv'
  <2>1. ASSUME NEW v \in Users
        PROVE \/ op'[v].cb = None
              \/ op'[v].cb = op[v].cb /\ op'[v].step \in {"poll", "list", "tell", "free"}
    BY <1>d DEF OpKept, CallInv
  <2> QED BY <1>a, <1>d, <2>1
<1>1. ASSUME Starting PROVE CallInv'
  <2>1. CASE InitBackend \/ InitIo \/ ScanStart \/ ScanEnd
    BY <1>b, <2>1 DEF InitBackend, ScanStart, ScanEnd, InitIo, BaseInv, SessionInv
  <2>2. CASE ScanDevice
    BY <1>b, <2>2 DEF ScanDevice
  <2> QED BY <1>1, <2>1, <2>2 DEF Starting
<1>2. ASSUME MonitorLocks \/ HandlerLocks \/ ReadRemove \/ Detach \/ Delist \/ Leave PROVE CallInv'
  BY <1>2, <1>b DEF MonitorLocks, HandlerLocks, ReadRemove, Detach, Delist, Leave
<1>3. ASSUME ReadNone PROVE CallInv'
  BY <1>3, <1>t, <1>c, ReleaseEnds DEF ReadNone
<1>4. ASSUME Arrive \/ Unref PROVE CallInv'
  BY <1>4, <1>t, <1>c, WorkDoneEnds DEF Arrive, Unref
<1>5. ASSUME ReadAdd \/ Find PROVE CallInv'
  <2>1. UNCHANGED op \/ WorkDone
    BY <1>5 DEF ReadAdd, Find
  <2>2. UNCHANGED <<cbs, told, todo, phase>>
    BY <1>5 DEF ReadAdd, Find
  <2> QED BY <1>t, <1>b, <1>c, <2>1, <2>2, WorkDoneEnds
<1>6. ASSUME TakeMessage PROVE CallInv'
  <2>1. UNCHANGED <<phase, cbs, told, op>> /\ todo' = Registered
    BY <1>6 DEF TakeMessage
  <2> QED BY <2>1 DEF CallInv, Registered
<1>7. ASSUME usbi_hotplug_match PROVE CallInv'
  <2>2. PICK c \in todo :
          /\ todo' = todo \ {c}
          /\ \/ cbs' = [cbs EXCEPT ![c] = "freed"] /\ UNCHANGED told
             \/ /\ told' = [told EXCEPT ![c] = Heard(@, message)]
                /\ UNCHANGED cbs \/ cbs' = [cbs EXCEPT ![c] = "freed"]
    BY <1>7 DEF usbi_hotplug_match
  <2>3. UNCHANGED <<phase, op>>
    BY <1>7 DEF usbi_hotplug_match
  <2>4. cbs[c] # "new" /\ c \in Callbacks
    BY <1>t, <2>2 DEF CallInv
  <2>5. \A e \in Callbacks : e # c => told'[e] = told[e]
    BY <1>t, <2>2
  <2>6. \A e \in Callbacks : cbs'[e] = cbs[e] \/ (e = c /\ cbs'[e] = "freed")
    BY <1>t, <2>2, <2>4
  <2> QED BY <2>2, <2>3, <2>4, <2>5, <2>6 DEF CallInv
<1>8. ASSUME EndMessage \/ \E u \in Users : HandleError(u) PROVE CallInv'
  BY <1>8, <1>b DEF EndMessage, HandleError
<1>9. ASSUME Exit PROVE CallInv'
  <2>1. /\ \A u \in Users : op[u].step = "idle"
        /\ \A c \in Callbacks : /\ cbs'[c] \in {"new", "freed"}
                                /\ cbs'[c] = "new" => cbs[c] = "new"
        /\ UNCHANGED <<told, todo, op>>
    BY <1>9 DEF Exit, At
  <2> QED BY <2>1 DEF CallInv
<1>10. ASSUME NEW s \in Sessions, Plug(s) \/ Unplug(s) PROVE CallInv'
  BY <1>10, <1>b DEF Plug, Unplug
<1>11. ASSUME NEW u \in Users, User(u) PROVE CallInv'
  <2>0. ASSUME op[u].step \notin {"poll", "list", "tell", "free"} PROVE op[u].cb = None
    BY <2>0 DEF CallInv
  <2>1. ASSUME PollLocks(u) PROVE CallInv'
    BY <1>b, <2>1 DEF PollLocks
  <2>2. ASSUME OpenFailedLocks(u) PROVE CallInv'
    <3>1. CASE UNCHANGED op
      BY <1>b, <2>2, <3>1 DEF OpenFailedLocks
    <3>2. CASE Go(u, "unref")
      <4>1. op[u].cb = None
        BY <2>0, <2>2 DEF OpenFailedLocks
      <4>2. OpKept(u) /\ op'[u].cb = None
        BY <1>t, <3>2, <4>1, OpGoes
      <4> QED BY <1>d, <2>2, <4>2 DEF OpenFailedLocks
    <3> QED BY <2>2, <3>1, <3>2 DEF OpenFailedLocks, Go
  <2>3. ASSUME TakeList(u) PROVE CallInv'
    <3>1. op' = [op EXCEPT ![u] = IF @.cb = None THEN Idle
                                  ELSE [@ EXCEPT !.step = "tell", !.todo = usb_devs]]
      BY <2>3 DEF TakeList
    <3>2. CASE op[u].cb = None
      <4>1. op' = [op EXCEPT ![u] = Idle]
        BY <1>t, <3>1, <3>2
      <4>2. OpKept(u) /\ op'[u].cb = None
        BY <1>t, <4>1, OpEnds
      <4> QED BY <1>d, <2>3, <4>2 DEF TakeList
    <3>3. CASE op[u].cb # None
      <4>1. op' = [op EXCEPT ![u] = [@ EXCEPT !.step = "tell", !.todo = usb_devs]]
        BY <1>t, <3>1, <3>3
      <4>2. OpKept(u) /\ op'[u].cb = op[u].cb /\ op'[u].step = "tell"
        BY <1>t, <4>1, OpTells
      <4> QED BY <1>d, <2>3, <4>2 DEF TakeList
    <3> QED BY <3>2, <3>3
  <2>4. ASSUME OpenRef(u) PROVE CallInv'
    <3>1. OpKept(u) /\ op'[u].cb = None
      BY <1>t, <2>0, <2>4, OpGoes DEF OpenRef, At
    <3> QED BY <1>d, <2>4, <3>1 DEF OpenRef
  <2>5. ASSUME OpenBackend(u) PROVE CallInv'
    <3>1. OpKept(u) /\ op'[u].cb = None
      <4>1. op' = [op EXCEPT ![u] = Idle] \/ Go(u, "failed")
        BY <2>5 DEF OpenBackend
      <4>2. op[u].cb = None
        BY <2>0, <2>5 DEF OpenBackend, At
      <4>3. CASE op' = [op EXCEPT ![u] = Idle]
        BY <1>t, <4>3, OpEnds
      <4>4. CASE Go(u, "failed")
        BY <1>t, <4>2, <4>4, OpGoes
      <4> QED BY <4>1, <4>3, <4>4
    <3> QED BY <1>d, <2>5, <3>1 DEF OpenBackend
  <2>6. ASSUME OpenUnref(u) \/ RegisterEnd(u) PROVE CallInv'
    <3>1. OpKept(u) /\ op'[u].cb = None
      BY <1>t, <2>6, OpEnds DEF OpenUnref, RegisterEnd
    <3> QED BY <1>d, <2>6, <3>1 DEF OpenUnref, RegisterEnd
  <2>7. ASSUME TellRegistered(u) PROVE CallInv'
    <3>1. PICK d \in op[u].todo :
            /\ op' = [op EXCEPT ![u].todo = @ \ {d}]
            /\ told' = [told EXCEPT ![op[u].cb] = Heard(@, Arrived(d))]
      BY <2>7 DEF TellRegistered
    <3>2. OpKept(u) /\ op'[u].cb = op[u].cb /\ op'[u].step = op[u].step
      BY <1>t, <3>1, OpHasTold
    <3>3. \A v \in Users : op'[v].cb = op[v].cb /\ op'[v].step = op[v].step
      BY <3>2 DEF OpKept
    <3>4. UNCHANGED <<phase, cbs, todo>>
      BY <2>7 DEF TellRegistered
    <3>5. \A c \in Callbacks : cbs[c] = "new" => told'[c] = told[c]
      BY <1>t, <3>1 DEF CallInv
    <3> QED BY <3>3, <3>4, <3>5 DEF CallInv
  <2>8. ASSUME ToldRegistered(u) PROVE CallInv'
    <3>1. OpKept(u) /\ op'[u].cb = op[u].cb /\ op'[u].step = "free"
      BY <1>t, <2>8, OpGoes DEF ToldRegistered
    <3> QED BY <1>d, <2>8, <3>1 DEF ToldRegistered
  <2>9. ASSUME FreeListed(u) PROVE CallInv'
    BY <1>b, <2>9 DEF FreeListed
  <2>10. ASSUME GetDeviceList(u) PROVE CallInv'
    <3>1. OpKept(u) /\ op'[u].cb = None
      BY <1>t, <2>0, <2>10, OpGoes DEF GetDeviceList, Ready, At
    <3> QED BY <1>d, <2>10, <3>1 DEF GetDeviceList
  <2>11. ASSUME Open(u) PROVE CallInv'
    <3>1. OpKept(u) /\ op'[u].cb = None
      <4>1. PICK d \in lists[u] : op' = [op EXCEPT ![u] = Op("ref", d, None)]
        BY <2>11 DEF Open
      <4>2. d \in Devs
        BY <1>t, TypeFacts
      <4> QED BY <1>t, <4>1, <4>2, OpOpens
    <3> QED BY <1>d, <2>11, <3>1 DEF Open
  <2>12. ASSUME Close(u) PROVE CallInv'
    BY <1>b, <2>12 DEF Close
  <2>13. ASSUME NEW c \in Callbacks, Register(u, c) PROVE CallInv'
    <3>1. OpKept(u) /\ op'[u].step = "poll" /\ op'[u].cb = c
      BY <1>t, <2>13, OpRegisters DEF Register
    <3>2. /\ UNCHANGED <<phase, told, todo>> /\ phase = "ready" /\ cbs[c] = "new"
          /\ cbs'[c] = "on" /\ \A e \in Callbacks : e # c => cbs'[e] = cbs[e]
      BY <1>t, <2>13 DEF Register, Ready
    <3>3. \A e \in Callbacks : cbs'[e] \in {"on", "needs_free"} => phase' = "ready"
      BY <3>2
    <3>4. ASSUME NEW e \in Callbacks, cbs'[e] = "new"
          PROVE told'[e] = {} /\ e \notin todo' /\ \A v \in Users : op'[v].cb # e
      BY <3>1, <3>2, <3>4 DEF CallInv, OpKept
    <3>5. ASSUME NEW v \in Users, op'[v].cb # None
          PROVE op'[v].step \in {"poll", "list", "tell", "free"}
      BY <3>1, <3>5 DEF CallInv, OpKept
    <3> QED BY <3>3, <3>4, <3>5 DEF CallInv
  <2>14. ASSUME NEW c \in Callbacks, Deregister(u, c) PROVE CallInv'
    <3>1. /\ UNCHANGED <<phase, told, todo, op>> /\ cbs[c] = "on"
          /\ cbs'[c] = "needs_free" /\ \A e \in Callbacks : e # c => cbs'[e] = cbs[e]
      BY <1>t, <2>14 DEF Deregister
    <3> QED BY <1>t, <3>1 DEF CallInv
  <2> QED BY <1>11, <2>1, <2>2, <2>3, <2>4, <2>5, <2>6, <2>7, <2>8, <2>9, <2>10, <2>11,
             <2>12, <2>13, <2>14 DEF User, Continue, FreeWhen
<1>12. ASSUME UNCHANGED vars PROVE CallInv'
  BY <1>12, <1>b DEF vars
<1> QED BY <1>1, <1>2, <1>3, <1>4, <1>5, <1>6, <1>7, <1>8, <1>9, <1>10, <1>11, <1>12
    DEF Next, Working, Handling

(* The queue of messages.                                                  *)
LEMMA QueuedNotified ==
  ASSUME TypeInv, QueueInv, NEW m \in Messages, Notify(m)
  PROVE /\ phase = "ready" => Queued(m)'
        /\ \A n : Queued(n) => Queued(n)'
<1>1. CASE phase = "ready"
  <2>1. /\ DOMAIN hotplug_msgs = 1..Len(hotplug_msgs) /\ Len(hotplug_msgs) \in Nat
        /\ DOMAIN hotplug_msgs' = 1..(Len(hotplug_msgs) + 1)
        /\ \A i \in 1..Len(hotplug_msgs) : hotplug_msgs'[i] = hotplug_msgs[i]
        /\ hotplug_msgs'[Len(hotplug_msgs) + 1] = m
    BY <1>1, Notified
  <2>2. Queued(m)'
    BY <2>1 DEF Queued
  <2>3. ASSUME NEW n, Queued(n) PROVE Queued(n)'
    BY <2>1, <2>3 DEF Queued
  <2> QED BY <2>2, <2>3
<1>2. CASE phase # "ready"
  <2>1. hotplug_msgs' = hotplug_msgs
    BY <1>2 DEF Notify
  <2> QED BY <1>2, <2>1 DEF Queued
<1> QED BY <1>1, <1>2

LEMMA QueuedTaken ==
  ASSUME TypeInv, TakeMessage, NEW m, Queued(m)
  PROVE Queued(m)' \/ message' = m
<1>1. /\ hotplug_msgs \in Seq(Messages) /\ hotplug_msgs # <<>>
      /\ message' = Head(hotplug_msgs) /\ hotplug_msgs' = Tail(hotplug_msgs)
  BY TypeFacts DEF TakeMessage
<1>2. PICK i \in DOMAIN hotplug_msgs : hotplug_msgs[i] = m
  BY DEF Queued
<1>3. CASE i = 1
  BY <1>1, <1>2, <1>3
<1>4. CASE i # 1
  <2>1. i - 1 \in DOMAIN hotplug_msgs' /\ hotplug_msgs'[i - 1] = hotplug_msgs[i]
    BY <1>1, <1>2, <1>4
  <2> QED BY <1>2, <2>1 DEF Queued
<1> QED BY <1>3, <1>4

(* What a callback knows, in a step that tells it nothing.                 *)
LEMMA KnowsKept ==
  ASSUME NEW c \in Callbacks, NEW d \in Devs, Knows(c, d), UNCHANGED usb_devs,
         Told(c, d) => Told(c, d)', Unlisted(c) => Unlisted(c)',
         Coming(c, Arrived(d)) => Coming(c, Arrived(d))',
         Arriving(d) => Arriving(d)' \/ Coming(c, Arrived(d))'
  PROVE Knows(c, d)'
BY DEF Knows

(* ... because its part in what the users do is the same.                  *)
LEMMA KnowInvKept ==
  ASSUME BaseInv, CallInv, KnowInv,
         \A c \in Callbacks : cbs'[c] = "on" => cbs[c] = "on",
         UNCHANGED <<usb_devs, told, todo>>,
         \/ UNCHANGED op \/ WorkEnded
         \/ \E u \in Users : OpKept(u) /\ op[u].cb = None /\ op'[u].cb = None
         \/ \E u \in Users : /\ OpKept(u) /\ op'[u].cb \in {op[u].cb, None}
                             /\ op'[u].step \notin {"poll", "list", "tell"}
                             /\ \/ op[u].step = "free"
                                \/ op[u].step = "tell" /\ op[u].todo = {},
         \/ UNCHANGED message
         \/ \A d \in Devs : message # Arrived(d)
         \/ todo = {},
         \A d \in Devs : /\ Queued(Arrived(d)) => Queued(Arrived(d))'
                         /\ phase = "ready" /\ Arriving(d) => Arriving(d)' \/ Queued(Arrived(d))'
  PROVE KnowInv'
<1>t. op \in [Users -> Ops] /\ None \notin Callbacks
  BY BaseFacts, CallFacts
<1> SUFFICES ASSUME NEW c \in Callbacks, cbs'[c] = "on", NEW d \in Devs PROVE Knows(c, d)'
  BY DEF KnowInv
<1>1. cbs[c] = "on" /\ phase = "ready" /\ Knows(c, d)
  BY DEF KnowInv, CallInv
<1>2. \A u \in Users : /\ Telling(u, c, d)' <=> Telling(u, c, d)
                       /\ op[u].cb = c /\ op[u].step \in {"poll", "list"}
                            => op'[u].cb = c /\ op'[u].step \in {"poll", "list"}
  <2>1. CASE UNCHANGED op
    BY <2>1 DEF Telling
  <2>2. CASE WorkEnded
    BY <2>2 DEF Telling, WorkEnded
  <2>3. ASSUME NEW u \in Users, OpKept(u), op[u].cb = None, op'[u].cb = None,
               NEW v \in Users
        PROVE /\ Telling(v, c, d)' <=> Telling(v, c, d)
              /\ op[v].cb = c /\ op[v].step \in {"poll", "list"}
                   => op'[v].cb = c /\ op'[v].step \in {"poll", "list"}
    BY <1>t, <2>3 DEF Telling, OpKept
  <2>4. ASSUME NEW u \in Users, OpKept(u), op'[u].step \notin {"poll", "list", "tell"},
               op[u].step = "free" \/ (op[u].step = "tell" /\ op[u].todo = {}),
               NEW v \in Users
        PROVE /\ Telling(v, c, d)' <=> Telling(v, c, d)
              /\ op[v].cb = c /\ op[v].step \in {"poll", "list"}
                   => op'[v].cb = c /\ op'[v].step \in {"poll", "list"}
    BY <2>4 DEF Telling, OpKept
  <2> QED BY <2>1, <2>2, <2>3, <2>4
<1>3. (Told(c, d) => Told(c, d)') /\ (Unlisted(c) => Unlisted(c)')
  BY <1>2 DEF Told, Unlisted
<1>4. Coming(c, Arrived(d)) => Coming(c, Arrived(d))'
  BY DEF Coming, Queued
<1>5. Arriving(d) => Arriving(d)' \/ Coming(c, Arrived(d))'
  BY <1>1 DEF Coming, Queued
<1> QED BY <1>1, <1>3, <1>4, <1>5, KnowsKept

LEMMA OtherEvents ==
  \A d \in Devs : /\ NoMessage # Arrived(d)
                  /\ message.event = "POLLERR" => message # Arrived(d)
<1> SUFFICES ASSUME NEW d \in Devs
             PROVE NoMessage # Arrived(d) /\ (message.event = "POLLERR" => message # Arrived(d))
  OBVIOUS
<1>1. Arrived(d).event = "ARRIVED" /\ NoMessage.event = "no message"
  BY MessageTypes
<1> QED BY <1>1

LEMMA KnowStep ==
  ASSUME BaseInv, StageInv, CallInv, KnowInv, [Next]_vars
  PROVE KnowInv'
<1>t. /\ TypeInv /\ UserInv /\ QueueInv /\ PlaceInv /\ CountInv
      /\ work \in Works /\ op \in [Users -> Ops] /\ usb_devs \subseteq Devs
      /\ cbs \in [Callbacks -> {"new", "on", "needs_free", "freed"}]
      /\ told \in [Callbacks -> SUBSET Devs] /\ todo \subseteq Callbacks
      /\ None \notin Callbacks /\ \A u \in Users : op[u].cb \in Callbacks \cup {None}
      /\ (hotplug_lock = None <=> work.step = "none")
      /\ CallInv'
  BY BaseFacts, CallFacts, CallStep
<1> USE DEF busVars, devVars, lockVars, eventVars, cbVars, userVars
(* Steps that neither tell anybody anything nor touch the queue.           *)
<1>q. ASSUME UNCHANGED <<usb_devs, told, todo, cbs, hotplug_msgs>>,
             \/ UNCHANGED op \/ WorkEnded
             \/ \E u \in Users : OpKept(u) /\ op[u].cb = None /\ op'[u].cb = None
             \/ \E u \in Users : /\ OpKept(u) /\ op'[u].cb \in {op[u].cb, None}
                                 /\ op'[u].step \notin {"poll", "list", "tell"}
                                 /\ \/ op[u].step = "free"
                                    \/ op[u].step = "tell" /\ op[u].todo = {},
             \/ UNCHANGED message \/ message = NoMessage \/ message.event = "POLLERR"
             \/ todo = {},
             UNCHANGED work \/ work.step # "arrive"
      PROVE KnowInv'
  <2>1. \/ UNCHANGED message
        \/ \A d \in Devs : message # Arrived(d)
        \/ todo = {}
    BY <1>q, OtherEvents
  <2>2. ASSUME NEW d \in Devs
        PROVE /\ Queued(Arrived(d)) => Queued(Arrived(d))'
              /\ Arriving(d) => Arriving(d)'
    BY <1>q DEF Queued, Arriving
  <2>3. \A c \in Callbacks : cbs'[c] = "on" => cbs[c] = "on"
    BY <1>q
  <2> QED BY <1>q, <2>1, <2>2, <2>3, KnowInvKept
<1>1. ASSUME Starting PROVE KnowInv'
  <2>1. phase # "ready" /\ cbs' = cbs
    <3>1. CASE ScanDevice \/ ScanEnd
      BY <3>1 DEF ScanDevice, ScanEnd, BaseInv, SessionInv
    <3>2. CASE InitBackend \/ ScanStart \/ InitIo
      BY <3>2 DEF InitBackend, ScanStart, InitIo
    <3> QED BY <1>1, <3>1, <3>2 DEF Starting
  <2> QED BY <2>1 DEF CallInv, KnowInv
<1>2. ASSUME MonitorLocks \/ HandlerLocks PROVE KnowInv'
  <2>1. UNCHANGED work \/ work.step = "none"
    BY <1>2, <1>t DEF MonitorLocks, HandlerLocks, Begin
  <2>2. UNCHANGED message \/ message.event = "POLLERR"
    BY <1>2 DEF MonitorLocks, HandlerLocks
  <2> QED BY <1>2, <1>q, <2>1, <2>2 DEF MonitorLocks, HandlerLocks
<1>3. ASSUME ReadNone PROVE KnowInv'
  <2>1. WorkEnded /\ (message' = message \/ message.event = "POLLERR")
    BY <1>3, <1>t, EndedMessage DEF ReadNone
  <2> QED BY <1>3, <1>q, <2>1 DEF ReadNone
<1>4. ASSUME ReadRemove \/ Detach PROVE KnowInv'
  BY <1>4, <1>q DEF ReadRemove, Detach
<1>5. ASSUME Find \/ Unref PROVE KnowInv'
  <2>1. /\ UNCHANGED <<usb_devs, told, todo, cbs, hotplug_msgs>> /\ work.step \in {"find", "unref"}
        /\ UNCHANGED <<op, message>> \/ WorkDone
    BY <1>5 DEF Find, Unref
  <2>2. CASE WorkDone
    <3>1. WorkEnded /\ (message' = message \/ message.event = "POLLERR")
      BY <1>t, <2>2, EndedMessage
    <3> QED BY <1>q, <2>1, <3>1
  <2>3. CASE UNCHANGED <<op, message>>
    BY <1>q, <2>1, <2>3
  <2> QED BY <2>1, <2>2, <2>3
<1>6. ASSUME ReadAdd PROVE KnowInv'
  <2>1. UNCHANGED <<told, todo, cbs, hotplug_msgs, phase>> /\ work.step = "read"
    BY <1>6 DEF ReadAdd
  <2>2. CASE Addable(Head(netlink)[2])
    <3>1. /\ linux_enumerate_device(Head(netlink)[2]) /\ UNCHANGED <<op, message>>
          /\ work' = Work("arrive", allocated', {})
      BY <1>6, <2>2 DEF ReadAdd
    <3>2. /\ usb_devs' = usb_devs \cup {allocated'}
          /\ work'.step = "arrive" /\ work'.dev = allocated'
      BY <3>1 DEF linux_enumerate_device, Work
    <3>3. ASSUME NEW c \in Callbacks, cbs'[c] = "on", NEW d \in Devs PROVE Knows(c, d)'
      <4>1. Knows(c, d)
        BY <2>1, <3>3 DEF KnowInv
      <4>2. (Told(c, d)' <=> Told(c, d)) /\ (Unlisted(c)' <=> Unlisted(c))
            /\ \A m : Coming(c, m)' <=> Coming(c, m)
        BY <2>1, <3>1 DEF Told, Telling, Unlisted, Coming, Queued
      <4>3. ~Arriving(d) /\ (d = allocated' => Arriving(d)')
        BY <2>1, <3>2 DEF Arriving
      <4>4. d \in usb_devs' <=> d \in usb_devs \/ d = allocated'
        BY <3>2
      <4> QED BY <4>1, <4>2, <4>3, <4>4 DEF Knows
    <3> QED BY <3>3 DEF KnowInv
  <2>3. CASE ~Addable(Head(netlink)[2])
    <3>1. WorkDone /\ UNCHANGED usb_devs
      BY <1>6, <2>3 DEF ReadAdd
    <3>2. WorkEnded /\ (message' = message \/ message.event = "POLLERR")
      BY <1>t, <3>1, EndedMessage
    <3> QED BY <1>q, <2>1, <3>1, <3>2
  <2> QED BY <2>2, <2>3
<1>7. ASSUME Arrive PROVE KnowInv'
  <2>1. /\ UNCHANGED <<usb_devs, told, todo, cbs, phase>> /\ work.step = "arrive"
        /\ Notify(Arrived(work.dev)) /\ WorkDone /\ work.dev \in Devs
    BY <1>7, <1>t DEF Arrive, TypeInv, WorkIsLocked
  <2>2. WorkEnded /\ (message' = message \/ message.event = "POLLERR")
    BY <1>t, <2>1, EndedMessage
  <2>3. PICK w \in Devs : w = work.dev /\ Notify(Arrived(w))
    BY <2>1
  <2>4. /\ phase = "ready" => Queued(Arrived(w))'
        /\ \A m : Queued(m) => Queued(m)'
    <3>1. Arrived(w) \in Messages
      BY MessageTypes
    <3> QED BY <1>t, <2>3, <3>1, QueuedNotified
  <2>5. ASSUME NEW d \in Devs
        PROVE phase = "ready" /\ Arriving(d) => Queued(Arrived(d))'
    BY <2>1, <2>3, <2>4 DEF Arriving
  <2>6. \/ UNCHANGED message
        \/ \A d \in Devs : message # Arrived(d)
    BY <2>2, OtherEvents
  <2> QED BY <2>1, <2>2, <2>4, <2>5, <2>6, KnowInvKept
<1>8. ASSUME Delist PROVE KnowInv'
  <2>1. /\ UNCHANGED <<told, todo, cbs, hotplug_msgs, message, op>>
        /\ usb_devs' = usb_devs \ {work.dev}
        /\ work.step = "delist" /\ work'.step = "leave" /\ work'.dev = work.dev
    BY <1>8, <1>t, WorkGoes DEF Delist
  <2>2. ASSUME NEW c \in Callbacks, cbs'[c] = "on", NEW d \in Devs PROVE Knows(c, d)'
    <3>1. Knows(c, d)
      BY <2>1, <2>2 DEF KnowInv
    <3>2. (Told(c, d)' <=> Told(c, d)) /\ (Unlisted(c)' <=> Unlisted(c))
          /\ \A m : Coming(c, m)' <=> Coming(c, m)
      BY <2>1 DEF Told, Telling, Unlisted, Coming, Queued
    <3>3. ~Arriving(d)
      BY <2>1 DEF Arriving
    <3>4. d \in usb_devs' => d \in usb_devs
      BY <2>1
    <3> QED BY <3>1, <3>2, <3>3, <3>4 DEF Knows
  <2> QED BY <2>2 DEF KnowInv
<1>9. ASSUME Leave PROVE KnowInv'
  <2>1. /\ UNCHANGED <<usb_devs, told, todo, cbs, phase, op, message>> /\ work.step = "leave"
        /\ Notify(Left(work.dev)) /\ work.dev \in Devs
    BY <1>9, <1>t DEF Leave, TypeInv, WorkIsLocked
  <2>2. PICK w \in Devs : w = work.dev /\ Notify(Left(w))
    BY <2>1
  <2>3. \A m : Queued(m) => Queued(m)'
    <3>1. Left(w) \in Messages
      BY MessageTypes
    <3> QED BY <1>t, <2>2, <3>1, QueuedNotified
  <2>4. ASSUME NEW d \in Devs
        PROVE ~Arriving(d)
    BY <2>1 DEF Arriving
  <2> QED BY <2>1, <2>3, <2>4, KnowInvKept
<1>10. ASSUME TakeMessage PROVE KnowInv'
  <2>1. /\ UNCHANGED <<usb_devs, told, cbs, phase, op, work>> /\ message = NoMessage
        /\ todo' = Registered
    BY <1>10 DEF TakeMessage
  <2>2. ASSUME NEW c \in Callbacks, cbs'[c] = "on", NEW d \in Devs PROVE Knows(c, d)'
    <3>1. Knows(c, d) /\ c \in todo'
      BY <2>1, <2>2 DEF KnowInv, Registered
    <3>2. (Told(c, d)' <=> Told(c, d)) /\ (Unlisted(c) => Unlisted(c)')
          /\ (Arriving(d) => Arriving(d)')
      BY <2>1 DEF Told, Telling, Unlisted, Arriving
    <3>3. ASSUME NEW m, m # NoMessage, Coming(c, m) PROVE Coming(c, m)'
      <4>1. Queued(m)
        BY <2>1, <3>3 DEF Coming
      <4>2. Queued(m)' \/ message' = m
        BY <1>10, <1>t, <4>1, QueuedTaken
      <4> QED BY <3>1, <4>2 DEF Coming
    <3>4. Coming(c, Arrived(d)) => Coming(c, Arrived(d))'
      BY <3>3, OtherEvents
    <3> QED BY <2>1, <3>1, <3>2, <3>4, KnowsKept
  <2> QED BY <2>2 DEF KnowInv
<1>11. ASSUME usbi_hotplug_match PROVE KnowInv'
  <2>1. UNCHANGED <<usb_devs, hotplug_msgs, message, phase, op, work>> /\ message \in Messages
    BY <1>11 DEF usbi_hotplug_match
  <2>2. PICK c \in todo :
          /\ todo' = todo \ {c}
          /\ \/ cbs' = [cbs EXCEPT ![c] = "freed"] /\ UNCHANGED told
             \/ /\ told' = [told EXCEPT ![c] = Heard(@, message)]
                /\ UNCHANGED cbs \/ cbs' = [cbs EXCEPT ![c] = "freed"]
    BY <1>11 DEF usbi_hotplug_match
  <2>3. ASSUME NEW b \in Callbacks, cbs'[b] = "on", NEW d \in Devs PROVE Knows(b, d)'
    <3>1. cbs[b] = "on" /\ Knows(b, d)
      BY <1>t, <2>2, <2>3 DEF KnowInv
    <3>2. /\ Unlisted(b)' <=> Unlisted(b)
          /\ Arriving(d)' <=> Arriving(d)
          /\ \A m : Queued(m)' <=> Queued(m)
          /\ \A u \in Users : Telling(u, b, d)' <=> Telling(u, b, d)
      BY <2>1 DEF Unlisted, Arriving, Queued, Telling
    <3>3. CASE b # c
      <4>1. told'[b] = told[b] /\ (b \in todo' <=> b \in todo)
        BY <1>t, <2>2, <3>3
      <4>2. Coming(b, Arrived(d)) => Coming(b, Arrived(d))'
        BY <2>1, <4>1 DEF Coming, Queued
      <4>3. Told(b, d) => Told(b, d)'
        BY <3>2, <4>1 DEF Told
      <4> QED BY <2>1, <3>1, <3>2, <4>2, <4>3, KnowsKept
    <3>4. CASE b = c
      <4>1. told'[b] = Heard(told[b], message)
        BY <1>t, <2>2, <2>3, <3>4
      <4>2. CASE message = Arrived(d)
        <5>1. d \in told'[b]
          BY <4>1, <4>2, MessageTypes DEF Heard
        <5> QED BY <5>1 DEF Knows, Told
      <4>3. CASE message = Left(d)
        <5>1. d \notin usb_devs'
          BY <1>t, <2>1, <4>3, FirstIs DEF CountInv
        <5> QED BY <5>1 DEF Knows
      <4>4. CASE message # Arrived(d) /\ message # Left(d)
        <5>1. d \in told'[b] <=> d \in told[b]
          <6>1. message.event \in {"ARRIVED", "LEFT"} => message.dev # d
            <7>1. \/ message = Deregistered
                  \/ message = Arrived(message.dev) \/ message = Left(message.dev)
              BY <2>1, MessageCases
            <7>2. message = Deregistered => message.event \notin {"ARRIVED", "LEFT"}
              BY MessageTypes
            <7> QED BY <4>4, <7>1, <7>2
          <6> QED BY <4>1, <6>1 DEF Heard
        <5>2. Coming(b, Arrived(d)) => Coming(b, Arrived(d))'
          BY <3>2, <4>4 DEF Coming
        <5>3. Told(b, d) => Told(b, d)'
          BY <3>2, <5>1 DEF Told
        <5> QED BY <2>1, <3>1, <3>2, <5>2, <5>3, KnowsKept
      <4> QED BY <4>2, <4>3, <4>4
    <3> QED BY <3>3, <3>4
  <2> QED BY <2>3 DEF KnowInv
<1>12. ASSUME EndMessage PROVE KnowInv'
  BY <1>12, <1>q DEF EndMessage
<1>13. ASSUME NEW u \in Users, HandleError(u) PROVE KnowInv'
  BY <1>13, <1>q DEF HandleError
<1>14. ASSUME Exit PROVE KnowInv'
  <2>1. \A c \in Callbacks : cbs'[c] # "on"
    BY <1>14 DEF Exit
  <2> QED BY <2>1 DEF KnowInv
<1>15. ASSUME NEW s \in Sessions, Plug(s) \/ Unplug(s) PROVE KnowInv'
  BY <1>15, <1>q DEF Plug, Unplug
<1>16. ASSUME NEW u \in Users, User(u) PROVE KnowInv'
  <2>0. ASSUME op[u].step \notin {"poll", "list", "tell", "free"} PROVE op[u].cb = None
    BY <2>0 DEF CallInv
  <2>a. ASSUME UNCHANGED <<usb_devs, told, todo, cbs, hotplug_msgs, message, work>>,
               OpKept(u), op[u].cb = None, op'[u].cb = None
        PROVE KnowInv'
    BY <1>q, <2>a
  <2>b. ASSUME UNCHANGED <<usb_devs, told, todo, cbs, hotplug_msgs, message, op>>,
               UNCHANGED work \/ work.step = "none"
        PROVE KnowInv'
    BY <1>q, <2>b
  <2>1. ASSUME PollLocks(u) PROVE KnowInv'
    BY <1>t, <2>1, <2>b DEF PollLocks, Begin
  <2>2. ASSUME OpenFailedLocks(u) PROVE KnowInv'
    <3>1. CASE UNCHANGED op
      BY <1>t, <2>2, <2>b, <3>1 DEF OpenFailedLocks, Begin
    <3>2. CASE Go(u, "unref") /\ UNCHANGED work
      <4>1. op[u].cb = None
        BY <2>0, <2>2 DEF OpenFailedLocks
      <4>2. OpKept(u) /\ op'[u].cb = None
        BY <1>t, <3>2, <4>1, OpGoes
      <4> QED BY <2>a, <2>2, <3>2, <4>1, <4>2 DEF OpenFailedLocks
    <3> QED BY <2>2, <3>1, <3>2 DEF OpenFailedLocks, Go
  <2>3. ASSUME TakeList(u) PROVE KnowInv'
    <3>1. /\ op' = [op EXCEPT ![u] = IF @.cb = None THEN Idle
                                     ELSE [@ EXCEPT !.step = "tell", !.todo = usb_devs]]
          /\ UNCHANGED <<usb_devs, told, todo, cbs, hotplug_msgs, message, work>>
          /\ op[u].step = "list"
      BY <2>3 DEF TakeList, At
    <3>2. CASE op[u].cb = None
      <4>1. op' = [op EXCEPT ![u] = Idle]
        BY <1>t, <3>1, <3>2
      <4>2. OpKept(u) /\ op'[u].cb = None
        BY <1>t, <4>1, OpEnds
      <4> QED BY <2>a, <3>1, <3>2, <4>2
    <3>3. CASE op[u].cb # None
      <4>1. op' = [op EXCEPT ![u] = [@ EXCEPT !.step = "tell", !.todo = usb_devs]]
        BY <1>t, <3>1, <3>3
      <4>2. /\ OpKept(u) /\ op'[u].cb = op[u].cb /\ op'[u].step = "tell"
            /\ op'[u].todo = usb_devs
        BY <1>t, <4>1, OpTells
      <4>3. ASSUME NEW c \in Callbacks, cbs'[c] = "on", NEW d \in Devs PROVE Knows(c, d)'
        <5>1. Knows(c, d)
          BY <3>1, <4>3 DEF KnowInv
        <5>2. /\ \A m : Coming(c, m)' <=> Coming(c, m)
              /\ Arriving(d)' <=> Arriving(d)
          BY <3>1 DEF Coming, Queued, Arriving
        <5>3. CASE op[u].cb # c
          <6>1. /\ Told(c, d)' <=> Told(c, d)
                /\ Unlisted(c)' <=> Unlisted(c)
            BY <3>1, <4>2, <5>3 DEF Told, Telling, Unlisted, OpKept
          <6> QED BY <3>1, <5>1, <5>2, <6>1 DEF Knows
        <5>4. CASE op[u].cb = c
          <6>1. d \in usb_devs => Told(c, d)'
            BY <3>1, <4>2, <5>4 DEF Told, Telling
          <6> QED BY <3>1, <6>1 DEF Knows
        <5> QED BY <5>3, <5>4
      <4> QED BY <4>3 DEF KnowInv
    <3> QED BY <3>2, <3>3
  <2>4. ASSUME OpenRef(u) PROVE KnowInv'
    <3>1. OpKept(u) /\ op[u].cb = None /\ op'[u].cb = None
      BY <1>t, <2>0, <2>4, OpGoes DEF OpenRef, At
    <3> QED BY <2>4, <2>a, <3>1 DEF OpenRef
  <2>5. ASSUME OpenBackend(u) PROVE KnowInv'
    <3>1. op[u].cb = None
      BY <2>0, <2>5 DEF OpenBackend, At
    <3>2. OpKept(u) /\ op'[u].cb = None
      <4>1. op' = [op EXCEPT ![u] = Idle] \/ Go(u, "failed")
        BY <2>5 DEF OpenBackend
      <4>2. CASE op' = [op EXCEPT ![u] = Idle]
        BY <1>t, <4>2, OpEnds
      <4>3. CASE Go(u, "failed")
        BY <1>t, <3>1, <4>3, OpGoes
      <4> QED BY <4>1, <4>2, <4>3
    <3> QED BY <2>5, <2>a, <3>1, <3>2 DEF OpenBackend
  <2>6. ASSUME OpenUnref(u) PROVE KnowInv'
    <3>1. OpKept(u) /\ op[u].cb = None /\ op'[u].cb = None
      BY <1>t, <2>0, <2>6, OpEnds DEF OpenUnref, At
    <3> QED BY <2>6, <2>a, <3>1 DEF OpenUnref
  <2>7. ASSUME RegisterEnd(u) PROVE KnowInv'
    <3>1. OpKept(u) /\ op'[u].cb = None /\ op'[u].step = "idle" /\ op[u].step = "free"
      BY <1>t, <2>7, OpEnds DEF RegisterEnd, At
    <3> QED BY <1>q, <2>7, <3>1 DEF RegisterEnd
  <2>8. ASSUME ToldRegistered(u) PROVE KnowInv'
    <3>1. /\ OpKept(u) /\ op'[u].cb = op[u].cb /\ op'[u].step = "free"
          /\ op[u].step = "tell" /\ op[u].todo = {}
      BY <1>t, <2>8, OpGoes DEF ToldRegistered, At
    <3> QED BY <1>q, <2>8, <3>1 DEF ToldRegistered
  <2>9. ASSUME TellRegistered(u) PROVE KnowInv'
    <3>1. PICK e \in op[u].todo :
            /\ op' = [op EXCEPT ![u].todo = @ \ {e}]
            /\ told' = [told EXCEPT ![op[u].cb] = Heard(@, Arrived(e))]
      BY <2>9 DEF TellRegistered
    <3>2. /\ OpKept(u) /\ op'[u].cb = op[u].cb /\ op'[u].step = op[u].step
          /\ op'[u].todo = op[u].todo \ {e} /\ op[u].step = "tell"
      BY <1>t, <2>9, <3>1, OpHasTold DEF TellRegistered, At
    <3>3. /\ \A c \in Callbacks : c # op[u].cb => told'[c] = told[c]
          /\ op[u].cb \in Callbacks => told'[op[u].cb] = told[op[u].cb] \cup {e}
      <4>1. e \in Devs
        BY <1>t, <3>1 DEF Ops
      <4>2. \A known : Heard(known, Arrived(e)) = known \cup {e}
        BY <4>1, MessageTypes DEF Heard
      <4> QED BY <1>t, <3>1, <4>2
    <3>4. UNCHANGED <<usb_devs, todo, cbs, hotplug_msgs, message, work>>
      BY <2>9 DEF TellRegistered
    <3>5. ASSUME NEW c \in Callbacks, cbs'[c] = "on", NEW d \in Devs PROVE Knows(c, d)'
      <4>1. Knows(c, d)
        BY <3>4, <3>5 DEF KnowInv
      <4>2. /\ \A m : Coming(c, m)' <=> Coming(c, m)
            /\ Arriving(d)' <=> Arriving(d)
        BY <3>4 DEF Coming, Queued, Arriving
      <4>3. Unlisted(c)' <=> Unlisted(c)
        BY <3>2 DEF Unlisted, OpKept
      <4>4. \A v \in Users : v # u => (Telling(v, c, d)' <=> Telling(v, c, d))
        BY <3>2 DEF Telling, OpKept
      <4>5. Told(c, d)' <=> Told(c, d)
        <5>1. CASE op[u].cb # c
          <6>1. ~Telling(u, c, d)' /\ ~Telling(u, c, d) /\ told'[c] = told[c]
            BY <3>2, <3>3, <5>1 DEF Telling
          <6> QED BY <4>4, <6>1 DEF Told
        <5>2. CASE op[u].cb = c
          <6>1. (d \in told'[c] \/ Telling(u, c, d)') <=> (d \in told[c] \/ Telling(u,
                  c, d))
            BY <3>1, <3>2, <3>3, <5>2 DEF Telling
          <6> QED BY <4>4, <6>1 DEF Told
        <5> QED BY <5>1, <5>2
      <4> QED BY <3>4, <4>1, <4>2, <4>3, <4>5, KnowsKept
    <3> QED BY <3>5 DEF KnowInv
  <2>10. ASSUME FreeListed(u) \/ Close(u) PROVE KnowInv'
    BY <2>10, <2>b DEF FreeListed, Close
  <2>11. ASSUME GetDeviceList(u) PROVE KnowInv'
    <3>1. OpKept(u) /\ op[u].cb = None /\ op'[u].cb = None
      BY <1>t, <2>0, <2>11, OpGoes DEF GetDeviceList, Ready, At
    <3> QED BY <2>11, <2>a, <3>1 DEF GetDeviceList
  <2>12. ASSUME Open(u) PROVE KnowInv'
    <3>1. op[u].cb = None
      BY <2>0, <2>12 DEF Open, Ready, At
    <3>2. OpKept(u) /\ op'[u].cb = None
      <4>1. PICK d \in lists[u] : op' = [op EXCEPT ![u] = Op("ref", d, None)]
        BY <2>12 DEF Open
      <4>2. d \in Devs
        BY <1>t, TypeFacts
      <4> QED BY <1>t, <4>1, <4>2, OpOpens
    <3> QED BY <2>12, <2>a, <3>1, <3>2 DEF Open
  <2>13. ASSUME NEW c \in Callbacks, Register(u, c) PROVE KnowInv'
    <3>1. OpKept(u) /\ op'[u].step = "poll" /\ op'[u].cb = c /\ op[u].cb = None
      BY <1>t, <2>0, <2>13, OpRegisters DEF Register, Ready, At
    <3>2. /\ UNCHANGED <<usb_devs, told, todo, hotplug_msgs, message, work>> /\ cbs[c] = "new"
          /\ \A b \in Callbacks : b # c => cbs'[b] = cbs[b]
      BY <1>t, <2>13 DEF Register
    <3>3. ASSUME NEW b \in Callbacks, cbs'[b] = "on", NEW d \in Devs PROVE Knows(b, d)'
      <4>1. CASE b = c
        <5>1. Unlisted(c)'
          BY <3>1 DEF Unlisted
        <5> QED BY <4>1, <5>1 DEF Knows
      <4>2. CASE b # c
        <5>1. Knows(b, d)
          BY <3>2, <3>3, <4>2 DEF KnowInv
        <5>2. /\ \A m : Coming(b, m)' <=> Coming(b, m)
              /\ Arriving(d)' <=> Arriving(d)
          BY <3>2 DEF Coming, Queued, Arriving
        <5>3. (Told(b, d)' <=> Told(b, d)) /\ (Unlisted(b)' <=> Unlisted(b))
          BY <1>t, <3>1, <3>2, <4>2 DEF Told, Telling, Unlisted, OpKept
        <5> QED BY <3>2, <5>1, <5>2, <5>3, KnowsKept
      <4> QED BY <4>1, <4>2
    <3> QED BY <3>3 DEF KnowInv
  <2>14. ASSUME NEW c \in Callbacks, Deregister(u, c) PROVE KnowInv'
    <3>1. /\ UNCHANGED <<usb_devs, told, todo, message, op, work>> /\ Notify(Deregistered)
          /\ cbs' = [cbs EXCEPT ![c] = "needs_free"]
      BY <2>14 DEF Deregister
    <3>2. \A m : Queued(m) => Queued(m)'
      BY <1>t, <3>1, MessageTypes, QueuedNotified
    <3>3. ASSUME NEW b \in Callbacks, cbs'[b] = "on", NEW d \in Devs PROVE Knows(b, d)'
      <4>1. Knows(b, d)
        BY <1>t, <3>1, <3>3 DEF KnowInv
      <4>2. /\ Coming(b, Arrived(d)) => Coming(b, Arrived(d))'
            /\ Arriving(d)' <=> Arriving(d)
        BY <3>1, <3>2 DEF Coming, Queued, Arriving
      <4>3. (Told(b, d)' <=> Told(b, d)) /\ (Unlisted(b)' <=> Unlisted(b))
        BY <3>1 DEF Told, Telling, Unlisted
      <4> QED BY <3>1, <4>1, <4>2, <4>3, KnowsKept
    <3> QED BY <3>3 DEF KnowInv
  <2> QED BY <1>16, <2>1, <2>2, <2>3, <2>4, <2>5, <2>6, <2>7, <2>8, <2>9, <2>10, <2>11,
             <2>12, <2>13, <2>14 DEF User, Continue, FreeWhen
<1>17. ASSUME UNCHANGED vars PROVE KnowInv'
  BY <1>17, <1>q DEF vars
<1> QED BY <1>1, <1>2, <1>3, <1>4, <1>5, <1>6, <1>7, <1>8, <1>9, <1>10, <1>11, <1>12,
        <1>13,
           <1>14, <1>15, <1>16, <1>17 DEF Next, Working, Handling

(* When nothing is left to be told, a registered callback has been told of *)
(* every device in the list: by the user who registers it, from a list, or *)
(* by the thread that handles the messages, whatever the order of the two. *)
THEOREM CallbacksMissNothingCorrect == DevicesSpec => []CallbacksMissNothing
<1> DEFINE Inv == BaseInv /\ StageInv /\ CallInv /\ KnowInv
<1>1. DevicesInit => Inv
  <2> SUFFICES ASSUME DevicesInit PROVE Inv  OBVIOUS
  <2>1. /\ \A c \in Callbacks : cbs[c] = "new" /\ told[c] = {}
        /\ \A u \in Users : op[u].cb = None
        /\ todo = {}
    BY DEF DevicesInit, Idle, Op
  <2>2. None \notin Callbacks
    BY UsbDevicesAssumption
  <2>3. CallInv /\ KnowInv
    BY <2>1, <2>2 DEF CallInv, KnowInv
  <2> QED BY <2>3, BaseInit
<1>2. Inv /\ [Next]_vars => Inv'
  BY BaseStep, StageStep, CallStep, KnowStep
<1>3. Inv => CallbacksMissNothing
  <2> SUFFICES ASSUME Inv, hotplug_msgs = <<>>, message = NoMessage, hotplug_lock = None,
                      NEW c \in Callbacks, cbs[c] = "on", \A u \in Users : op[u].cb # c,
                      NEW d \in usb_devs
               PROVE d \in told[c]
    BY DEF CallbacksMissNothing
  <2>1. d \in Devs /\ work.step = "none"
    BY BaseFacts
  <2>2. Knows(c, d)
    BY <2>1 DEF KnowInv
  <2>3. ~Unlisted(c) /\ ~Arriving(d) /\ \A u \in Users : ~Telling(u, c, d)
    BY <2>1 DEF Unlisted, Telling, Arriving
  <2>4. ~Coming(c, Arrived(d))
    BY <2>1, OtherEvents, EmptyDomain DEF Coming, Queued
  <2> QED BY <2>2, <2>3, <2>4 DEF Knows, Told
<1> QED BY <1>1, <1>2, <1>3, PTL DEF DevicesSpec

=============================================================================
