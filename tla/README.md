# DMX485, specified in TLA+

DMX485 is an external for Max that drives stage lights: a FTDI USB-RS485
converter sends DMX frames, and messages from a patch set the levels, connect,
disconnect and select the converter. Its own code (`src/src/`) is small, but
concurrent: a worker thread owns the port, the threads of Max command it
through unlocked shared members, and devices come and go. The repository also
carries the sources of the two libraries such a program stands on, libusb and
libftdi, where most of its lines are.

This directory holds TLA+ specifications of that code, the TLC configurations
that check them, and proofs that TLAPS checks. Paths below are relative to the
repository's root (`src/...`). Line numbers without a file are those of
`src/src/dmxObjectD2xx.cpp` in the sections about the external and those of the
module's file in the sections about a library.

## Inventory

### The external

| Component | State | Operations | Talks to |
|---|---|---|---|
| Worker thread of `dm2xx` (`thread`, `connect`, `disconnect`) | `dmxPointer`, `threadOn`, `ftdiPortStatus`, local `tdmxPointer`, its place in the loop | test and clear the command, connect sequence, disconnect, restart, timer | the D2XX library (calls); Max's threads (shared members) |
| Public methods of `dm2xx` | `threadAction`, `deviceNumber` | `enable`, `disable`, `refresh`, `select_device`, `getDeviceCount` | the worker, through the two members |
| Levels and frames | `dmx_data`, locals of `timer_action` | `set_channel`, `timer_action` | written by Max's threads, read by the worker inside `FT_Write` |
| Max object (`src/src/dmx485.cpp`) | the objects, `autoConnect` | one handler per message, `dmx_new`, `dmx_free` | the one shared `dm2xx` |
| Start (`main`, `instance`, constructor) | `dm2xx_obj`, `dmx1`, `mClass` | the stores of `main`, the first turns of the worker | worker, objects |
| Device menu (`dmx_print`, `getDeviceNameForIndex`) | `out_list` | `print` | bus, outlet (a umenu of Max) |
| D2XX library and USB bus (external, binary) | attached devices, open handles | `FT_*` | worker, callers |

### The libraries

| Component | State | Operations | Talks to |
|---|---|---|---|
| libusb transfers (`libusb/libusb/io.c`) | `flying_transfers`, deadlines, flags, `timerfd` | submit, cancel, `handle_timeouts`, completion, disconnect | backend, event handling, the user's callback |
| libusb backend for Linux (`os/linux_usbfs.c`) | the URBs of a transfer, `reap_action`, counters | split, submit, discard, reap | the kernel, `io.c` |
| libusb event handling (`io.c`, `core.c`, `sync.c`) | `events_lock`, waiters, event pipe, poll descriptors | `handle_events`, synchronous calls, open, close, interruption | all threads |
| libusb devices (`core.c`, `hotplug.c`, `os/linux_netlink.c`, `os/linux_usbfs.c`) | device list, reference counts, messages, callbacks | start, scan, netlink monitor, open, close, lists, callbacks, exit | kernel, users, event handler |
| libftdi data path and speeds (`libftdi/src/ftdi.c`) | read buffer, chunk sizes, rate, asynchronous calls | open, close, baud rates, bit modes, read, write, purge | libusb |
| libftdi EEPROM, stream, line settings; libusb descriptors and strings | images, buffers | see "Not modelled" | |
| libusb backends for other systems, examples, tests, build | | see "Not modelled" | |

### What is hard, and what makes each component correct

External. The mailbox `threadAction` has one place, no lock and no queue, and is
written by both sides; `enable()` tests and stores in two steps; a status is
kept in a member and tested after a call that stored its status elsewhere; calls
into the library fail and the error paths give nothing back; devices are pulled
out while a frame is sent; levels change while `FT_Write` reads them; one
`dm2xx` serves all objects; the worker runs before the pointer it uses is set.

* worker: it sends only on an open port, moves from one port to another only by
  way of none, loses a handle only where `connect()` gives up, serves every
  command that does not come while it clears or overwrites the mailbox, and, with
  a user who waits, does what the last one wanted;
* levels and frames: until a write falls short, what goes on the line is, slot
  by slot, a recent level, and a frame is whole; every frame ends;
* start: the worker faults only before `main` has published the object.

Libraries. Transfers of several threads share one sorted list and one timer;
submission, cancellation, timeout, answer and disconnect race; a transfer's URBs
come back in orders of the kernel's choosing; threads hand event handling over
to each other and sleep meanwhile; a device is referenced by a list, by
messages, by handles and by lookups at once, and its address may be taken by the
next device before anybody has noticed; packets have status bytes that must not
reach the reader, and reads end anywhere within one.

* transfers: one answer for each accepted submission, with a reason; no deadline
  passed over; an answered transfer is its user's;
* backend: URBs outlive the kernel's use of them; data in order; the promise
  that `io.c` relies on;
* events: no wake-up lost, no poll that waits for a closed descriptor, no caller
  stuck;
* devices: exact reference counts, one device per session, a list that follows
  the bus, callbacks that miss no device of it, nothing leaked;
* libftdi: bytes once and in order both ways, none from before an open, at the
  speed that was accepted.

PROJECT.json lists 38 hazards at their lines, with the properties about each.

## Modules

| Module | Models | Extends / instantiates |
|---|---|---|
| `D2xx` | the D2XX library and the bus, as the program relies on them | |
| `DmxPort` | abstract: what `dm2xx` promises about its port | |
| `Dm2xx` | the worker and the public methods, interleaved at each access of shared memory | `D2xx`; instance of `DmxPort` |
| `Dmx485` | the handlers of the Max object, the life of the objects | `Dm2xx` |
| `Startup` | `main`, `instance()` and the worker's first turns | `Dmx485` |
| `DmxFrame` | `set_channel`, `list`, `frame`, and `timer_action` byte by byte | `Dm2xx` |
| `UsbRequest` | abstract: what libusb promises about a transfer | |
| `UsbTransfer` | the transfers of one device in `io.c` | instance of `UsbRequest` |
| `UsbBackend` | abstract: what `io.c` needs of a backend | |
| `Usbfs` | one transfer in the Linux backend | instance of `UsbBackend` |
| `UsbEvents` | event handling, waiting, synchronous calls, closing | |
| `UsbDevices` | devices, references, hotplug | |
| `BaudRate` | the divisor arithmetic of libftdi and the chip's reading of it | |
| `Ftdi` | a `ftdi_context` | `BaudRate` |
| `Dm2xxProofs`, `DmxFrameProofs`, `UsbTransferProofs`, `UsbfsProofs`, `UsbEventsProofs`, `UsbDevicesProofs`, `FtdiProofs` | theorems | the module they are about, `TLAPS` |
| `MaxProofs` | theorems about `Dmx485` and `Startup` | `Startup`, `Dm2xxProofs` |
| `MC...` | values and symmetry for TLC | the module they check |

How they compose. `Startup` refines `Dmx485`, whose handlers do the actions of
`Dm2xx`'s callers; `DmxFrame` refines `Dm2xx`, which refines `DmxPort`. `UsbTransfer` has a backend with four states
per transfer (`urb`: none, queued, done, discarded); `UsbBackend` is that
backend as a specification of its own, and `Usbfs` is shown to implement it.
`UsbEvents` takes from `UsbTransfer` that every transfer ends; `Ftdi` takes from
libusb that a transfer ends once, with what the device sent. The external is not
linked to these libraries (its `CMakeLists.txt` has them commented out and uses
the binary D2XX instead), so that nothing composes the two halves.

## State and code: the external

`D2xx.bus` is what `FT_ListDevices` counts, in its order. `ports` is the
library's handle table: `Closed`, the device a handle is open on, or `Gone` when
that device was pulled out. One device is opened once at a time. A call can
fail without a visible reason `MaxFaults` times. An `FT_Close` that fails may or
may not have closed the handle.

`Dm2xx` has one variable per shared member, `pc` for the worker's place in
`thread()` (202-241), and `calling` for a caller between the two halves of
`enable()` (343-345). The tests of `threadAction` (206, 213, 220) are `Test`; the
stores of 0 are `Clear`; the store of 1 at the end of a restart (231) is `Rearm`.
`connect()` (54-173) is `CountDevices`, `OpenPort`, `Configure` (three groups of
settings whose last status is tested), `Publish`, `StartTimer`; `disconnect()`
(175-198) is `ClosePort`, which also clears `threadOn`, and `ForgetPort`. The
branch at 151-156 cannot be reached: its test repeats that of 63 and only the
worker sets the pointer. A handle that an early return loses is visible: `ports`
keeps it open while neither pointer holds it.

How fine the steps are. The build has no optimisation flags
(`build/CMakeFiles/dmx485.dir/flags.make`), so that each access in the source is
an access of memory; on x86 each is atomic. Formally the unlocked accesses are
data races; the outcomes this build can produce are the interleavings of the
model. A store delayed in a store buffer is a later step of the same thread: no
thread of this program stores one of these members and then reads another to
decide something, except the worker, for which a later `Clear` or `Rearm` is one
more interleaving of the callers. Accesses of members that only one thread uses
(`threadOn`, `ftdiPortStatus`) are merged with the step next to them.
`dmxPointer`, which `enable()` reads, is always stored in a step of its own or
in one that ends in a private step. The object is a function-local static, so
what the constructor does not set is zero: no action, false, `FT_OK`.

`Dmx485` gives each handler an action that contains the `Dm2xx` action it
calls. `dmx_select_device` checks the index against the devices attached now and
stores it later (`StoreSelection`). `asked` is a history variable: whether the
last message wanted the link up (`new`, `connect`, `refresh`) or down (`free`,
`disconnect`). `Patient = TRUE` restricts the user to sending a message when the
worker is at rest.

`Startup` has one step per store of `main()`. The worker may take its first step
as soon as the constructor has made it (49); before `dm2xx_obj` is stored (294)
that step goes through a null pointer and ends the process (`WorkerFaults`).

`DmxFrame` opens up the step `Timer`. `set_channel` narrows the channel to an
unsigned int (`% UIntMod`) and the level to a byte (`% ByteMod`), and for the index
just past `dmx_data` writes `deviceNumber`, the next member of the class
(`src/src/dmxObject.h:57-59`; both are bytes, so that there is no padding). A
write takes one byte per step from `WriteAddress`, which is what
`&dmx_data + (s2_init - s2)` means in C++: whole arrays, not bytes. `wire` and
`since` are history: what the frame has put on the line, and the levels each
channel has had since the frame began. `Foreign` is a byte of memory that is not
modelled.

## State and code: the libraries

`UsbTransfer` (`src/libusb/libusb/io.c`). `flying`, `timeout`, `state_flags` and
`timeout_flags` are the code's; `timer` is the deadline `timerfd` is armed for.
`libusb_submit_transfer()` is up to four steps: on the list (`Submit`), the
backend's answer (`BackendAccepts`, `BackendFails`), and the flag or the removal
(`Submitted`, `SubmitFailed`), because the list's lock is released in between and
the transfer's is not. `handle_timeouts()` is `ScanStarts` or `TimerFires`, then
`ScanCancels` and `ScanMarks` for each expired transfer (its cancellation may
succeed before it is marked `TIMED_OUT`, and the reaping thread must not read
the mark in between), then `ScanEnds`, all under the list's lock (`scan`). The
event thread's place is `handler`: a reaped request goes through `Cancellation`
if it was taken back, `CompletionRemoves`, `CompletionClears`, `Callback`.
`usbi_handle_disconnect()` is `Detach`, `DisconnectOne` for the first transfer in
flight, the same completion, and back to the list. `pending` and `cancelled` are
history: what the user has had accepted.

`Usbfs` (`src/libusb/libusb/os/linux_usbfs.c`). One transfer; a unit of length is
8 KB, so that two make an URB. How it is split depends on the kernel's
capabilities (`caps`). Every ioctl is a step: `SubmitUrb`, `DiscardUrb` (from the
last URB to the first), `Reap`; the kernel receives and ends URBs in between,
also while the transfer's lock is held. `BulkAbnormal`, `BulkNormal`, `Control`
and `Iso` are the branches of the three completion handlers; `Complete` frees the
URBs and answers. Short continuations, stalls, overflows and low-level errors
are endings of an URB.

`UsbEvents` (`io.c`, `core.c`, `sync.c`). One device per thread; `pc` walks a
thread through `libusb_open`, a synchronous transfer's loop,
`libusb_handle_events_timeout_completed()`, `handle_events()` and
`libusb_close()`. Locks are owner variables; the condition variable is the set
`asleep`. `event_pipe` counts bytes, `fds` is the list of poll descriptors and
`polled` the array that `poll()` was last given. `pulled` and `attached` are what
is pulled out and what libusb takes for plugged in. `revents` and `errors` are
what the poll returned and which of it with POLLERR; a handler that has had a
hotplug message polls the same array once more without blocking (`redo`, 2263-2267).
`Reap` does one descriptor: it looks up the handle, which a callback may have
closed meanwhile; on POLLERR it takes the descriptor out of the list, detaches
the device if the monitor has not done so, which puts a message, and ends its
transfer (`Disconnected`, `os/linux_usbfs.c` 2626-2649); else it reaps (`Reaped`).
`HotplugCallback` may close a device that has left, as the example in
`hotplug.c` (115-119) does, without `events_lock`. Waits have no time limit here
(60 s in the code), so that a lost wake-up is not hidden by one.

`UsbDevices` (`core.c`, `hotplug.c`, `os/linux_netlink.c`, `os/linux_usbfs.c`).
`bus` is what is plugged in, `netlink` the socket's queue, `usb_devs`, `refcnt`,
`attached` and `session` the device structures. What is done under
`linux_hotplug_lock` is a sequence of steps (`work`): find by session, detach,
take off the list, put a message, unreference. The monitor thread, the initial
scan, a poll for changes by `libusb_get_device_list()`, an open that fails with
ENODEV, and the event handler's POLLERR all run such a sequence. Users hold
devices in lists and in handles, and register callbacks in their own thread,
while another handles messages. `Exit` gives up the list's references and those of
all messages: `libusb_exit()` calls `handle_events()` once (`core.c` 2213-2214), which
takes a message and polls again as long as the pipe has its byte (`io.c` 2195,
2263-2267).

`BaudRate` and `Ftdi` (`src/libftdi/src/ftdi.c`). `BaudRate` has the conversions as
operators, with the divisor tables turned into sets, and, to compare with, what
the chip makes of the two words it is sent. `Ftdi` has the context's fields,
`reading` for the one read call under way (its transfer included) and `writing`
for the write calls. Packets are built with their status bytes (0) and taken
apart with the code's arithmetic (`Stripped`, `Moved`), so that a wrong offset
shows as a missing, doubled or status byte. `sent`, `taken`, `lost` and `wire` are
history. Users read with one call at a time and change the read chunk size or
close only with nothing under way: the buffer cannot serve more (see below).

An open (`ftdi_usb_open_dev()`, 519-619) ends in one of four ways. `libusb_open()`
fails and nothing has changed (`NotOpened`). A descriptor or the configuration
cannot be read (531, 534, 551): the error is returned with `usb_dev` set and with
the buffer, the type and the speed of whatever was open before (`HalfOpened`). A later
step fails and closes the device again (`OpenedInVain`). Or the reset empties the
buffer and the type and 9600 baud follow, the last of which may fail and close
(`WasReset`). `opened` and `since` are history: the last open has returned 0 and
nobody has closed; and how much the chip had sent by then. What the properties
say of a device that is ready for use they say of `opened`; what is true also of
a half-opened context (bytes in order, no status byte) they say without it.
Read chunks may be no multiple of the packet: then the next packet may not fit,
and the synchronous read returns the error (`ReadOverflows`).

## What the runs show

| Run | Bounds | Shows |
|---|---|---|
| `Dm2xx_live` | 1 device, 2 handles, 2 callers, 1 fault, hotplug | `Dm2xx` implements `DmxPort` (`PortSpec`); `CommandIsServed`; `StopSilencesLine` |
| `Startup_safety` | 2 devices, 2 handles, 2 callers, 1 object, 1 fault, hotplug, symmetry | `StartIsSound`, `TransmitsOnOpenPort`, `LostOnlyByConnect`; the start implements the objects (`ObjectsSpec`) |
| `Dmx485_settled` | 2 devices, 2 handles, 2 callers, 2 objects, no fault, no hotplug, the user waits | `SettledAsAsked` and `LinkFollowsUser`: the link becomes and is what the last message wanted |
| `DmxFrame` | 1 device, 1 handle, 1 caller, 2 slots, one-bit levels, channels of 3 bits, frames of up to 4 levels, hotplug, short writes | `FrameIsCurrent`, `FrameIsWhole`, `FrameEnds`, `LinkSpec` |
| `UsbTransfer` | 2 transfers (one with a timeout of 1, one with 0 or 2), 3 ticks, 3 submissions, with and without `timerfd` | `TimerCovers`, `FreeWhenAnswered`, `AnswerComes`, types; the promise `RequestSpec` |
| `Usbfs` | lengths of 0, 2, 5 units (1 to 3 URBs), 5 kinds of kernel, bulk, control, iso | `UrbsOutliveKernel`, `DataInOrder`, `AnswerFollows`, types; the promise `BackendSpec` |
| `UsbEvents` | 3 threads: two make transfers, one of them on a device that may be pulled out, one closes; 1 close, message about another device, interruption or signal | `PipeTellsPending`, `PollsOpenDevices`, `SleepersAreWoken`, `SyncReturns`, `CloseHappens`, types |
| `UsbDevices` | 1 session, 1 user, 1 callback, 2 structures, 1 plug after the start | `OnePerSession`, `RefsExact`, `ListMatchesBus`, `CallbacksMissNothing`, `LeftAreFreed` |
| `Ftdi` | packets of 4 bytes, read chunks of 6 and 8, write chunks of 2, 5 bytes from the chip, 1 writer, 3 opens, 3 chip types, 34 rates, 1 fault | `ReadsInOrder`, `WritesInOrder`, `RateIsKept`, types and buffer bounds |

Three runs end in a counterexample, each for one statement that the code's own
messages or comments make and the code does not keep:

| Run | Statement | What happens |
|---|---|---|
| `Dmx485_stop` | "stopping..." (`src/src/dmxObjectD2xx.cpp:354`) | a stop that arrives between test and clear, or during a restart, is overwritten; frames go on for good |
| `UsbTransfer_stale` | "A value of 0 indicates no timeout" (`src/libusb/libusb/libusb.h:1223`) | a transfer submitted again with timeout 0 keeps its old deadline and times out |
| `Usbfs_stall` | "cancel remaining urbs and wait for their completion before reporting results" (`src/libusb/libusb/os/linux_usbfs.c:2356`) | after a stall on the first of three URBs the last comes back first and is taken for the end: the URBs are freed while the second is still to be reaped |

Why the bounds are enough.

* External: two callers are what the mailbox's races need, one command to be
  overwritten and one to overwrite it; a caller outside `enable()` keeps no
  state. Two handles let one be lost while the other is used, and two devices
  let the second be opened meanwhile. One fault gives a failed setup, close or
  count, and with it the stale status. Two slots tell the first, the last, the
  byte past the array and what lies behind; one-bit levels tell old from new;
  the channels sent include one below zero, one past the array and one past each
  width.
* `UsbTransfer`: two transfers make every order in the list (earlier, later,
  without a deadline), the head's removal re-arming the timer for the other, and
  a cancellation of one while the other is handled; three submissions let one be
  submitted again from its callback; three ticks let each deadline pass before,
  during and after the other.
* `Usbfs`: three URBs have a first, a middle and a last, which is what the code
  distinguishes; a length of 0 and one of a single URB are the boundaries. The
  passing run leaves out a stall on the first URB (`Usbfs_stall`) and an unplug
  during the discards of a cancellation, whose result is then that of the last
  ioctl.
* `UsbEvents`: a handler, a sleeper and a closer can meet; a second sleeper does
  what the first does. A device that is pulled out brings a message of its
  own, from the monitor or from the handler; the one counted event is then a
  second thing that is pending beside it, or a close that meets it.
* `UsbDevices`: one session used twice is the case in which a new device takes
  the old one's place. Larger instances (two sessions,
  without the liveness property; two plugs) were run once and hold too (10.3 million
  and 763,000 states); they take too long to keep.
* `Ftdi`: read sizes below, at and above a packet's payload, chunks of two
  packets and of one and a half; three opens let one succeed, one fail with
  what the first left behind, and one succeed after that; rates on both sides of
  each limit of the three conversions. Speeds are changed only where nothing is
  moved, and data is moved at the speed of the open and with one chip type
  (`AsOpened`, `NothingMoved`): the two halves share no state but `usb_dev`.
  Asynchronous reads have chunks of whole packets: `io.c` promises nothing of the
  data of a transfer that overflowed, and the callback does not look at the
  status (1392-1402), so that there is nothing to check.

Deadlock is checked except in `Startup_safety` (the process may crash),
`UsbTransfer_stale` (bounded submissions run out), `UsbDevices` (the context
ends with `libusb_exit()`) and `Ftdi` (the bounds run out).

Fairness. The worker is a `while (true)` that sleeps 10 ms per turn, and the
library's calls have timeouts of 1000 ms (120): weak fairness is what the
scheduler gives it. A caller inside `enable()` or `dmx_select_device()` comes
out. Nobody has to call, plug or unplug. `StopSilencesLine` needs callers that
stop alternating `disable` and `refresh`: each turn looks for the two at different
moments, and callers in step with the loop could slip past both for ever. In
libusb every thread that is inside of a call goes on, and gets a lock that stays
free; the event loop runs (a program that uses asynchronous transfers must run
it). Where there is no `timerfd` a waiter's poll ends at the next deadline. Devices owe
no answer: `AnswerComes` is about transfers that were cancelled, are late or lost
their device. `UsbEvents` takes that every transfer ends, which its timeout sees
to. `UsbDevices` needs strong fairness in one place: the event handler that has
seen a POLLERR must get `linux_hotplug_lock` between the monitor's turns.

Each property of a passing run has a mutant, a variant of one definition with a
plausible bug (an omitted clear, a test left out, an index off by one), kept
beside the definition and marked; TLC finds the property violated when the
variant takes its place.

## What is proved

TLAPS checks these for any values of the constants that satisfy the named
`ASSUME`s:

| Module | Theorems |
|---|---|
| `Dm2xxProofs` | `TypeCorrect`, `TransmitsCorrect`, `DanglesCorrect`, `HandleChangesCorrect`, `LostOnlyByConnectCorrect`; `PortRefinement`: `Spec => PortSpec` |
| `MaxProofs` | objects: `MaxTypeCorrect`, `SettledCorrect` (for a `Sound` user). Start: `StartTypeCorrect`, `StartSoundCorrect`; `StartRefinement`: `StartSpec => MaxSpec` |
| `DmxFrameProofs` | `FrameTypeCorrect`, `FrameIsCurrentCorrect`, `FrameIsWholeCorrect`; `FrameRefinement`: `FrameSpec => Spec` |
| `UsbTransferProofs` | `TransferTypeCorrect`, `TimerCoversCorrect`, `FreeWhenAnsweredCorrect`; `RequestCorrect`: `TransferSpec => RequestSpec` |
| `UsbfsProofs` | `UsbfsTypeCorrect`, `UrbsOutliveKernelCorrect`, `DataInOrderCorrect`; `BackendCorrect`: `UsbfsSpec => BackendSpec`; all four for an `Orderly` device |
| `UsbEventsProofs` | `EventsTypeCorrect`, `PipeCorrect`, `PollsCorrect`, `SleepersCorrect` |
| `UsbDevicesProofs` | `DevicesTypeCorrect`, `OnePerSessionCorrect`, `RefsExactCorrect`, `ListMatchesBusCorrect`, `CallbacksMissNothingCorrect` |
| `FtdiProofs` | `FtdiTypeCorrect`, `WritesInOrderCorrect`, `ReadsInOrderCorrect`, `RateIsKeptCorrect` |

The assumptions: finite sets of devices, threads, sessions and users where the
code counts them; nulls and names that are not members of those sets; device
index 0 exists and indices are bytes; the levels are among the values a device
index can have; widths, fuse and chunk sizes are positive and packets longer
than their status bytes; rates are integers; as many device structures as plugs
can need. Some theorems have a hypothesis of their own, because the code does not
promise more: `Orderly` (all theorems of `UsbfsProofs`) and `Sound` (`SettledCorrect`), which
the sections below explain. The constants of the passing runs satisfy them.

*The link.* One inductive invariant, `LinkInv`. That frames go to open ports only
is not inductive: `StartTimer` turns `threadOn` on without looking at the port.
`PointerInv` adds what the worker knows at each place: no port is published while
it connects; the local handle is open while it is held; a port about to be
started is open; a port about to be forgotten is closed. With it each step maps
to a step of `DmxPort` or to none: `OpenPort` to `Open`, `Publish` and `StartTimer`
to `Start`, `ClosePort` to `Close` or `Stop`, giving up to `Stop`. Every handler of
`Dmx485` does an action of `Dm2xx`'s callers, so that a lemma carries this to the
objects; the refinements of `Startup` and `DmxFrame` carry it to the start and the
frames.

*A user who waits.* `SettledAsAsked` says that the link is up or down as the last
message wanted, whenever the worker is at rest. That it is so for every user is
false (`Dmx485_stop`), hence `Sound`: the user sends a message when the last one has
been served (`Patient`), no call fails, devices stay, and the library has a
handle to give. `MailStage` says where the worker can be as long as a command is
in the mailbox, and `WorkerStage` what each place of the worker has made of the
ports so far: nothing open (`Down`), exactly the port that is published (`Up`), or
exactly the one that is being set up. Each message starts from `Down` or `Up`,
and each way through the loop ends in one of them again.

*Frames.* `SendInv`: until a write falls short, one write on a port that is alive
is to take all slots, the line has the start code and as many slots as were
copied, and every level stored since the frame began is in `since`; once the port
is gone it stays gone until the worker leaves the frame, and the line gets
nothing more.

*Transfers.* `TransferInv` has six parts beside the types. `ListInv`: the list has no
transfer twice and is sorted by deadline. `LifeInv`: at each stage of its
life (being submitted, accepted, at rest, in flight, completing) what holds of
a transfer's flags, its place in the list, its request and its membership in
`pending`. `HandlerInv`: what the event thread's place implies. `TimeInv`: without a
timeout there is no deadline (users here keep to one timeout: `TransferSpec` is without
`SetTimeout`, since `UsbTransfer_stale` shows that a changed one breaks it).
`CauseInv`: who took a request back, and why a status is what it is; in
particular a transfer that is cancelled but not yet marked is held by the scan,
whose lock `Cancellation` waits for. `TimerInv`: the timer covers the list, except
while its own expiry is being handled. `TimerCovers` alone is not inductive: that
the head's successor is the next deadline needs the order of the list.
The refinement maps `BackendAccepts` to `Submit`, a cancellation that succeeds to
`Cancel`, `CompletionClears` (when the callback is next) to `Answer`, `Callback` to
`Returned`, the clock's `Tick` to `Pass` and `Unplug` to itself; everything else
stutters. That a `TIMED_OUT` is late and a `CANCELLED` was asked for is `CauseInv`.

*The backend.* `ControlInv` is about URBs and leaves their data out. The open ones
are those given back, in the order of reaping, and then the kernel's queue;
retired and open together are the submitted ones (`CountInv`); the queue is a run
of consecutive URBs that a discard shortens from its end (`QueueInv`); and unless
somebody has begun to take URBs back, the open ones follow the retired ones in
order (`OrderInv`). `OpInv`, `LifeInv`, `StatusInv` and `BoundInv` tie the place of
an operation, the life of the URBs, the endings and the counters to each other.
`UrbsOutliveKernel` follows from the count: an answer is given when all that was
submitted is retired, thus nothing is open.
The data needs more: `DataInv` has, for every number of the open URBs, how many
units the user's buffer and these URBs hold, and says that they hold consecutive
units; `FreshInv` that URBs the kernel has not reached are empty, and that the
device has not sent more than what comes before them; `FullInv` that in a normal
transfer every retired URB was full unless the device gives nothing any more
(`Dry`). `Orderly` leaves out the two cases in which the code does not keep its
promise: a stall with more than one URB to take back, on a kernel that does not
take continuations back itself (`Usbfs_stall`), and a device that is pulled out
between two discards of one cancellation (the result is then that of the last
ioctl). Even the type invariant needs it: with the constants of `Usbfs_stall` and
any number of submissions TLC finds `num_retired` at 4 of 3 URBs, because the one that
an early answer left with the kernel comes back into the next submission and is
counted there.

*Events.* `EventsInv`: who holds which lock is a function of the threads' places
(`LockInv`), `device_close` counts the threads that are closing (`CloseInv`), the
byte in the pipe stands for something pending that only the holder of
`events_lock` takes away (`PipeInv`), `polled` is `fds` unless the modification is on
record, every descriptor in `fds` is open, and a handler whose array may have a
closed one is going to poll again (`PollInv`), and whoever sleeps *or is about to*
has a thread on its way to a broadcast (`SleepInv`): without the second half a
handler could leave between the test and the sleep.

*Devices.* `TypeInv` adds to the types that work is done exactly as long as the lock
is held; `SessionInv` adds that the device being taken off the list is
detached already and that scanning happens before the context is ready.
`RefsExact` is not inductive in three ways. What a user does says what it holds
(`UserInv`): it takes a list when it has none, opens what is in its list, and has no
handle until then. Work is on a device of the list until it takes it off
(`PlaceInv`). And that a message that tells of an arrival has a live device needs an
order (`QueueInv`): until the device is taken off the list, the list has a
reference; when it is, the work has it; and then a `LEFT` message that comes *later*
in the queue. The count itself (`CountInv`) adds that a structure that was not
allocated has no references, so that a new one starts at one. Each action then
moves one reference or one membership: `Balanced` is the sum, the lemmas
`CountFound` to `CountClosed` the actions.
That the list matches the bus is made local to a session: the last unread message
of the kernel about it says whether it is plugged in (`NewsInv`), and a session
without an unread message is in step with the list, or the work that is being done
puts it there (`BusInv`). A user whose call failed
with ENODEV, and the event handler after a POLLERR, remove a device without a
message; `SuspectInv` says that they are right.
A callback misses nothing (`KnowInv`) in this sense: of each listed device it has
been told, or is being told by its registration, or has a message of its arrival
before it, whatever the threads that register and that handle.

*Writes.* `WriteInv` ties each call's offset, the piece in flight and the bytes on
the wire together.

*Reads.* `ReadInv` says that the caller's buffer and what is kept are each a run of
consecutive bytes of the chip, that an ended transfer holds the bytes after them
in packets (`Arrival`), and that every byte after the last one returned is with the
caller, kept, on its way or told as lost (`Covers`). Under it lies the arithmetic of
the code's stripping of status bytes: with packets and chunks of any size,
`Received` is the payload in order (`AnswerIs`), and what `Moved` leaves behind the
part that was copied is the rest of it (`KeepRestIs`). A transfer that overflowed
gives nothing (`OverflowsKeeps`). What is kept while the device is closed is told as
lost, and is taken back from `lost` when a half-opened context makes it readable
again (`CoversOpen`); that nothing from before a successful open is read is `OpenInv`:
since the reset, all up to `since` is returned or lost.
*Types* adds that nothing in the buffer was sent later than `sent` says (`BufferInv`)
and that the two words of a rate fit 16 bits for any rate.

*Rates.* `RateIsKept` is inductive; what it takes is the arithmetic of the divisors
for every integer rate, every chip and both clocks. `EncodedReads`: a divisor of 2
or more, in eighths, is read back from its code as it was written. `SlowDivisor`
and `NoSuchDivisor`: below half of the clock the divisor is at least 2, and no rate
asks for the divisor 2^14 (2^17 eighths), which the code's `> 0x20000` would let through and the
coding could not express (a property of the numbers: 262143 and 262144 are no
quotients of either clock). `HalvedNear` and `MiddleNear`: the two roundings are at
most one away from the chip's own division. `ChipReads`: the chip takes the words
apart as they were put together, for the two forms of the request and the AM's 16
bits. With `Tolerated`, that is a twentieth and one unit (`ToleratedKeeps`). An open
sets its speed without a way back for the caller, so that its 9600 (38400 with
bitbang) has to be exact (`OpensExact`). A half-opened context has no such speed; the
property is about opened ones.

Only model-checked: the liveness properties (`CommandIsServed`, `StopSilencesLine`,
`LinkFollowsUser`, `FrameEnds`, `AnswerComes`, `AnswerFollows`, `SyncReturns`,
`CloseHappens`, `LeftAreFreed`), since fairness is beyond the prover here, and the
three counterexamples. Every invariant that a passing run checks is proved.

## What the code does that a reader may not expect

Met while modelling, from reading the code, without a run of their own.

DMX485:

* the status tested after `FT_Open` is an old one (95): a device that was opened
  can be reported as not opened, and is lost; an open that failed can go unnoticed;
* a second connect while the first is through takes the else branch (159) and
  drops the open port ("no USB device found"); after a failed setup (103-131) the
  device stays open in a lost handle, and no refresh helps. `LostOnlyByConnect`
  says that these are the only places;
* `print` inserts every name at position 1 of the menu (`src/src/dmx485.cpp:107`),
  so that the menu is the first device and then the others in reverse, while the
  help patch sends the menu's index as the device's (`device $1`,
  `src/help/dmx485.maxhelp:228`): with three devices the second and the third entry select
  each other's device;
* `autoConnect` is stored and announced (`src/src/dmx485.cpp:145`), and read nowhere (376);
* channel 512 is `deviceNumber` (369); after a short write the next one starts
  whole arrays further on (272), and what is sent is memory behind `dmx_data`;
* the first turn of the worker may come before `dm2xx_obj` is set (49).

libftdi (`ftdi.c`, `ftdi_stream.c`):

* "returns nearest supported baud rate" (1155) is not so between 2 and 3 Mbaud
  (and between 8 and 12 on H types), nor on an AM for divisors between 1 and 2: 2.9 M
  gives 2 M and is then refused; a rate above 214,748,364 overflows in
  `baudrate * 10`;
* the read callback submits again whatever the status was (1392-1471): a read
  that `ftdi_transfer_data_done()` cancels (1657-1676) does not complete, and a
  second failure of the event handling frees a transfer in flight;
* a read that fails loses what it had received, a submission that fails loses
  what was kept (1612-1640); asynchronous reads share one buffer, which
  `ftdi_read_data_set_chunksize()` reallocates under a read in flight;
* the stream reader frees transfers that are in flight, hands on only the last
  packet's result, and an inner `err` shadows the outer (`ftdi_stream.c` 239,
  286-293);
* an open that fails at 531, 534 or 551 leaves `usb_dev` set: a read then gives
  what was kept from the session before, `ftdi_set_baudrate()` uses the old chip type,
  another open loses the handle, and before the first successful open
  `max_packet_size` is 0, with which a synchronous read returns an error and the
  callback of an asynchronous one divides by it (1402). `bitbang_enabled` survives a
  reopen;
* EEPROM: the strings of a 232H start at 0x9c where the comment says 0xa0, so
  that bytes 0x1c and 0x1e of a 128-byte EEPROM go into the manufacturer's name; decoding
  gives flags as masks and the power in units of 2 mA where building tests for 1
  and halves, so that reading and writing back loses flags and power; `set_ft232h_cbus`'s
  mode_high uses the wrong index; `ftdi_eeprom_initdefaults()` clears the
  detected chip; decoding a blank EEPROM (size -1) reads outside of the buffer.

libusb:

* `libusb_close()` in a transfer's callback deadlocks on `open_devs_lock`, which
  `op_handle_events()` holds (`core.c` 1413-1421 provides for the call); in a
  hotplug callback it leaves a closed descriptor in the array that is polled once
  more, without blocking (`PollsOpenDevices` allows exactly this);
* results of isochronous URBs that were discarded are stored in the order of
  reaping; a partial submission that fails with ENODEV answers ERROR;
* a callback may be freed by the event handler while
  `libusb_hotplug_register_callback()` still enumerates for it, and may hear of an
  arrival after the departure (`hotplug.c` 297-305), of which `libusb.h` (1957-1965)
  warns only in part: `CallbacksMissNothing` claims neither;
* the list's reference of a device that leaves before `usbi_io_init()` is lost
  (`core.c` 738); `leaked` keeps these devices apart in `RefsExact`;
* a poll for changes by `libusb_get_device_list()` stops at the first message of
  the socket that is not about a device.

## Not modelled

* External: the menu that `print` fills, an object of Max; the wording of messages; the second `FT_ListDevices` (72), which has
  no effect the program uses; the break and the purge around a frame; `version`.
  A list message of fewer than two atoms reads an atom that is not there; the
  model's messages have any level, which covers what can be read. `FT_Write` is
  taken to store the number of bytes it wrote also when it fails.
* libusb's backends for Windows, Darwin, Haiku, NetBSD, OpenBSD, SunOS and
  Windows CE, about a third of the repository's implementation lines: each
  stands on a framework (WinUSB, IOKit, device nodes) whose sources are not
  here. What `io.c` needs of them is `UsbBackend`.
* libusb's descriptors and strings: a parser of one buffer into a tree, without
  state and without concurrency.
* libftdi's EEPROM images (see above): tables of byte offsets for seven chips;
  a model would be the tables again. Its line, flow, latency and event
  settings send one request each and keep no state. Cancelling an asynchronous
  read has no end that could be modelled (see above).
* In the modelled libraries: hubs (`parent_dev`), failures inside of
  `libusb_init()`, an overflow of the netlink socket, the udev monitor (the same
  calls as the netlink one), a user's own event loop (pollfd notifiers), event
  handling inside of callbacks, lengths and errors of isochronous packets, bulk
  streams (the bulk code).
* Examples, tests, build files, the help patch (read as documentation).

How much of the code that is. The map names the lines of every definition. It
covers some 4,000 lines, nearly all of the external and the parts of the
libraries where threads, devices and the kernel meet, which is about 9% of all
implementation lines: the rest is, in this order, other systems' backends, comments
that are the manual (`libusb.h`, and half of `core.c` and `io.c`), EEPROM
tables, descriptors, and vendored headers.

## What could come next

A backend in `UsbTransfer` that is `Usbfs` itself, for two transfers; the stream
reader with a corrected cleanup.
