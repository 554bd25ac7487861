-------------------------------- MODULE Dm2xx -------------------------------
(***************************************************************************)
(* class dm2xx (src/dmxObjectD2xx.cpp): one worker thread owns the USB     *)
(* port; the threads of Max command it through threadAction, a one-place   *)
(* mailbox that nobody locks.  Every step reads or writes shared memory at *)
(* most once, so that the threads interleave as they do in the program.    *)
(* The frame timer_action() sends is one step here; DmxFrame opens it up.  *)
(***************************************************************************)
EXTENDS D2xx, Integers

CONSTANTS
  Callers,       (* the threads of Max that call the public methods        *)
  DeviceNumbers  (* the values deviceNumber, an unsigned char, is given    *)

ASSUME Dm2xxAssumption == 0 \in DeviceNumbers /\ DeviceNumbers \subseteq 0..255

VARIABLES
  threadAction,    (* the mailbox: NoAction, Connect, Disconnect, Restart  *)
  deviceNumber,    (* the index of the device the next connect() opens     *)
  dmxPointer,      (* the open handle, which enable() reads too            *)
  threadOn,        (* the worker sends a frame in each turn of its loop    *)
  ftdiPortStatus,  (* a member: it keeps its value from call to call       *)
  tdmxPointer,     (* local of connect(): the handle FT_Open returned      *)
  pc,              (* where the worker is                                  *)
  calling          (* where each caller is                                 *)

linkVars == <<dmxPointer, threadOn, ftdiPortStatus, tdmxPointer>>
mailVars == <<threadAction, deviceNumber, calling>>
vars == <<d2xxVars, linkVars, mailVars, pc>>

NoAction == 0
Connect == 1
Disconnect == 2
Restart == 3

Connecting == {"open", "bitMode", "baudRate", "latency", "publish"}
Labels == {"test1", "clear1", "count", "startTimer", "test2", "clear2", "stop",
           "stopped", "test3", "restart", "restarted", "clear3", "rearm", "timer"}
          \cup Connecting

TypeOK ==
  /\ D2xxTypeOK
  /\ threadAction \in {NoAction, Connect, Disconnect, Restart}
  /\ deviceNumber \in DeviceNumbers
  /\ dmxPointer \in Handles \cup {NULL}
  /\ threadOn \in BOOLEAN
  /\ ftdiPortStatus \in {FT_OK, FT_ERROR}
  /\ tdmxPointer \in Handles \cup {NULL}
  /\ pc \in Labels
  /\ calling \in [Callers -> {"idle", "enabling"}]

(* The object is a function-local static: what the constructor does not    *)
(* set starts as zero, which is FT_OK, false and no action.                *)
Init ==
  /\ D2xxInit
  /\ threadAction = NoAction
  /\ deviceNumber = 0
  /\ dmxPointer = NULL
  /\ threadOn = FALSE
  /\ ftdiPortStatus = FT_OK
  /\ tdmxPointer = NULL
  /\ pc = "test1"
  /\ calling = [c \in Callers |-> "idle"]

-----------------------------------------------------------------------------
(* thread(): each turn of the loop tests threadAction three times.         *)

Test(from, action, taken, next) ==
  /\ pc = from
  /\ pc' = IF threadAction = action THEN taken ELSE next
  /\ UNCHANGED <<d2xxVars, mailVars, linkVars>>

Clear(from, next) ==
  /\ pc = from
  /\ threadAction' = NoAction
  /\ pc' = next
  /\ UNCHANGED <<d2xxVars, deviceNumber, calling, linkVars>>

Dispatch ==
  \/ Test("test1", Connect, "clear1", "test2")
  \/ Clear("clear1", "count")
  \/ Test("test2", Disconnect, "clear2", "test3")
  \/ Clear("clear2", "stop")
  \/ Test("test3", Restart, "restart", "timer")
  \/ Clear("clear3", "rearm")

(* Mutant of Rearm: the restart forgets to connect again.                  *)
RearmNothing ==
  /\ pc = "rearm"
  /\ pc' = "timer"
  /\ UNCHANGED <<d2xxVars, mailVars, linkVars>>

(* The end of a restart: the worker sends itself a Connect.                *)
Rearm ==
  /\ pc = "rearm"
  /\ threadAction' = Connect
  /\ pc' = "timer"
  /\ UNCHANGED <<d2xxVars, deviceNumber, calling, linkVars>>

(* timer_action() writes to dmxPointer if it is not null; no result of its *)
(* calls is kept.                                                          *)
Transmitting == threadOn /\ dmxPointer # NULL

Timer ==
  /\ pc = "timer"
  /\ pc' = "test1"
  /\ UNCHANGED <<d2xxVars, mailVars, linkVars>>

-----------------------------------------------------------------------------
(* connect()                                                               *)

(* getDeviceCount() returns -1 when it fails.  connect() keeps that in a   *)
(* DWORD, where it is 2^32 - 1: its numDevs > 0 is "not zero".             *)
GetDeviceCount(n) ==
  \E s \in {FT_OK, FT_ERROR}, m \in 0..Len(bus) :
    /\ FT_ListDevices(s, m)
    /\ n = IF s = FT_OK THEN m ELSE -1

(* connect() gives up: the null pointer it stores is also a handle lost    *)
(* when one was open, and so is tdmxPointer, which goes out of scope.      *)
GiveUp ==
  /\ dmxPointer' = NULL
  /\ tdmxPointer' = NULL
  /\ pc' = "test2"

(* Mutant of CountDevices: a port that is already open is not looked at.   *)
CountDevicesOnly ==
  /\ pc = "count"
  /\ \E n \in -1..Len(bus) :
       /\ GetDeviceCount(n)
       /\ IF n # 0
          THEN pc' = "open" /\ UNCHANGED <<dmxPointer, tdmxPointer>>
          ELSE GiveUp
  /\ UNCHANGED <<bus, ports, mailVars, threadOn, ftdiPortStatus>>

CountDevices ==
  /\ pc = "count"
  /\ \E n \in -1..Len(bus) :
       /\ GetDeviceCount(n)
       /\ IF n # 0 /\ dmxPointer = NULL
          THEN pc' = "open" /\ UNCHANGED <<dmxPointer, tdmxPointer>>
          ELSE GiveUp
  /\ UNCHANGED <<bus, ports, mailVars, threadOn, ftdiPortStatus>>

(* The status of FT_Open goes to a local variable that nothing reads; the  *)
(* test is of the member, which an earlier call has set.                   *)
OpenPort ==
  /\ pc = "open"
  /\ \E s \in {FT_OK, FT_ERROR}, h \in Handles \cup {NULL} :
       /\ FT_Open(deviceNumber, s, h)
       /\ IF ftdiPortStatus # FT_OK
          THEN GiveUp
          ELSE tdmxPointer' = h /\ pc' = "bitMode" /\ UNCHANGED dmxPointer
  /\ UNCHANGED <<bus, mailVars, threadOn, ftdiPortStatus>>

(* Three groups of settings, of which the last call's status is tested.    *)
Configure(from, next) ==
  /\ pc = from
  /\ \E s \in {FT_OK, FT_ERROR} :
       /\ FT_Set(tdmxPointer, s)
       /\ ftdiPortStatus' = s
       /\ IF s # FT_OK
          THEN GiveUp
          ELSE pc' = next /\ UNCHANGED <<dmxPointer, tdmxPointer>>
  /\ UNCHANGED <<bus, ports, mailVars, threadOn>>

Publish ==
  /\ pc = "publish"
  /\ dmxPointer' = tdmxPointer
  /\ tdmxPointer' = NULL
  /\ pc' = "startTimer"
  /\ UNCHANGED <<d2xxVars, mailVars, threadOn, ftdiPortStatus>>

(* Mutant of StartTimer: connect() ends by emptying the mailbox.           *)
StartTimerClears ==
  /\ pc = "startTimer"
  /\ threadOn' = TRUE
  /\ threadAction' = NoAction
  /\ pc' = "test2"
  /\ UNCHANGED <<d2xxVars, deviceNumber, calling, dmxPointer, ftdiPortStatus, tdmxPointer>>

StartTimer ==
  /\ pc = "startTimer"
  /\ threadOn' = TRUE
  /\ pc' = "test2"
  /\ UNCHANGED <<d2xxVars, mailVars, dmxPointer, ftdiPortStatus, tdmxPointer>>

ConnectPort ==
  \/ CountDevices
  \/ OpenPort
  \/ Configure("bitMode", "baudRate")
  \/ Configure("baudRate", "latency")
  \/ Configure("latency", "publish")
  \/ Publish
  \/ StartTimer

-----------------------------------------------------------------------------
(* disconnect(), called for Disconnect ("stop") and Restart ("restart").   *)

(* Mutant of ClosePort: the frames are not stopped before the close.       *)
ClosePortOnly(from, next) ==
  /\ pc = from
  /\ \E s \in {FT_OK, FT_ERROR} :
       /\ IF dmxPointer # NULL
          THEN FT_Close(dmxPointer, s)
          ELSE s = FT_OK /\ UNCHANGED <<ports, faults>>
       /\ ftdiPortStatus' = s
  /\ pc' = next
  /\ UNCHANGED <<bus, mailVars, dmxPointer, tdmxPointer, threadOn>>

ClosePort(from, next) ==
  /\ pc = from
  /\ threadOn' = FALSE
  /\ \E s \in {FT_OK, FT_ERROR} :
       /\ IF dmxPointer # NULL
          THEN FT_Close(dmxPointer, s)
          ELSE s = FT_OK /\ UNCHANGED <<ports, faults>>
       /\ ftdiPortStatus' = s
  /\ pc' = next
  /\ UNCHANGED <<bus, mailVars, dmxPointer, tdmxPointer>>

(* Mutant of ForgetPort: the handle is always forgotten.                   *)
ForgetPortAlways(from, next) ==
  /\ pc = from
  /\ dmxPointer' = NULL
  /\ pc' = next
  /\ UNCHANGED <<d2xxVars, mailVars, threadOn, ftdiPortStatus, tdmxPointer>>

ForgetPort(from, next) ==
  /\ pc = from
  /\ dmxPointer' = IF ftdiPortStatus = FT_OK THEN NULL ELSE dmxPointer
  /\ pc' = next
  /\ UNCHANGED <<d2xxVars, mailVars, threadOn, ftdiPortStatus, tdmxPointer>>

DisconnectPort ==
  \/ ClosePort("stop", "stopped")
  \/ ForgetPort("stopped", "test3")
  \/ ClosePort("restart", "restarted")
  \/ ForgetPort("restarted", "clear3")

Worker == Dispatch \/ ConnectPort \/ DisconnectPort \/ Rearm \/ Timer

-----------------------------------------------------------------------------
(* The public methods.  enable() tests dmxPointer and stores the command   *)
(* in two steps, between which the worker may move.                        *)

(* Mutant of Enable: dmxPointer is not tested.                             *)
EnableAnyway(c) ==
  /\ calling[c] = "idle"
  /\ calling' = [calling EXCEPT ![c] = "enabling"]
  /\ UNCHANGED <<d2xxVars, linkVars, pc, threadAction, deviceNumber>>

Enable(c) ==
  /\ calling[c] = "idle"
  /\ calling' = [calling EXCEPT ![c] = IF dmxPointer = NULL THEN "enabling" ELSE "idle"]
  /\ UNCHANGED <<d2xxVars, linkVars, pc, threadAction, deviceNumber>>

EnableStore(c) ==
  /\ calling[c] = "enabling"
  /\ threadAction' = Connect
  /\ calling' = [calling EXCEPT ![c] = "idle"]
  /\ UNCHANGED <<d2xxVars, linkVars, pc, deviceNumber>>

Command(c, action) ==
  /\ calling[c] = "idle"
  /\ threadAction' = action
  /\ UNCHANGED <<d2xxVars, linkVars, pc, deviceNumber, calling>>

Disable(c) == Command(c, Disconnect)
Refresh(c) == Command(c, Restart)

SelectDevice(c, index) ==
  /\ calling[c] = "idle"
  /\ deviceNumber' = index
  /\ UNCHANGED <<d2xxVars, linkVars, pc, threadAction, calling>>

(* getDeviceCount(), which the messages print and device call as well.     *)
AskCount(c, n) ==
  /\ calling[c] = "idle"
  /\ GetDeviceCount(n)
  /\ UNCHANGED <<bus, ports, linkVars, mailVars, pc>>

Caller(c) ==
  \/ Enable(c) \/ EnableStore(c) \/ Disable(c) \/ Refresh(c)
  \/ \E index \in DeviceNumbers : SelectDevice(c, index)
  \/ \E n \in -1..Len(bus) : AskCount(c, n)

UsbBus == Bus /\ UNCHANGED <<linkVars, mailVars, pc>>

Next == Worker \/ UsbBus \/ \E c \in Callers : Caller(c)

Spec == Init /\ [][Next]_vars

(* The worker loops for ever and its calls into the library time out; a    *)
(* caller that is inside enable() comes out of it.  Nobody has to call.    *)
Fairness ==
  /\ WF_vars(Worker)
  /\ \A c \in Callers : WF_vars(EnableStore(c))

FairSpec == Spec /\ Fairness

-----------------------------------------------------------------------------
(* Frames go out only on a handle that the library still has open: the     *)
(* worker never writes to a port it has closed.  (timer_action() trusts    *)
(* threadOn and dmxPointer, which connect() and disconnect() keep.)        *)
TransmitsOnOpenPort == Transmitting => ports[dmxPointer] # Closed

(* The only way for dmxPointer to keep a handle that is no longer open is  *)
(* a close that failed, and the failure is then still in ftdiPortStatus.   *)
DanglesOnlyAfterFailedClose ==
  dmxPointer # NULL /\ ports[dmxPointer] = Closed
    => ftdiPortStatus # FT_OK \/ pc \in {"stopped", "restarted"}

(* The worker goes from one handle to another only through NULL, however   *)
(* the commands of several callers overwrite each other.                   *)
HandleChangesViaNull ==
  [][dmxPointer # NULL => dmxPointer' \in {dmxPointer, NULL}]_vars

OpenPorts == {h \in Handles : ports[h] # Closed}

(* The handles that are open in the library and that the program forgot.   *)
Lost == OpenPorts \ {dmxPointer, tdmxPointer}

(* connect() giving up is the only place where a handle gets lost: neither *)
(* disconnect(), nor a failed close, nor unplugging loses one.             *)
LostOnlyByConnect ==
  [][Lost' \ Lost # {} => pc \in {"count"} \cup Connecting /\ pc' = "test2"]_vars

(* The class implements the abstract transmitter of DmxPort.               *)
TransmitPort == IF Transmitting THEN dmxPointer ELSE NULL

Port == INSTANCE DmxPort WITH open <- OpenPorts, tx <- TransmitPort

PortSpec == Port!Spec

(* A command that is stored outside the windows in which the worker has    *)
(* tested the mailbox and is about to clear it or to store its own Connect *)
(* (where a command may be lost) reaches its routine, unless another       *)
(* command takes its place first: the worker's clearing loses nothing      *)
(* else.                                                                   *)
CommandIsServed ==
  /\ threadAction = Connect /\ pc # "clear2"
       ~> pc = "count" \/ threadAction \in {Disconnect, Restart}
  /\ threadAction = Disconnect
       /\ pc \notin {"clear1", "restart", "restarted", "clear3", "rearm"}
       ~> pc = "stop" \/ threadAction \in {Connect, Restart}
  /\ threadAction = Restart
       /\ pc \notin {"clear1", "clear2", "restarted", "clear3", "rearm"}
       ~> pc = "restart" \/ threadAction \in {Connect, Disconnect}

(* Once no more disconnects and refreshes are sent, a pending one silences *)
(* the line, even if a connect overwrites it before the worker has seen it *)
(* (callers that alternate the two for ever can slip past both tests).     *)
StopSilencesLine ==
  <>[][~\E c \in Callers : Disable(c) \/ Refresh(c)]_vars
    => (threadAction \in {Disconnect, Restart} ~> ~Transmitting)
=============================================================================
