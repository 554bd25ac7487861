-------------------------------- MODULE Dmx485 ------------------------------
(***************************************************************************)
(* The Max object dmx485 (src/dmx485.cpp): every object in a patcher sends *)
(* its messages to one shared dm2xx.  The messages that carry light levels *)
(* (list, frame) are the subject of DmxFrame; version changes nothing.     *)
(***************************************************************************)
EXTENDS Dm2xx

CONSTANTS
  Objects,  (* the dmx485 objects a patcher may hold                       *)
  Patient   (* the user waits for the worker before the next message       *)

ASSUME Dmx485Assumption == Patient \in BOOLEAN

VARIABLES
  objects,      (* the objects that exist                                  *)
  autoConnect,  (* stored by auto_connect                                  *)
  selecting,    (* per caller: the index dmx_select_device() has checked   *)
                (* and not stored yet, or -1                               *)
  asked         (* history: "up" or "down", what the last message wanted   *)

maxVars == <<objects, autoConnect, selecting, asked>>
allVars == <<vars, maxVars>>

MaxTypeOK ==
  /\ TypeOK
  /\ objects \subseteq Objects
  /\ autoConnect \in BOOLEAN
  /\ selecting \in [Callers -> DeviceNumbers \cup {-1}]
  /\ asked \in {"up", "down"}

(* main() has made the dm2xx and registered the class; no object yet.      *)
MaxInit ==
  /\ Init
  /\ objects = {}
  /\ autoConnect = FALSE
  /\ selecting = [c \in Callers |-> -1]
  /\ asked = "down"

(* Nothing is in the mailbox, in a caller or in the worker's hands.        *)
Settled ==
  /\ threadAction = NoAction
  /\ pc \in {"test1", "test2", "test3", "timer"}
  /\ \A c \in Callers : calling[c] = "idle" /\ selecting[c] = -1

Ready(c) == selecting[c] = -1 /\ (Patient => Settled)
Message(c) == Ready(c) /\ objects # {}

(* object_alloc() may fail; dmx_new() calls enable() all the same.         *)
dmx_new(c, x) ==
  /\ Ready(c)
  /\ x \notin objects
  /\ objects' \in {objects, objects \cup {x}}
  /\ Enable(c)
  /\ asked' = "up"
  /\ UNCHANGED <<autoConnect, selecting>>

dmx_free(c, x) ==
  /\ Ready(c)
  /\ x \in objects
  /\ objects' = objects \ {x}
  /\ Disable(c)
  /\ asked' = "down"
  /\ UNCHANGED <<autoConnect, selecting>>

dmx_connect(c) ==
  /\ Message(c) /\ Enable(c) /\ asked' = "up"
  /\ UNCHANGED <<objects, autoConnect, selecting>>

dmx_disconnect(c) ==
  /\ Message(c) /\ Disable(c) /\ asked' = "down"
  /\ UNCHANGED <<objects, autoConnect, selecting>>

dmx_refresh(c) ==
  /\ Message(c) /\ Refresh(c) /\ asked' = "up"
  /\ UNCHANGED <<objects, autoConnect, selecting>>

(* The index is checked against the devices attached now, and stored next. *)
dmx_select_device(c, dev) ==
  /\ Message(c)
  /\ \E n \in -1..Len(bus) : AskCount(c, n) /\ dev <= n - 1
  /\ selecting' = [selecting EXCEPT ![c] = dev]
  /\ UNCHANGED <<objects, autoConnect, asked>>

StoreSelection(c) ==
  /\ selecting[c] # -1
  /\ SelectDevice(c, selecting[c])
  /\ selecting' = [selecting EXCEPT ![c] = -1]
  /\ UNCHANGED <<objects, autoConnect, asked>>

(* print, and select with a wrong index, only ask for the count n; what    *)
(* print sends out of its outlet changes nothing in the external.          *)
dmx_print(c, n) ==
  /\ Message(c)
  /\ AskCount(c, n)
  /\ UNCHANGED maxVars

dmx_auto_connect(c, con) ==
  /\ Message(c)
  /\ calling[c] = "idle"
  /\ autoConnect' = con
  /\ UNCHANGED <<vars, objects, selecting, asked>>

MaxMessage(c) ==
  \/ \E x \in Objects : dmx_new(c, x) \/ dmx_free(c, x)
  \/ dmx_connect(c) \/ dmx_disconnect(c) \/ dmx_refresh(c)
  \/ \E dev \in DeviceNumbers : dmx_select_device(c, dev)
  \/ StoreSelection(c)
  \/ \E con \in BOOLEAN : dmx_auto_connect(c, con)

MaxCaller(c) == MaxMessage(c) \/ \E n \in -1..Len(bus) : dmx_print(c, n)

(* What goes on without a message: the worker, the rest of enable(), USB.  *)
Background == Worker \/ UsbBus \/ \E c \in Callers : EnableStore(c)

MaxNext ==
  \/ Background /\ UNCHANGED maxVars
  \/ \E c \in Callers : MaxCaller(c)

MaxFairness ==
  /\ WF_allVars(Worker /\ UNCHANGED maxVars)
  /\ \A c \in Callers : /\ WF_allVars(EnableStore(c) /\ UNCHANGED maxVars)
                        /\ WF_allVars(StoreSelection(c))

MaxSpec == MaxInit /\ [][MaxNext]_allVars
MaxFairSpec == MaxSpec /\ MaxFairness

-----------------------------------------------------------------------------
(* For a patient user with sound hardware the link is what the last        *)
(* message wanted whenever things have settled: down with every port given *)
(* back, or transmitting on an attached device, with no second port open.  *)
SettledAsAsked ==
  Settled =>
    /\ asked = "down" => ~threadOn /\ OpenPorts = {}
    /\ asked = "up" /\ bus # <<>> =>
         Transmitting /\ Live(dmxPointer) /\ OpenPorts = {dmxPointer}

(* And things do settle: a connect or refresh ends with frames on the line *)
(* and a disconnect with silence, unless the user changes his mind.        *)
LinkFollowsUser ==
  /\ asked = "up" /\ bus # <<>> ~> Transmitting \/ asked = "down"
  /\ asked = "down" ~> ~Transmitting \/ asked = "up"

(* "stopping..." (dm2xx::disable): when the last thing wanted is silence,  *)
(* the line falls silent for good.                                         *)
StopIsHonoured == <>[](asked = "down") => <>[]~Transmitting
=============================================================================
