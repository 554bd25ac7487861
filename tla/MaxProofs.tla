----------------------------- MODULE MaxProofs ------------------------------
(***************************************************************************)
(* Theorems about the Max object (Dmx485) and the external's start         *)
(* (Startup), for any number of objects, callers and devices, patient or   *)
(* not, and what a patient user with sound hardware can rely on.           *)
(***************************************************************************)
EXTENDS Startup, Dm2xxProofs

(* Every message is a call of the class, or nothing the class can see.     *)
LEMMA MaxCallerLinks ==
  ASSUME NEW c \in Callers, MaxCaller(c), selecting[c] # -1 => selecting[c] \in DeviceNumbers
  PROVE  Caller(c) \/ UNCHANGED vars
<1>1. ASSUME NEW x \in Objects, dmx_new(c, x) \/ dmx_free(c, x)
      PROVE  Caller(c)
  BY <1>1 DEF dmx_new, dmx_free, Caller
<1>2. CASE dmx_connect(c) \/ dmx_disconnect(c) \/ dmx_refresh(c)
  BY <1>2 DEF dmx_connect, dmx_disconnect, dmx_refresh, Caller
<1>3. CASE (\E n \in -1..Len(bus) : dmx_print(c, n))
           \/ \E dev \in DeviceNumbers : dmx_select_device(c, dev)
  BY <1>3 DEF dmx_print, dmx_select_device, Caller
<1>4. CASE StoreSelection(c)
  BY <1>4 DEF StoreSelection, Caller
<1>5. ASSUME NEW con, dmx_auto_connect(c, con)
      PROVE  UNCHANGED vars
  BY <1>5 DEF dmx_auto_connect
<1> QED
  BY <1>1, <1>2, <1>3, <1>4, <1>5 DEF MaxCaller, MaxMessage

LEMMA MaxStepLinks ==
  ASSUME MaxTypeOK, [MaxNext]_allVars
  PROVE  [Next]_vars
<1>1. CASE Background
  BY <1>1 DEF Background, Next, Caller
<1>2. ASSUME NEW c \in Callers, MaxCaller(c)
      PROVE  [Next]_vars
  BY <1>2, MaxCallerLinks DEF MaxTypeOK, Next
<1>3. CASE UNCHANGED allVars
  BY <1>3 DEF allVars
<1> QED
  BY <1>1, <1>2, <1>3 DEF MaxNext

LEMMA MaxNextType ==
  ASSUME MaxTypeOK, [MaxNext]_allVars
  PROVE  MaxTypeOK'
<1>1. TypeOK'
  BY MaxStepLinks, NextType DEF MaxTypeOK
<1>2. CASE UNCHANGED maxVars
  BY <1>1, <1>2 DEF maxVars, MaxTypeOK
<1>3. ASSUME NEW c \in Callers, MaxCaller(c)
      PROVE  MaxTypeOK'
  <2>1. ASSUME NEW x \in Objects, dmx_new(c, x) \/ dmx_free(c, x)
        PROVE  MaxTypeOK'
    BY <1>1, <2>1 DEF dmx_new, dmx_free, MaxTypeOK
  <2>2. CASE dmx_connect(c) \/ dmx_disconnect(c) \/ dmx_refresh(c)
    BY <1>1, <2>2 DEF dmx_connect, dmx_disconnect, dmx_refresh, MaxTypeOK
  <2>3. CASE \E n \in -1..Len(bus) : dmx_print(c, n)
    BY <1>1, <2>3 DEF dmx_print, maxVars, MaxTypeOK
  <2>4. CASE StoreSelection(c) \/ \E dev \in DeviceNumbers : dmx_select_device(c, dev)
    BY <1>1, <2>4 DEF StoreSelection, dmx_select_device, MaxTypeOK
  <2>5. ASSUME NEW con \in BOOLEAN, dmx_auto_connect(c, con)
        PROVE  MaxTypeOK'
    BY <1>1, <2>5 DEF dmx_auto_connect, MaxTypeOK
  <2> QED
    BY <1>3, <2>1, <2>2, <2>3, <2>4, <2>5 DEF MaxCaller, MaxMessage
<1> QED
  BY <1>2, <1>3 DEF MaxNext, allVars

(* The handlers keep the types; an index that is stored was checked to be  *)
(* one that a device can have.                                             *)
THEOREM MaxTypeCorrect == MaxSpec => []MaxTypeOK
<1>1. MaxInit => MaxTypeOK
  BY InitType, Dm2xxAssumption DEF MaxInit, MaxTypeOK
<1>2. MaxTypeOK /\ [MaxNext]_allVars => MaxTypeOK'
  BY MaxNextType
<1> QED
  BY <1>1, <1>2, PTL DEF MaxSpec

(* The objects implement the callers that Dm2xx assumes.                   *)
LEMMA MaxRefinement == MaxSpec => Spec
<1>1. MaxInit => Init
  BY DEF MaxInit
<1>2. MaxTypeOK /\ [MaxNext]_allVars => [Next]_vars
  BY MaxStepLinks
<1> QED
  BY <1>1, <1>2, MaxTypeCorrect, PTL DEF MaxSpec, Spec

-----------------------------------------------------------------------------
(* Until main() has returned the mailbox is empty and the worker, if there *)
(* is one, goes from test to test.                                         *)
Quiet ==
  /\ threadAction = NoAction
  /\ pc \in {"test1", "test2", "test3", "timer"}
  /\ \A c \in Callers : calling[c] = "idle"

(* What main() has stored where, and that nothing faults after the store.  *)
StartInv ==
  /\ mainPc \in {"construct", "instance", "assign", "class", "loaded"}
  /\ mainPc # "loaded" => Quiet
  /\ mainPc \in {"assign", "class", "loaded"} <=> dm2xx_obj
  /\ dmx1 => mainPc \in {"class", "loaded"}
  /\ mainPc = "loaded" => mClass
  /\ thread = "crashed" => ~dm2xx_obj

LEMMA StartStepMax ==
  ASSUME [StartNext]_startAllVars
  PROVE  [MaxNext]_allVars \/ UNCHANGED allVars
<1>1. CASE main
  BY <1>1 DEF main, Construct, Instance, Assign, SetClass, Main
<1>2. CASE WorkerFaults
  BY <1>2 DEF WorkerFaults
<1>3. CASE WorkerRuns
  BY <1>3 DEF WorkerRuns, MaxNext, Background
<1>4. CASE Messages
  BY <1>4 DEF Messages, MaxNext, Background
<1>5. CASE UsbBus /\ UNCHANGED <<maxVars, startVars>>
  BY <1>5 DEF MaxNext, Background
<1>6. CASE UNCHANGED startAllVars
  BY <1>6 DEF startAllVars
<1> QED
  BY <1>1, <1>2, <1>3, <1>4, <1>5, <1>6 DEF StartNext

(* The start adds nothing to what the objects and the worker can do.       *)
THEOREM StartRefinement == StartSpec => ObjectsSpec
<1>1. StartInit => MaxInit
  BY DEF StartInit
<1>2. [StartNext]_startAllVars => [MaxNext]_allVars
  BY StartStepMax
<1> QED
  BY <1>1, <1>2, PTL DEF StartSpec, ObjectsSpec, MaxSpec

LEMMA StartStepTypes ==
  ASSUME StartTypeOK, [StartNext]_startAllVars
  PROVE  StartTypeOK'
<1>1. MaxTypeOK'
  BY StartStepMax, MaxNextType DEF StartTypeOK
<1>2. CASE main
  BY <1>1, <1>2 DEF main, Construct, Instance, Assign, SetClass, Main, StartTypeOK
<1>3. CASE WorkerFaults
  BY <1>1, <1>3 DEF WorkerFaults, StartTypeOK
<1>4. CASE UNCHANGED startVars
  BY <1>1, <1>4 DEF startVars, StartTypeOK
<1> QED
  BY <1>2, <1>3, <1>4 DEF StartNext, startAllVars, WorkerRuns, Messages

(* The start keeps the types, those of the objects and the link included.  *)
THEOREM StartTypeCorrect == StartSpec => []StartTypeOK
<1>1. StartInit => StartTypeOK
  BY InitType, Dm2xxAssumption DEF StartInit, MaxInit, MaxTypeOK, StartTypeOK
<1>2. StartTypeOK /\ [StartNext]_startAllVars => StartTypeOK'
  BY StartStepTypes
<1> QED
  BY <1>1, <1>2, PTL DEF StartSpec

LEMMA QuietWorker ==
  ASSUME Quiet, Worker
  PROVE  Quiet'
<1>1. CASE Dispatch
  BY <1>1 DEF Quiet, Dispatch, Test, Clear, mailVars, NoAction, Connect, Disconnect,
      Restart
<1>2. CASE Timer
  BY <1>2 DEF Quiet, Timer, mailVars
<1>3. CASE ConnectPort
  BY <1>3 DEF Quiet, ConnectPort, CountDevices, OpenPort, Configure, Publish, StartTimer
<1>4. CASE DisconnectPort \/ Rearm
  BY <1>4 DEF Quiet, DisconnectPort, ClosePort, ForgetPort, Rearm
<1> QED
  BY <1>1, <1>2, <1>3, <1>4 DEF Worker

LEMMA StartInvNext ==
  ASSUME StartInv, [StartNext]_startAllVars
  PROVE  StartInv'
<1>1. CASE thread # "crashed" /\ main
  BY <1>1 DEF StartInv, Quiet, main, Construct, Instance, Assign, SetClass, Main,
              allVars, vars, mailVars
<1>2. CASE WorkerFaults
  BY <1>2 DEF WorkerFaults, StartInv, Quiet, allVars, vars, mailVars
<1>3. CASE WorkerRuns
  BY <1>3, QuietWorker DEF WorkerRuns, StartInv, startVars
<1>4. CASE Messages
  BY <1>4 DEF Messages, StartInv, startVars
<1>5. CASE UsbBus /\ UNCHANGED <<maxVars, startVars>>
  BY <1>5 DEF UsbBus, StartInv, startVars, Quiet, mailVars
<1>6. CASE UNCHANGED startAllVars
  BY <1>6 DEF StartInv, Quiet, startAllVars, startVars, allVars, vars, mailVars
<1> QED
  BY <1>1, <1>2, <1>3, <1>4, <1>5, <1>6 DEF StartNext

(* The worker faults only before messages can be sent, and has an object   *)
(* to post to whenever it posts.                                           *)
THEOREM StartSoundCorrect == StartSpec => []StartIsSound
<1>1. StartInit => StartInv
  BY DEF StartInit, MaxInit, Init, StartInv, Quiet
<1>2. StartInv /\ [StartNext]_startAllVars => StartInv'
  BY StartInvNext
<1>3. StartInv => StartIsSound
  BY DEF StartInv, StartIsSound, Posts, Quiet
<1> QED
  BY <1>1, <1>2, <1>3, PTL DEF StartSpec

-----------------------------------------------------------------------------
(* A patient user with sound hardware.  What the worker does for the last  *)
(* message, stage by stage; a next message comes when it has done it.  The *)
(* library can give out a handle: with none an open fails without a fault. *)
Sound == Patient /\ MaxFaults = 0 /\ ~Hotplug /\ Handles # {}

Loop == {"test1", "test2", "test3", "timer"}
AtRest == threadAction = NoAction /\ pc \in Loop
AllClosed == \A h \in Handles : ports[h] = Closed
OnlyOpen(p) == /\ p \in Handles /\ ports[p] \in Devices
               /\ \A h \in Handles : h # p => ports[h] = Closed

Down == AllClosed /\ dmxPointer = NULL /\ ~threadOn
Up == OnlyOpen(dmxPointer) /\ threadOn

AsAsked == (asked = "down" => Down) /\ (asked = "up" /\ bus # <<>> => Up)

MailStage ==
  /\ \A c \in Callers : calling[c] = "enabling" => AtRest /\ Down /\ asked = "up"
  /\ AtRest => Down \/ Up
  /\ AtRest /\ (\A c \in Callers : calling[c] = "idle") => AsAsked
  /\ threadAction = Connect => pc \in Loop \cup {"clear1"} /\ Down /\ asked = "up"
  /\ threadAction = Disconnect => pc \in Loop \cup {"clear2"} /\ (Down \/ Up) /\ asked = "down"
  /\ threadAction = Restart => pc \in Loop \cup {"restart", "restarted", "clear3"}
                               /\ asked = "up"
  /\ threadAction = Restart /\ pc \in Loop \cup {"restart"} => Down \/ Up

WorkerStage ==
  /\ pc = "clear1" => threadAction = Connect
  /\ pc = "clear2" => threadAction = Disconnect
  /\ pc \in {"restart", "restarted", "clear3"} => threadAction = Restart
  /\ pc \in {"count", "open", "rearm"} => Down /\ asked = "up"
  /\ pc = "open" => bus # <<>>
  /\ pc \in {"bitMode", "baudRate", "latency", "publish"}
       => OnlyOpen(tdmxPointer) /\ dmxPointer = NULL /\ ~threadOn /\ asked = "up"
  /\ pc = "startTimer" => OnlyOpen(dmxPointer) /\ asked = "up"
  /\ pc = "stop" => (Down \/ Up) /\ asked = "down"
  /\ pc \in {"stopped", "restarted"} => AllClosed /\ ~threadOn
  /\ pc = "stopped" => asked = "down"
  /\ pc = "clear3" => Down

Single == \A c, d \in Callers : calling[c] = "enabling" /\ calling[d] = "enabling" => c = d

Chosen ==
  /\ deviceNumber = 0 \/ deviceNumber < Len(bus)
  /\ \A c \in Callers : selecting[c] = -1 \/ selecting[c] < Len(bus)

PatientInv ==
  /\ MaxTypeOK /\ faults = 0 /\ ftdiPortStatus = FT_OK
  /\ MailStage /\ WorkerStage /\ Single /\ Chosen

LEMMA PatientTypes ==
  ASSUME MaxTypeOK
  PROVE  /\ threadAction \in {0, 1, 2, 3} /\ pc \in Labels /\ asked \in {"up", "down"}
         /\ \A c \in Callers : calling[c] \in {"idle", "enabling"}
         /\ bus \in Seq(Devices) /\ Len(bus) \in Nat /\ DOMAIN bus = 1..Len(bus)
         /\ deviceNumber \in 0..255
         /\ dmxPointer \in Handles \cup {NULL} /\ NULL \notin Handles
         /\ \A h \in Handles : ports[h] \in Devices \cup {Closed, Gone}
         /\ DOMAIN ports = Handles
         /\ Closed \notin Devices /\ Gone \notin Devices
BY Dm2xxAssumption, D2xxAssumption
DEF MaxTypeOK, TypeOK, D2xxTypeOK, NoAction, Connect, Disconnect, Restart

(* Without faults a call tells what is so.                                 *)
LEMMA SoundCount ==
  ASSUME MaxTypeOK, faults = 0, NEW n, GetDeviceCount(n)
  PROVE  n = Len(bus) /\ faults' = 0
BY DEF GetDeviceCount, FT_ListDevices, Fault

LEMMA SoundOpen ==
  ASSUME MaxTypeOK, Sound, faults = 0, Chosen, bus # <<>>, AllClosed,
         NEW s, NEW h, FT_Open(deviceNumber, s, h)
  PROVE  s = FT_OK /\ OnlyOpen(h)' /\ faults' = 0
<1>1. deviceNumber + 1 \in DOMAIN bus
  <2>1. bus \in Seq(Devices)
    BY PatientTypes
  <2>2. Len(bus) # 0
    BY <2>1
  <2>3. deviceNumber = 0 \/ deviceNumber < Len(bus)
    BY DEF Chosen
  <2>4. /\ deviceNumber \in 0..255 /\ Len(bus) \in Nat /\ DOMAIN bus = 1..Len(bus)
    BY PatientTypes
  <2> QED BY <2>2, <2>3, <2>4
<1>2. bus[deviceNumber + 1] \in Devices
  BY <1>1, PatientTypes, ElementOfSeq
<1>3. \A g \in Handles : CanOpen(deviceNumber, g)
  BY <1>1, <1>2, PatientTypes DEF CanOpen, AllClosed
<1>4. /\ s = FT_OK /\ h \in Handles /\ UNCHANGED faults
      /\ ports' = [ports EXCEPT ![h] = bus[deviceNumber + 1]]
  BY <1>3 DEF FT_Open, Fault, Sound
<1>5. \A g \in Handles : ports'[g] = IF g = h THEN bus[deviceNumber + 1] ELSE ports[g]
  BY <1>4, PatientTypes
<1> QED BY <1>2, <1>4, <1>5 DEF OnlyOpen, AllClosed

LEMMA SoundClose ==
  ASSUME MaxTypeOK, faults = 0, OnlyOpen(dmxPointer), NEW s, FT_Close(dmxPointer, s)
  PROVE  s = FT_OK /\ AllClosed' /\ faults' = 0
<1>1. ports[dmxPointer] # Closed
  BY PatientTypes DEF OnlyOpen
<1>2. s = FT_OK /\ ports' = [ports EXCEPT ![dmxPointer] = Closed] /\ UNCHANGED faults
  BY <1>1 DEF FT_Close, Fault
<1>3. \A g \in Handles : ports'[g] = IF g = dmxPointer THEN Closed ELSE ports[g]
  BY <1>2, PatientTypes
<1> QED BY <1>2, <1>3 DEF OnlyOpen, AllClosed

LEMMA RestExclusive ==
  ASSUME MaxTypeOK
  PROVE  ~(Down /\ Up) /\ (Up => dmxPointer # NULL)
BY PatientTypes DEF Down, Up, OnlyOpen

LEMMA PatientInit ==
  ASSUME Sound, MaxInit
  PROVE  PatientInv
<1>1. MaxTypeOK
  BY InitType, Dm2xxAssumption DEF MaxInit, MaxTypeOK
<1>2. AllClosed /\ Down /\ faults = 0 /\ ftdiPortStatus = FT_OK /\ Single /\ Chosen
      /\ pc = "test1" /\ threadAction = NoAction /\ asked = "down"
      /\ \A c \in Callers : calling[c] = "idle"
  BY DEF MaxInit, Init, D2xxInit, AllClosed, Down, Sound, Single, Chosen
<1>3. MailStage /\ WorkerStage
  BY <1>2 DEF MailStage, WorkerStage, AtRest, AsAsked, Loop, NoAction, Connect,
      Disconnect, Restart
<1> QED BY <1>1, <1>2, <1>3 DEF PatientInv

LEMMA LinkKept ==
  ASSUME UNCHANGED <<ports, dmxPointer, threadOn>>
  PROVE  /\ (Down' <=> Down) /\ (Up' <=> Up) /\ (AllClosed' <=> AllClosed)
         /\ (OnlyOpen(dmxPointer)' <=> OnlyOpen(dmxPointer))
         /\ tdmxPointer' = tdmxPointer => (OnlyOpen(tdmxPointer)' <=> OnlyOpen(tdmxPointer))
BY DEF Down, Up, AllClosed, OnlyOpen

LEMMA ChosenKept ==
  ASSUME Chosen, UNCHANGED <<bus, deviceNumber, selecting>>
  PROVE  Chosen'
BY DEF Chosen

(* Between the worker's calls: tests, taking the message, and the frame.   *)
LEMMA PatientDispatch ==
  ASSUME PatientInv, Dispatch \/ Rearm \/ Timer, UNCHANGED maxVars, MaxTypeOK'
  PROVE  PatientInv'
<1>1. /\ UNCHANGED <<ports, dmxPointer, threadOn, tdmxPointer, ftdiPortStatus, faults>>
      /\ UNCHANGED <<bus, deviceNumber, selecting, calling, asked>>
  BY DEF Dispatch, Test, Clear, Rearm, Timer, d2xxVars, mailVars, linkVars, maxVars
<1>2. /\ (Down' <=> Down) /\ (Up' <=> Up) /\ (AllClosed' <=> AllClosed)
      /\ (OnlyOpen(dmxPointer)' <=> OnlyOpen(dmxPointer))
      /\ (OnlyOpen(tdmxPointer)' <=> OnlyOpen(tdmxPointer))
      /\ (AsAsked' <=> AsAsked)
  BY <1>1, LinkKept DEF AsAsked
<1>3. Chosen' /\ Single'
  BY <1>1, ChosenKept DEF Single, PatientInv
<1>4. MailStage /\ WorkerStage /\ threadAction \in {0, 1, 2, 3}
  BY PatientTypes DEF PatientInv
<1> SUFFICES MailStage' /\ WorkerStage'
  BY <1>1, <1>3 DEF PatientInv
<1>5. ASSUME threadAction' = threadAction, pc \in Loop,
             \/ pc' \in Loop
             \/ pc' = "clear1" /\ threadAction = Connect
             \/ pc' = "clear2" /\ threadAction = Disconnect
             \/ pc' = "restart" /\ threadAction = Restart
      PROVE  MailStage' /\ WorkerStage'
  <2>1. MailStage'
    BY <1>1, <1>2, <1>4, <1>5
    DEF MailStage, AtRest, Loop, NoAction, Connect, Disconnect, Restart
  <2>2. WorkerStage'
    BY <1>1, <1>2, <1>4, <1>5 DEF WorkerStage, MailStage, Loop, NoAction, Connect,
        Disconnect, Restart
  <2> QED BY <2>1, <2>2
<1>6. CASE Test("test1", Connect, "clear1", "test2")
  BY <1>5, <1>6 DEF Test, Loop, mailVars
<1>7. CASE Test("test2", Disconnect, "clear2", "test3")
  BY <1>5, <1>7 DEF Test, Loop, mailVars
<1>8. CASE Test("test3", Restart, "restart", "timer")
  BY <1>5, <1>8 DEF Test, Loop, mailVars
<1>9. CASE Timer
  BY <1>5, <1>9 DEF Timer, Loop, mailVars
<1>10. CASE Clear("clear1", "count")
  <2>1. pc = "clear1" /\ pc' = "count" /\ threadAction = Connect /\ threadAction' = NoAction
    BY <1>4, <1>10 DEF Clear, WorkerStage
  <2>2. Down /\ asked = "up" /\ \A c \in Callers : calling[c] # "enabling"
    BY <1>4, <2>1 DEF MailStage, AtRest, Loop
  <2> QED BY <1>1, <1>2, <2>1, <2>2
      DEF MailStage, WorkerStage, AtRest, Loop, NoAction, Connect, Disconnect, Restart
<1>11. CASE Clear("clear2", "stop")
  <2>1. pc = "clear2" /\ pc' = "stop" /\ threadAction = Disconnect /\ threadAction' = NoAction
    BY <1>4, <1>11 DEF Clear, WorkerStage
  <2>2. (Down \/ Up) /\ asked = "down" /\ \A c \in Callers : calling[c] # "enabling"
    BY <1>4, <2>1 DEF MailStage, AtRest, Loop
  <2> QED BY <1>1, <1>2, <2>1, <2>2
      DEF MailStage, WorkerStage, AtRest, Loop, NoAction, Connect, Disconnect, Restart
<1>12. CASE Clear("clear3", "rearm")
  <2>1. pc = "clear3" /\ pc' = "rearm" /\ threadAction = Restart /\ threadAction' = NoAction
        /\ Down
    BY <1>4, <1>12 DEF Clear, WorkerStage
  <2>2. asked = "up" /\ \A c \in Callers : calling[c] # "enabling"
    BY <1>4, <2>1 DEF MailStage, AtRest, Loop
  <2> QED BY <1>1, <1>2, <2>1, <2>2
      DEF MailStage, WorkerStage, AtRest, Loop, NoAction, Connect, Disconnect, Restart
<1>13. CASE Rearm
  <2>1. pc = "rearm" /\ pc' = "timer" /\ threadAction' = Connect /\ Down /\ asked = "up"
    BY <1>4, <1>13 DEF Rearm, WorkerStage
  <2>2. \A c \in Callers : calling[c] # "enabling"
    BY <1>4, <2>1 DEF MailStage, AtRest, Loop
  <2> QED BY <1>1, <1>2, <2>1, <2>2
      DEF MailStage, WorkerStage, AtRest, Loop, NoAction, Connect, Disconnect, Restart
<1> QED
  BY <1>6, <1>7, <1>8, <1>9, <1>10, <1>11, <1>12, <1>13 DEF Dispatch

(* connect(), of a device that is there, on a port that is closed.         *)
LEMMA PatientConnect ==
  ASSUME Sound, PatientInv, ConnectPort, UNCHANGED maxVars, MaxTypeOK'
  PROVE  PatientInv'
<1>1. /\ UNCHANGED <<bus, deviceNumber, selecting, calling, asked, threadAction>>
      /\ pc \notin Loop /\ pc \in {"count", "startTimer"} \cup Connecting
  BY DEF ConnectPort, CountDevices, OpenPort, Configure, Publish, StartTimer, mailVars,
      d2xxVars,
         maxVars, Loop, Connecting
<1>2. /\ threadAction = NoAction /\ asked = "up"
      /\ \A c \in Callers : calling[c] # "enabling"
  <2>1. pc \notin Loop \cup {"clear1", "clear2", "restart", "restarted", "clear3"}
    BY <1>1 DEF Loop, Connecting
  <2>2. threadAction = NoAction /\ \A c \in Callers : calling[c] # "enabling"
    BY <2>1, PatientTypes
    DEF PatientInv, MailStage, AtRest, NoAction, Connect, Disconnect, Restart
  <2>3. asked = "up"
    BY <1>1 DEF PatientInv, WorkerStage, Connecting
  <2> QED BY <2>2, <2>3
<1>3. Chosen' /\ Single'
  BY <1>1, ChosenKept DEF Single, PatientInv
<1>4. WorkerStage /\ MaxTypeOK /\ faults = 0 /\ ftdiPortStatus = FT_OK /\ Chosen
  BY DEF PatientInv
<1>5. ASSUME pc' \notin Loop, WorkerStage', faults' = 0, ftdiPortStatus' = FT_OK
      PROVE  PatientInv'
  <2>1. MailStage'
    BY <1>1, <1>2, <1>5 DEF MailStage, AtRest, NoAction, Connect, Disconnect, Restart
  <2> QED BY <1>3, <1>5, <2>1 DEF PatientInv
<1>6. ASSUME pc' = "test2", Up' \/ (Down' /\ bus = <<>>), faults' = 0, ftdiPortStatus' = FT_OK
      PROVE  PatientInv'
  <2>1. MailStage'
    BY <1>1, <1>2, <1>6
    DEF MailStage, AtRest, AsAsked, Loop, NoAction, Connect, Disconnect, Restart
  <2>2. WorkerStage'
    BY <1>6 DEF WorkerStage
  <2> QED BY <1>3, <1>6, <2>1, <2>2 DEF PatientInv
<1>7. ASSUME CountDevices PROVE PatientInv'
  <2>1. PICK n \in -1..Len(bus) :
          /\ GetDeviceCount(n)
          /\ IF n # 0 /\ dmxPointer = NULL
             THEN pc' = "open" /\ UNCHANGED <<dmxPointer, tdmxPointer>>
             ELSE GiveUp
    BY <1>7 DEF CountDevices
  <2>2. Down /\ UNCHANGED <<ports, threadOn, ftdiPortStatus>>
    BY <1>4, <1>7 DEF CountDevices, WorkerStage
  <2>3. n = Len(bus) /\ faults' = 0
    BY <1>4, <2>1, SoundCount
  <2>4. dmxPointer = NULL /\ dmxPointer' = NULL /\ Down'
    BY <2>1, <2>2 DEF Down, GiveUp, AllClosed
  <2>5. bus = <<>> <=> n = 0
    <3>1. bus \in Seq(Devices)
      BY <1>4, PatientTypes
    <3> QED BY <2>3, <3>1
  <2>6. CASE n # 0
    <3>1. pc' = "open"
      BY <2>1, <2>4, <2>6
    <3>2. WorkerStage'
      BY <1>1, <1>2, <2>4, <2>5, <2>6, <3>1 DEF WorkerStage
    <3> QED BY <1>4, <1>5, <2>2, <2>3, <3>1, <3>2 DEF Loop
  <2>7. CASE n = 0
    <3>1. pc' = "test2"
      BY <2>1, <2>7 DEF GiveUp
    <3> QED BY <1>4, <1>6, <2>2, <2>3, <2>4, <2>5, <2>7, <3>1
  <2> QED BY <2>6, <2>7
<1>8. ASSUME OpenPort PROVE PatientInv'
  <2>1. PICK s \in {FT_OK, FT_ERROR}, h \in Handles \cup {NULL} :
          /\ FT_Open(deviceNumber, s, h)
          /\ tdmxPointer' = h /\ pc' = "bitMode" /\ UNCHANGED dmxPointer
    BY <1>4, <1>8 DEF OpenPort
  <2>2. Down /\ bus # <<>> /\ UNCHANGED <<threadOn, ftdiPortStatus>>
    BY <1>4, <1>8 DEF OpenPort, WorkerStage
  <2>3. OnlyOpen(h)' /\ faults' = 0
    BY <1>4, <2>1, <2>2, SoundOpen DEF Down
  <2>4. OnlyOpen(tdmxPointer)'
    BY <2>1, <2>3 DEF OnlyOpen
  <2>5. WorkerStage'
    BY <1>1, <1>2, <2>1, <2>2, <2>4 DEF WorkerStage, Down
  <2> QED BY <1>4, <1>5, <2>1, <2>2, <2>3, <2>5 DEF Loop
<1>9. ASSUME NEW from \in {"bitMode", "baudRate", "latency"},
             NEW next \in {"baudRate", "latency", "publish"}, Configure(from, next)
      PROVE  PatientInv'
  <2>1. PICK s \in {FT_OK, FT_ERROR} :
          /\ FT_Set(tdmxPointer, s) /\ ftdiPortStatus' = s
          /\ IF s # FT_OK THEN GiveUp
             ELSE pc' = next /\ UNCHANGED <<dmxPointer, tdmxPointer>>
    BY <1>9 DEF Configure
  <2>2. /\ OnlyOpen(tdmxPointer) /\ dmxPointer = NULL /\ ~threadOn
        /\ UNCHANGED <<ports, threadOn>>
    BY <1>4, <1>9 DEF Configure, WorkerStage
  <2>3. Live(tdmxPointer)
    BY <1>4, <2>2, PatientTypes DEF OnlyOpen, Live
  <2>4. s = FT_OK /\ faults' = 0
    BY <1>4, <2>1, <2>3 DEF FT_Set, Fault
  <2>5. pc' = next /\ UNCHANGED <<dmxPointer, tdmxPointer>>
    BY <2>1, <2>4
  <2>6. WorkerStage'
    BY <1>1, <1>2, <2>2, <2>5 DEF WorkerStage, OnlyOpen
  <2> QED BY <1>5, <2>1, <2>4, <2>5, <2>6 DEF Loop
<1>10. ASSUME Publish PROVE PatientInv'
  <2>1. /\ UNCHANGED <<ports, faults, threadOn, ftdiPortStatus>> /\ pc' = "startTimer"
        /\ dmxPointer' = tdmxPointer /\ OnlyOpen(tdmxPointer)
    BY <1>4, <1>10 DEF Publish, d2xxVars, WorkerStage
  <2>2. WorkerStage'
    BY <1>1, <1>2, <2>1 DEF WorkerStage, OnlyOpen
  <2> QED BY <1>4, <1>5, <2>1, <2>2 DEF Loop
<1>11. ASSUME StartTimer PROVE PatientInv'
  <2>1. /\ UNCHANGED <<ports, faults, dmxPointer, ftdiPortStatus>> /\ pc' = "test2"
        /\ threadOn' /\ OnlyOpen(dmxPointer)
    BY <1>4, <1>11 DEF StartTimer, d2xxVars, WorkerStage
  <2>2. Up'
    BY <2>1 DEF Up, OnlyOpen
  <2> QED BY <1>4, <1>6, <2>1, <2>2
<1> QED BY <1>7, <1>8, <1>9, <1>10, <1>11 DEF ConnectPort

(* disconnect(): the port is closed and its handle forgotten.              *)
LEMMA PatientDisconnect ==
  ASSUME PatientInv, DisconnectPort, UNCHANGED maxVars, MaxTypeOK'
  PROVE  PatientInv'
<1>1. /\ UNCHANGED <<bus, deviceNumber, selecting, calling, asked, threadAction>>
      /\ pc \in {"stop", "stopped", "restart", "restarted"}
  BY DEF DisconnectPort, ClosePort, ForgetPort, mailVars, d2xxVars, maxVars
<1>2. /\ \A c \in Callers : calling[c] # "enabling"
      /\ pc \in {"stop", "stopped"} => threadAction = NoAction /\ asked = "down"
      /\ pc \in {"restart", "restarted"} => threadAction = Restart /\ asked = "up"
  <2>1. \A c \in Callers : calling[c] # "enabling"
    BY <1>1 DEF PatientInv, MailStage, AtRest, Loop
  <2>2. pc \in {"stop", "stopped"} => threadAction = NoAction
    BY PatientTypes
    DEF PatientInv, MailStage, AtRest, Loop, NoAction, Connect, Disconnect, Restart
  <2>3. pc \in {"stop", "stopped"} => asked = "down"
    BY DEF PatientInv, WorkerStage
  <2>4. pc \in {"restart", "restarted"} => threadAction = Restart /\ asked = "up"
    BY DEF PatientInv, WorkerStage, MailStage
  <2> QED BY <2>1, <2>2, <2>3, <2>4
<1>3. Chosen' /\ Single'
  BY <1>1, ChosenKept DEF Single, PatientInv
<1>4. WorkerStage /\ MaxTypeOK /\ faults = 0 /\ ftdiPortStatus = FT_OK
  BY DEF PatientInv
<1>5. ASSUME NEW from \in {"stop", "restart"}, NEW next \in {"stopped", "restarted"},
             from = "stop" <=> next = "stopped", ClosePort(from, next)
      PROVE  PatientInv'
  <2>1. PICK s \in {FT_OK, FT_ERROR} :
          /\ IF dmxPointer # NULL THEN FT_Close(dmxPointer, s)
             ELSE s = FT_OK /\ UNCHANGED <<ports, faults>>
          /\ ftdiPortStatus' = s
    BY <1>5 DEF ClosePort
  <2>2. pc = from /\ pc' = next /\ threadOn' = FALSE
    BY <1>5 DEF ClosePort
  <2>3. Down \/ Up
    BY <1>2, <1>4, <1>5, <2>2 DEF WorkerStage, PatientInv, MailStage
  <2>4. s = FT_OK /\ AllClosed' /\ faults' = 0
    <3>1. CASE Down
      BY <1>4, <2>1, <3>1 DEF Down, AllClosed
    <3>2. CASE Up
      <4>1. OnlyOpen(dmxPointer) /\ dmxPointer # NULL
        BY <1>4, <3>2, RestExclusive DEF Up
      <4> QED BY <1>4, <2>1, <4>1, SoundClose
    <3> QED BY <2>3, <3>1, <3>2
  <2>5. WorkerStage'
    BY <1>1, <1>2, <1>5, <2>2, <2>4 DEF WorkerStage
  <2>6. MailStage'
    BY <1>1, <1>2, <1>5, <2>2
    DEF MailStage, AtRest, Loop, NoAction, Connect, Disconnect, Restart
  <2> QED BY <1>3, <2>1, <2>4, <2>5, <2>6 DEF PatientInv
<1>6. ASSUME NEW from \in {"stopped", "restarted"}, NEW next \in {"test3", "clear3"},
             from = "stopped" <=> next = "test3", ForgetPort(from, next)
      PROVE  PatientInv'
  <2>1. /\ pc = from /\ pc' = next /\ dmxPointer' = NULL
        /\ UNCHANGED <<ports, faults, threadOn, ftdiPortStatus>>
    BY <1>4, <1>6 DEF ForgetPort, d2xxVars
  <2>2. Down'
    BY <1>4, <1>6, <2>1 DEF WorkerStage, Down, AllClosed
  <2>3. WorkerStage'
    BY <1>1, <1>2, <1>6, <2>1, <2>2 DEF WorkerStage
  <2>4. MailStage'
    BY <1>1, <1>2, <1>6, <2>1, <2>2
    DEF MailStage, AtRest, AsAsked, Loop, NoAction, Connect, Disconnect, Restart
  <2> QED BY <1>3, <1>4, <2>1, <2>3, <2>4 DEF PatientInv
<1>7. ASSUME ClosePort("stop", "stopped") \/ ClosePort("restart", "restarted") PROVE PatientInv'
  BY <1>5, <1>7
<1>8. ASSUME ForgetPort("stopped", "test3") \/ ForgetPort("restarted", "clear3") PROVE PatientInv'
  BY <1>6, <1>8
<1> QED BY <1>7, <1>8 DEF DisconnectPort

(* A message comes when nothing is left of the last one.                   *)
LEMMA PatientMessage ==
  ASSUME Sound, PatientInv, NEW c \in Callers, MaxCaller(c), ~StoreSelection(c), MaxTypeOK'
  PROVE  PatientInv'
<1>1. Settled /\ Ready(c)
  BY DEF MaxCaller, MaxMessage, dmx_new, dmx_free, dmx_connect, dmx_disconnect,
      dmx_refresh,
         dmx_select_device, dmx_auto_connect, dmx_print, Message, Ready, Sound
<1>2. /\ threadAction = NoAction /\ pc \in Loop /\ AtRest
      /\ \A d \in Callers : calling[d] = "idle" /\ selecting[d] = -1
  BY <1>1 DEF Settled, Loop, AtRest
<1>3. (Down \/ Up) /\ AsAsked
  BY <1>2 DEF PatientInv, MailStage
<1>4. WorkerStage /\ MaxTypeOK /\ faults = 0 /\ ftdiPortStatus = FT_OK /\ Chosen /\ Single
  BY DEF PatientInv
<1>5. ASSUME UNCHANGED <<bus, ports, pc, linkVars>>
      PROVE  /\ (Down' <=> Down) /\ (Up' <=> Up) /\ pc' \in Loop
             /\ UNCHANGED <<bus, dmxPointer, ftdiPortStatus>> /\ WorkerStage'
  <2>1. /\ (Down' <=> Down) /\ (Up' <=> Up)
        /\ UNCHANGED <<bus, dmxPointer, ftdiPortStatus, tdmxPointer, threadOn>>
    BY <1>5, LinkKept DEF linkVars
  <2>2. WorkerStage'
    BY <1>2, <1>5 DEF WorkerStage, Loop
  <2> QED BY <1>2, <1>5, <2>1, <2>2
<1>6. ASSUME Command(c, Disconnect), asked' = "down", selecting' = selecting PROVE PatientInv'
  <2>1. /\ UNCHANGED <<bus, ports, pc, linkVars, faults, deviceNumber, calling>>
        /\ threadAction' = Disconnect
    BY <1>6 DEF Command, d2xxVars
  <2>2. MailStage'
    BY <1>2, <1>3, <1>5, <1>6, <2>1
    DEF MailStage, AtRest, Loop, NoAction, Connect, Disconnect, Restart
  <2>3. Single' /\ Chosen'
    BY <1>4, <1>6, <2>1, ChosenKept DEF Single
  <2> QED BY <1>4, <1>5, <2>1, <2>2, <2>3 DEF PatientInv
<1>7. ASSUME Command(c, Restart), asked' = "up", selecting' = selecting PROVE PatientInv'
  <2>1. /\ UNCHANGED <<bus, ports, pc, linkVars, faults, deviceNumber, calling>>
        /\ threadAction' = Restart
    BY <1>7 DEF Command, d2xxVars
  <2>2. MailStage'
    BY <1>2, <1>3, <1>5, <1>7, <2>1
    DEF MailStage, AtRest, Loop, NoAction, Connect, Disconnect, Restart
  <2>3. Single' /\ Chosen'
    BY <1>4, <1>7, <2>1, ChosenKept DEF Single
  <2> QED BY <1>4, <1>5, <2>1, <2>2, <2>3 DEF PatientInv
<1>8. ASSUME Enable(c), asked' = "up", selecting' = selecting PROVE PatientInv'
  <2>1. /\ UNCHANGED <<bus, ports, pc, linkVars, faults, deviceNumber, threadAction>>
        /\ calling' = [calling EXCEPT ![c] = IF dmxPointer = NULL THEN "enabling" ELSE "idle"]
    BY <1>8 DEF Enable, d2xxVars
  <2>2. /\ \A d \in Callers : d # c => calling'[d] = "idle"
        /\ calling'[c] = IF dmxPointer = NULL THEN "enabling" ELSE "idle"
    BY <1>2, <1>4, <2>1 DEF MaxTypeOK, TypeOK
  <2>3. CASE dmxPointer = NULL
    <3>1. Down
      BY <1>3, <1>4, <2>3, RestExclusive
    <3>2. MailStage'
      BY <1>2, <1>5, <1>8, <2>1, <2>2, <2>3, <3>1
      DEF MailStage, AtRest, Loop, NoAction, Connect, Disconnect, Restart
    <3>3. Single'
      BY <2>2, <2>3 DEF Single
    <3> QED BY <1>4, <1>5, <1>8, <2>1, <3>2, <3>3, ChosenKept DEF PatientInv
  <2>4. CASE dmxPointer # NULL
    <3>1. Up
      BY <1>3, <2>4 DEF Down
    <3>2. \A d \in Callers : calling'[d] = "idle"
      BY <2>2, <2>4
    <3>3. AsAsked'
      BY <1>5, <1>8, <2>1, <3>1 DEF AsAsked
    <3>4. MailStage'
      BY <1>2, <1>5, <1>8, <2>1, <3>1, <3>2, <3>3
      DEF MailStage, AtRest, Loop, NoAction, Connect, Disconnect, Restart
    <3>5. Single'
      BY <3>2 DEF Single
    <3> QED BY <1>4, <1>5, <1>8, <2>1, <3>4, <3>5, ChosenKept DEF PatientInv
  <2> QED BY <2>3, <2>4
<1>9. ASSUME UNCHANGED <<bus, ports, pc, linkVars, threadAction, calling, deviceNumber, asked>>,
             faults' = 0,
             \A d \in Callers : selecting'[d] = -1 \/ selecting'[d] < Len(bus)
      PROVE  PatientInv'
  <2>1. AsAsked'
    BY <1>3, <1>5, <1>9 DEF AsAsked
  <2>2. MailStage'
    BY <1>2, <1>3, <1>5, <1>9, <2>1
    DEF MailStage, AtRest, Loop, NoAction, Connect, Disconnect, Restart
  <2>3. Single' /\ Chosen'
    BY <1>4, <1>9 DEF Single, Chosen
  <2> QED BY <1>4, <1>5, <1>9, <2>2, <2>3 DEF PatientInv
<1>10. ASSUME NEW n, AskCount(c, n)
       PROVE  /\ n = Len(bus) /\ faults' = 0
              /\ UNCHANGED <<bus, ports, pc, linkVars, threadAction, calling, deviceNumber>>
  BY <1>4, <1>10, SoundCount DEF AskCount, mailVars
<1>11. ASSUME NEW dev \in DeviceNumbers, dmx_select_device(c, dev) PROVE PatientInv'
  <2>1. PICK n \in -1..Len(bus) : AskCount(c, n) /\ dev <= n - 1
    BY <1>11 DEF dmx_select_device
  <2>2. selecting' = [selecting EXCEPT ![c] = dev] /\ asked' = asked
    BY <1>11 DEF dmx_select_device
  <2>3. dev < Len(bus)
    BY <1>4, <1>10, <2>1, PatientTypes, Dm2xxAssumption
  <2>4. \A d \in Callers : selecting'[d] = -1 \/ selecting'[d] < Len(bus)
    BY <1>2, <1>4, <2>2, <2>3 DEF MaxTypeOK
  <2> QED BY <1>9, <1>10, <2>1, <2>2, <2>4
<1>12. ASSUME NEW n \in -1..Len(bus), dmx_print(c, n) PROVE PatientInv'
  BY <1>2, <1>9, <1>10, <1>12 DEF dmx_print, maxVars
<1>13. ASSUME NEW con \in BOOLEAN, dmx_auto_connect(c, con) PROVE PatientInv'
  <2>1. UNCHANGED vars /\ UNCHANGED <<selecting, asked>>
    BY <1>13 DEF dmx_auto_connect
  <2> QED BY <1>2, <1>4, <1>9, <2>1 DEF vars, d2xxVars, mailVars
<1>14. ASSUME NEW x \in Objects, dmx_new(c, x) \/ dmx_free(c, x) PROVE PatientInv'
  BY <1>6, <1>8, <1>14 DEF dmx_new, dmx_free, Disable
<1>15. ASSUME dmx_connect(c) \/ dmx_disconnect(c) \/ dmx_refresh(c) PROVE PatientInv'
  BY <1>6, <1>7, <1>8, <1>15 DEF dmx_connect, dmx_disconnect, dmx_refresh, Disable,
      Refresh
<1> QED BY <1>11, <1>12, <1>13, <1>14, <1>15 DEF MaxCaller, MaxMessage

(* The two stores that end a message.                                      *)
LEMMA PatientStore ==
  ASSUME PatientInv, NEW c \in Callers, MaxTypeOK',
         StoreSelection(c) \/ (EnableStore(c) /\ UNCHANGED maxVars)
  PROVE  PatientInv'
<1>1. /\ UNCHANGED <<bus, ports, pc, linkVars, faults, asked>>
  BY DEF StoreSelection, SelectDevice, EnableStore, d2xxVars, maxVars
<1>2. /\ (Down' <=> Down) /\ (Up' <=> Up) /\ (AllClosed' <=> AllClosed)
      /\ (OnlyOpen(dmxPointer)' <=> OnlyOpen(dmxPointer))
      /\ (OnlyOpen(tdmxPointer)' <=> OnlyOpen(tdmxPointer))
      /\ (AsAsked' <=> AsAsked)
      /\ UNCHANGED <<dmxPointer, ftdiPortStatus, tdmxPointer, threadOn>>
  BY <1>1, LinkKept DEF AsAsked, linkVars
<1>3. MailStage /\ WorkerStage /\ MaxTypeOK /\ faults = 0 /\ ftdiPortStatus = FT_OK /\ Chosen
      /\ Single
  BY DEF PatientInv
<1>4. CASE StoreSelection(c)
  <2>1. /\ deviceNumber' = selecting[c] /\ selecting[c] # -1
        /\ selecting' = [selecting EXCEPT ![c] = -1]
        /\ UNCHANGED <<threadAction, calling>>
    BY <1>4 DEF StoreSelection, SelectDevice
  <2>2. Chosen'
    BY <1>1, <1>3, <2>1 DEF Chosen, MaxTypeOK
  <2>3. MailStage'
    BY <1>1, <1>2, <1>3, <2>1 DEF MailStage, AtRest
  <2>4. WorkerStage'
    BY <1>1, <1>2, <1>3, <2>1 DEF WorkerStage
  <2>5. Single'
    BY <1>3, <2>1 DEF Single
  <2> QED BY <1>1, <1>2, <1>3, <2>2, <2>3, <2>4, <2>5 DEF PatientInv
<1>5. CASE EnableStore(c) /\ UNCHANGED maxVars
  <2>1. /\ threadAction' = Connect /\ calling[c] = "enabling"
        /\ calling' = [calling EXCEPT ![c] = "idle"]
        /\ UNCHANGED <<deviceNumber, selecting>>
    BY <1>5 DEF EnableStore, maxVars
  <2>2. AtRest /\ Down /\ asked = "up"
    BY <1>3, <2>1 DEF MailStage
  <2>3. \A d \in Callers : calling'[d] = "idle"
    <3>1. \A d \in Callers : d # c => calling[d] = "idle"
      BY <1>3, <2>1, PatientTypes DEF Single
    <3> QED BY <1>3, <2>1, <3>1 DEF MaxTypeOK, TypeOK
  <2>4. MailStage'
    BY <1>1, <1>2, <2>1, <2>2, <2>3
    DEF MailStage, AtRest, Loop, NoAction, Connect, Disconnect, Restart
  <2>5. WorkerStage'
    BY <1>1, <2>2 DEF WorkerStage, AtRest, Loop
  <2>6. Single' /\ Chosen'
    BY <1>1, <1>3, <2>1, <2>3, ChosenKept DEF Single
  <2> QED BY <1>1, <1>2, <1>3, <2>4, <2>5, <2>6 DEF PatientInv
<1> QED BY <1>4, <1>5

LEMMA PatientStep ==
  ASSUME Sound, PatientInv, [MaxNext]_allVars
  PROVE  PatientInv'
<1>1. MaxTypeOK'
  BY MaxNextType DEF PatientInv
<1>2. CASE Worker /\ UNCHANGED maxVars
  BY <1>1, <1>2, PatientDispatch, PatientConnect, PatientDisconnect DEF Worker
<1>3. ASSUME NEW c \in Callers, EnableStore(c) /\ UNCHANGED maxVars PROVE PatientInv'
  BY <1>1, <1>3, PatientStore
<1>4. ASSUME NEW c \in Callers, MaxCaller(c) PROVE PatientInv'
  BY <1>1, <1>4, PatientMessage, PatientStore
<1>5. ~UsbBus
  BY DEF UsbBus, Bus, Plug, Unplug, Sound
<1>6. CASE UNCHANGED allVars
  <2>1. UNCHANGED <<bus, ports, pc, linkVars, faults, asked, deviceNumber, selecting, calling,
                    threadAction>>
    BY <1>6 DEF allVars, vars, maxVars, d2xxVars, mailVars
  <2>2. /\ (Down' <=> Down) /\ (Up' <=> Up) /\ (AllClosed' <=> AllClosed)
        /\ (OnlyOpen(dmxPointer)' <=> OnlyOpen(dmxPointer))
        /\ (OnlyOpen(tdmxPointer)' <=> OnlyOpen(tdmxPointer))
        /\ (AsAsked' <=> AsAsked)
        /\ UNCHANGED <<dmxPointer, ftdiPortStatus, tdmxPointer, threadOn>>
    BY <2>1, LinkKept DEF AsAsked, linkVars
  <2>3. MailStage'
    BY <2>1, <2>2 DEF PatientInv, MailStage, AtRest
  <2>4. WorkerStage'
    BY <2>1, <2>2 DEF PatientInv, WorkerStage
  <2> QED BY <1>1, <2>1, <2>2, <2>3, <2>4, ChosenKept DEF PatientInv, Single
<1> QED BY <1>2, <1>3, <1>4, <1>5, <1>6 DEF MaxNext, Background

(* For a user who waits until the worker has done what he asked for, with  *)
(* devices that stay and calls that do not fail, the link is what he asked *)
(* for last whenever things have settled.                                  *)
THEOREM SettledCorrect ==
  ASSUME Sound
  PROVE  MaxSpec => []SettledAsAsked
<1>1. MaxInit => PatientInv
  BY PatientInit
<1>2. PatientInv /\ [MaxNext]_allVars => PatientInv'
  BY PatientStep
<1>3. PatientInv => SettledAsAsked
  <2> SUFFICES ASSUME PatientInv, Settled
               PROVE  /\ asked = "down" => ~threadOn /\ OpenPorts = {}
                      /\ asked = "up" /\ bus # <<>> =>
                           Transmitting /\ Live(dmxPointer) /\ OpenPorts = {dmxPointer}
    BY Zenon DEF SettledAsAsked
  <2>1. AsAsked
    BY DEF PatientInv, MailStage, AtRest, Settled, Loop
  <2>2. Down => ~threadOn /\ OpenPorts = {}
    BY DEF Down, AllClosed, OpenPorts
  <2>3. Up => Transmitting /\ Live(dmxPointer) /\ OpenPorts = {dmxPointer}
    BY PatientTypes DEF PatientInv, Up, OnlyOpen, OpenPorts, Transmitting, Live
  <2> QED BY <2>1, <2>2, <2>3 DEF AsAsked
<1> QED BY <1>1, <1>2, <1>3, PTL DEF MaxSpec
=============================================================================
