----------------------------- MODULE Dm2xxProofs ----------------------------
(***************************************************************************)
(* Theorems about Dm2xx, for any sets of devices, handles and callers and  *)
(* any number of faults.                                                   *)
(***************************************************************************)
EXTENDS Dm2xx, FiniteSetTheorems, SequenceTheorems, TLAPS

-----------------------------------------------------------------------------
(* The bus stays a sequence of devices.                                    *)

LEMMA SetToSeqsType ==
  ASSUME NEW S, IsFiniteSet(S), NEW s \in SetToSeqs(S)
  PROVE  s \in Seq(S)
<1>1. Cardinality(S) \in Nat
  BY FS_CardinalityType
<1>2. s \in [1..Cardinality(S) -> S]
  BY DEF SetToSeqs
<1> QED
  BY <1>1, <1>2

LEMMA InsertAtType ==
  ASSUME NEW S, NEW s \in Seq(S), NEW i \in 1..Len(s) + 1, NEW e \in S
  PROVE  InsertAt(s, i, e) \in Seq(S)
<1>1. SubSeq(s, 1, i - 1) \in Seq(S) /\ SubSeq(s, i, Len(s)) \in Seq(S)
  BY SubSeqProperties, ElementOfSeq, LenProperties
<1>2. <<e>> \in Seq(S)
  OBVIOUS
<1> QED
  BY <1>1, <1>2, ConcatProperties DEF InsertAt

LEMMA RemoveAtType ==
  ASSUME NEW S, NEW s \in Seq(S), NEW i \in 1..Len(s)
  PROVE  RemoveAt(s, i) \in Seq(S)
<1>1. SubSeq(s, 1, i - 1) \in Seq(S) /\ SubSeq(s, i + 1, Len(s)) \in Seq(S)
  BY SubSeqProperties, ElementOfSeq, LenProperties
<1> QED
  BY <1>1, ConcatProperties DEF RemoveAt

-----------------------------------------------------------------------------
(* What the calls into the library do to its variables.                    *)

LEMMA FaultType ==
  ASSUME faults \in Nat, Fault
  PROVE  faults' \in Nat
BY DEF Fault

LEMMA FTOpenType ==
  ASSUME D2xxTypeOK, NEW idx \in Nat, NEW s, NEW h, FT_Open(idx, s, h)
  PROVE  /\ h \in Handles \cup {NULL}
         /\ ports' \in [Handles -> Devices \cup {Closed, Gone}]
         /\ faults' \in Nat
<1>1. CASE s = FT_OK
  <2>1. idx + 1 \in 1..Len(bus) /\ faults' = faults /\ h \in Handles
    BY <1>1, LenProperties DEF FT_Open, CanOpen, D2xxTypeOK, FT_OK, FT_ERROR
  <2>2. bus[idx + 1] \in Devices
    BY <2>1, ElementOfSeq DEF D2xxTypeOK
  <2> QED
    BY <1>1, <2>1, <2>2 DEF FT_Open, D2xxTypeOK, FT_OK, FT_ERROR
<1>2. CASE s # FT_OK
  BY <1>2, FaultType DEF FT_Open, D2xxTypeOK
<1> QED
  BY <1>1, <1>2

(* An FT_Open opens at most the handle it returns, and one that was closed.*)
LEMMA FTOpenEffect ==
  ASSUME D2xxTypeOK, NEW idx \in Nat, NEW s, NEW h, FT_Open(idx, s, h)
  PROVE  \/ h = NULL /\ ports' = ports
         \/ /\ h \in Handles /\ ports[h] = Closed /\ ports'[h] # Closed
            /\ \A g \in Handles \ {h} : ports'[g] = ports[g]
<1>1. CASE s = FT_OK
  <2>1. idx + 1 \in 1..Len(bus) /\ h \in Handles
    BY <1>1, LenProperties DEF FT_Open, CanOpen, D2xxTypeOK, FT_OK, FT_ERROR
  <2>2. bus[idx + 1] \in Devices
    BY <2>1, ElementOfSeq DEF D2xxTypeOK
  <2> QED
    BY <1>1, <2>1, <2>2, D2xxAssumption
       DEF FT_Open, CanOpen, D2xxTypeOK, FT_OK, FT_ERROR
<1>2. CASE s # FT_OK
  BY <1>2 DEF FT_Open
<1> QED
  BY <1>1, <1>2

LEMMA FTSetType ==
  ASSUME D2xxTypeOK, NEW h, NEW s, FT_Set(h, s)
  PROVE  faults' \in Nat
BY FaultType DEF FT_Set, D2xxTypeOK

(* An FT_Close closes the handle it is given or nothing.                   *)
LEMMA FTCloseEffect ==
  ASSUME D2xxTypeOK, NEW h \in Handles, NEW s, FT_Close(h, s)
  PROVE  /\ ports' \in {ports, [ports EXCEPT ![h] = Closed]}
         /\ s = FT_OK => ports'[h] = Closed
         /\ ports' \in [Handles -> Devices \cup {Closed, Gone}]
         /\ faults' \in Nat
BY FaultType DEF FT_Close, D2xxTypeOK, FT_OK, FT_ERROR

(* Plugging and unplugging opens and closes no handle.                     *)
LEMMA BusEffect ==
  ASSUME D2xxTypeOK, Bus
  PROVE  /\ D2xxTypeOK'
         /\ \A h \in Handles : ports'[h] = Closed <=> ports[h] = Closed
<1>1. ASSUME NEW d \in Devices, Plug(d)
      PROVE  D2xxTypeOK' /\ ports' = ports
  BY <1>1, InsertAtType DEF Plug, D2xxTypeOK
<1>2. ASSUME NEW i \in DOMAIN bus, Unplug(i)
      PROVE  /\ D2xxTypeOK'
             /\ \A h \in Handles : ports'[h] = Closed <=> ports[h] = Closed
  <2>1. i \in 1..Len(bus)
    BY LenProperties DEF D2xxTypeOK
  <2>2. bus[i] \in Devices
    BY <2>1, ElementOfSeq DEF D2xxTypeOK
  <2>3. RemoveAt(bus, i) \in Seq(Devices)
    BY <2>1, RemoveAtType DEF D2xxTypeOK
  <2> QED
    BY <1>2, <2>2, <2>3, D2xxAssumption DEF Unplug, D2xxTypeOK
<1> QED
  BY <1>1, <1>2 DEF Bus

-----------------------------------------------------------------------------
(* Type correctness.                                                       *)

LEMMA InitType == Init => TypeOK
<1> SUFFICES ASSUME Init
             PROVE  TypeOK
  OBVIOUS
<1>1. PICK attached \in SUBSET Devices : bus \in SetToSeqs(attached)
  BY DEF Init, D2xxInit
<1>2. bus \in Seq(Devices)
  BY <1>1, FS_Subset, SetToSeqsType, SeqMonotonic, D2xxAssumption
<1>3. D2xxTypeOK
  BY <1>2, D2xxAssumption DEF Init, D2xxInit, D2xxTypeOK
<1> QED
  BY <1>3, Dm2xxAssumption
     DEF Init, TypeOK, NoAction, Connect, Disconnect, Restart, FT_OK, FT_ERROR, Labels

LEMMA GetDeviceCountType ==
  ASSUME TypeOK, NEW n, GetDeviceCount(n)
  PROVE  faults' \in Nat
BY FaultType DEF GetDeviceCount, FT_ListDevices, TypeOK, D2xxTypeOK

LEMMA DispatchType ==
  ASSUME TypeOK, Dispatch \/ Rearm \/ Timer
  PROVE  TypeOK'
<1> USE DEF TypeOK, D2xxTypeOK, d2xxVars, mailVars, linkVars, Labels,
            NoAction, Connect, Disconnect, Restart
<1>1. CASE Rearm
  BY <1>1 DEF Rearm
<1>2. CASE Timer
  BY <1>2 DEF Timer
<1>3. ASSUME NEW from, NEW action, NEW taken \in Labels, NEW next \in Labels,
             Test(from, action, taken, next)
      PROVE  TypeOK'
  BY <1>3 DEF Test
<1>4. ASSUME NEW from, NEW next \in Labels, Clear(from, next)
      PROVE  TypeOK'
  BY <1>4 DEF Clear
<1> QED
  BY <1>1, <1>2, <1>3, <1>4 DEF Dispatch

LEMMA ConnectType ==
  ASSUME TypeOK, ConnectPort
  PROVE  TypeOK'
<1> USE DEF TypeOK, mailVars, Labels, Connecting
<1>1. CASE CountDevices
  BY <1>1, GetDeviceCountType DEF CountDevices, GiveUp, D2xxTypeOK
<1>2. CASE OpenPort
  <2>1. deviceNumber \in Nat
    BY Dm2xxAssumption
  <2>2. PICK s \in {FT_OK, FT_ERROR}, h \in Handles \cup {NULL} :
           FT_Open(deviceNumber, s, h)
    BY <1>2 DEF OpenPort
  <2>3. D2xxTypeOK'
    BY <1>2, <2>1, <2>2, FTOpenType DEF OpenPort, D2xxTypeOK
  <2> QED
    BY <1>2, <2>3 DEF OpenPort, GiveUp
<1>3. ASSUME NEW from, NEW next \in Labels, Configure(from, next)
      PROVE  TypeOK'
  <2>1. D2xxTypeOK'
    BY <1>3, FTSetType DEF Configure, D2xxTypeOK
  <2> QED
    BY <1>3, <2>1 DEF Configure, GiveUp
<1>4. CASE Publish
  BY <1>4 DEF Publish, D2xxTypeOK, d2xxVars
<1>5. CASE StartTimer
  BY <1>5 DEF StartTimer, D2xxTypeOK, d2xxVars
<1> QED
  BY <1>1, <1>2, <1>3, <1>4, <1>5 DEF ConnectPort

LEMMA DisconnectType ==
  ASSUME TypeOK, DisconnectPort
  PROVE  TypeOK'
<1> USE DEF TypeOK, mailVars, Labels
<1>1. ASSUME NEW from, NEW next \in Labels, ClosePort(from, next)
      PROVE  TypeOK'
  <2>1. D2xxTypeOK'
    BY <1>1, FTCloseEffect DEF ClosePort, D2xxTypeOK
  <2> QED
    BY <1>1, <2>1 DEF ClosePort
<1>2. ASSUME NEW from, NEW next \in Labels, ForgetPort(from, next)
      PROVE  TypeOK'
  BY <1>2 DEF ForgetPort, D2xxTypeOK, d2xxVars
<1> QED
  BY <1>1, <1>2 DEF DisconnectPort

LEMMA CallerType ==
  ASSUME TypeOK, NEW c \in Callers, Caller(c)
  PROVE  TypeOK'
<1> USE DEF TypeOK, D2xxTypeOK, d2xxVars, linkVars
<1>1. CASE Enable(c)
  BY <1>1 DEF Enable
<1>2. CASE EnableStore(c)
  BY <1>2 DEF EnableStore
<1>3. CASE Disable(c) \/ Refresh(c)
  BY <1>3 DEF Disable, Refresh, Command
<1>4. ASSUME NEW index \in DeviceNumbers, SelectDevice(c, index)
      PROVE  TypeOK'
  BY <1>4 DEF SelectDevice
<1>5. ASSUME NEW n, AskCount(c, n)
      PROVE  TypeOK'
  BY <1>5, GetDeviceCountType DEF AskCount, mailVars
<1> QED
  BY <1>1, <1>2, <1>3, <1>4, <1>5 DEF Caller

LEMMA NextType == TypeOK /\ [Next]_vars => TypeOK'
<1> SUFFICES ASSUME TypeOK, [Next]_vars
             PROVE  TypeOK'
  OBVIOUS
<1>1. CASE Worker
  BY <1>1, DispatchType, ConnectType, DisconnectType DEF Worker
<1>2. CASE UsbBus
  BY <1>2, BusEffect DEF UsbBus, TypeOK, linkVars, mailVars
<1>3. CASE \E c \in Callers : Caller(c)
  BY <1>3, CallerType
<1>4. CASE UNCHANGED vars
  BY <1>4 DEF vars, d2xxVars, linkVars, mailVars, TypeOK, D2xxTypeOK
<1> QED
  BY <1>1, <1>2, <1>3, <1>4 DEF Next

(* Every variable keeps its type, whatever the callers, the bus and the    *)
(* failing library do.                                                     *)
THEOREM TypeCorrect == Spec => []TypeOK
<1> QED
  BY InitType, NextType, PTL DEF Spec

-----------------------------------------------------------------------------
(* The inductive invariant.                                                *)

IsOpen(h) == h \in Handles /\ ports[h] # Closed

(* What the worker relies on as it goes through connect() and disconnect().*)
(* connect() runs with no port published; its local handle is open for as  *)
(* long as it is held; it publishes and starts only an open port; and       *)
(* disconnect() forgets only a handle that the library has taken back.     *)
PointerInv ==
  /\ pc \in Connecting => dmxPointer = NULL
  /\ tdmxPointer # NULL => IsOpen(tdmxPointer) /\ pc \in Connecting \ {"open"}
  /\ pc \in {"baudRate", "latency", "publish"} => IsOpen(tdmxPointer)
  /\ pc = "startTimer" => IsOpen(dmxPointer)
  /\ pc \in {"stopped", "restarted"} /\ ftdiPortStatus = FT_OK => ~IsOpen(dmxPointer)

LinkInv ==
  /\ TypeOK
  /\ PointerInv
  /\ TransmitsOnOpenPort
  /\ DanglesOnlyAfterFailedClose

LEMMA InitInv == Init => LinkInv
<1> SUFFICES ASSUME Init
             PROVE  LinkInv
  OBVIOUS
<1>1. TypeOK
  BY InitType
<1> QED
  BY <1>1 DEF Init, LinkInv, PointerInv, Connecting, TransmitsOnOpenPort,
              Transmitting, DanglesOnlyAfterFailedClose

LEMMA DispatchInv ==
  ASSUME LinkInv, Dispatch \/ Rearm \/ Timer
  PROVE  LinkInv'
<1>1. TypeOK'
  BY DispatchType DEF LinkInv
<1>2. UNCHANGED <<ports, linkVars>>
  BY DEF Dispatch, Test, Clear, Rearm, Timer, d2xxVars
<1>3. pc \notin Connecting \cup {"startTimer", "stopped", "restarted"}
  BY DEF Dispatch, Test, Clear, Rearm, Timer, Connecting
<1>4. pc' \notin Connecting \cup {"startTimer", "stopped", "restarted"}
  BY DEF Dispatch, Test, Clear, Rearm, Timer, Connecting
<1> QED
  BY <1>1, <1>2, <1>3, <1>4
     DEF LinkInv, PointerInv, TransmitsOnOpenPort, Transmitting,
         DanglesOnlyAfterFailedClose, IsOpen, linkVars, Connecting

(* Wherever connect() gives up, the parts about the port hold again.       *)
LEMMA GiveUpInv ==
  ASSUME GiveUp
  PROVE  (PointerInv /\ TransmitsOnOpenPort /\ DanglesOnlyAfterFailedClose)'
BY DEF GiveUp, PointerInv, TransmitsOnOpenPort, Transmitting,
       DanglesOnlyAfterFailedClose, Connecting

LEMMA ConnectPortInv ==
  ASSUME LinkInv, ConnectPort
  PROVE  LinkInv'
<1> USE DEF LinkInv
<1> DEFINE Goal == (PointerInv /\ TransmitsOnOpenPort /\ DanglesOnlyAfterFailedClose)'
<1>1. TypeOK'
  BY ConnectType
<1>2. ASSUME ~GiveUp, CountDevices
      PROVE  Goal
  BY <1>2 DEF CountDevices, PointerInv, TransmitsOnOpenPort, Transmitting,
              DanglesOnlyAfterFailedClose, Connecting
<1>3. ASSUME ~GiveUp, OpenPort
      PROVE  Goal
  <2>1. PICK s \in {FT_OK, FT_ERROR}, h \in Handles \cup {NULL} :
           FT_Open(deviceNumber, s, h) /\ tdmxPointer' = h /\ pc' = "bitMode"
    BY <1>3 DEF OpenPort
  <2>2. dmxPointer = NULL /\ dmxPointer' = NULL
    BY <1>3 DEF OpenPort, PointerInv, Connecting
  <2>3. h # NULL => IsOpen(h)'
    BY <2>1, FTOpenEffect, Dm2xxAssumption, D2xxAssumption DEF IsOpen, TypeOK
  <2> QED
    BY <2>1, <2>2, <2>3
       DEF PointerInv, TransmitsOnOpenPort, Transmitting,
           DanglesOnlyAfterFailedClose, Connecting
<1>4. ASSUME NEW from \in Connecting, NEW next \in {"baudRate", "latency", "publish"},
             ~GiveUp, Configure(from, next)
      PROVE  Goal
  <2>1. tdmxPointer # NULL
    BY <1>4 DEF Configure, FT_Set, Live, FT_OK, FT_ERROR
  <2>2. UNCHANGED <<ports, dmxPointer, tdmxPointer, threadOn>> /\ pc = from /\ pc' = next
    BY <1>4 DEF Configure
  <2> QED
    BY <1>4, <2>1, <2>2
       DEF PointerInv, TransmitsOnOpenPort, Transmitting, IsOpen,
           DanglesOnlyAfterFailedClose, Connecting
<1>5. CASE Publish
  BY <1>1, <1>5 DEF Publish, d2xxVars, PointerInv, TransmitsOnOpenPort, Transmitting,
              DanglesOnlyAfterFailedClose, Connecting, IsOpen
<1>6. CASE StartTimer
  BY <1>1, <1>6 DEF StartTimer, d2xxVars, PointerInv, TransmitsOnOpenPort, Transmitting,
              DanglesOnlyAfterFailedClose, Connecting, IsOpen
<1> QED
  BY <1>1, <1>2, <1>3, <1>4, <1>5, <1>6, GiveUpInv DEF ConnectPort, Connecting

LEMMA DisconnectPortInv ==
  ASSUME LinkInv, DisconnectPort
  PROVE  LinkInv'
<1> USE DEF LinkInv
<1>1. TypeOK'
  BY DisconnectType
<1>2. tdmxPointer = NULL
  BY DEF DisconnectPort, ClosePort, ForgetPort, PointerInv, Connecting
<1>3. ASSUME NEW from, NEW next \in {"stopped", "restarted"}, ClosePort(from, next)
      PROVE  PointerInv' /\ TransmitsOnOpenPort' /\ DanglesOnlyAfterFailedClose'
  <2>1. /\ pc' = next /\ threadOn' = FALSE
        /\ UNCHANGED <<dmxPointer, tdmxPointer>>
    BY <1>3 DEF ClosePort
  <2>2. ftdiPortStatus' = FT_OK => ~IsOpen(dmxPointer)'
    BY <1>3, FTCloseEffect, D2xxAssumption DEF ClosePort, IsOpen, TypeOK
  <2> QED
    BY <1>2, <2>1, <2>2
       DEF PointerInv, TransmitsOnOpenPort, Transmitting,
           DanglesOnlyAfterFailedClose, Connecting
<1>4. ASSUME NEW from, NEW next \in {"test3", "clear3"}, ForgetPort(from, next)
      PROVE  PointerInv' /\ TransmitsOnOpenPort' /\ DanglesOnlyAfterFailedClose'
  BY <1>2, <1>4
     DEF ForgetPort, d2xxVars, PointerInv, TransmitsOnOpenPort, Transmitting,
         DanglesOnlyAfterFailedClose, Connecting
<1> QED
  BY <1>1, <1>3, <1>4 DEF DisconnectPort

(* Callers and the bus move none of the worker's variables.                *)
LEMMA OthersInv ==
  ASSUME LinkInv, TypeOK', UNCHANGED <<linkVars, pc>>,
         \A h \in Handles : ports'[h] = Closed <=> ports[h] = Closed
  PROVE  LinkInv'
<1>1. UNCHANGED <<dmxPointer, threadOn, ftdiPortStatus, tdmxPointer, pc>>
  BY DEF linkVars
<1>2. dmxPointer \in Handles \cup {NULL} /\ tdmxPointer \in Handles \cup {NULL}
  BY DEF LinkInv, TypeOK
<1> QED
  BY <1>1, <1>2
     DEF LinkInv, PointerInv, TransmitsOnOpenPort, Transmitting,
         DanglesOnlyAfterFailedClose, IsOpen

LEMMA CallerFrame ==
  ASSUME NEW c \in Callers, Caller(c)
  PROVE  UNCHANGED <<ports, linkVars, pc>>
BY DEF Caller, Enable, EnableStore, Disable, Refresh, Command, SelectDevice, AskCount,
       d2xxVars

LEMMA NextInv == LinkInv /\ [Next]_vars => LinkInv'
<1> SUFFICES ASSUME LinkInv, [Next]_vars
             PROVE  LinkInv'
  OBVIOUS
<1>1. TypeOK'
  BY NextType DEF LinkInv
<1>2. CASE Worker
  BY <1>2, DispatchInv, ConnectPortInv, DisconnectPortInv DEF Worker
<1>3. CASE UsbBus
  BY <1>1, <1>3, BusEffect, OthersInv DEF UsbBus, LinkInv, TypeOK
<1>4. CASE \E c \in Callers : Caller(c)
  BY <1>1, <1>4, CallerFrame, OthersInv
<1>5. CASE UNCHANGED vars
  BY <1>1, <1>5, OthersInv DEF vars, d2xxVars
<1> QED
  BY <1>2, <1>3, <1>4, <1>5 DEF Next

(* The invariant holds in every reachable state.                           *)
THEOREM InvCorrect == Spec => []LinkInv
<1> QED
  BY InitInv, NextInv, PTL DEF Spec

(* The worker never sends a frame on a handle that it has closed.          *)
THEOREM TransmitsCorrect == Spec => []TransmitsOnOpenPort
<1>1. LinkInv => TransmitsOnOpenPort
  BY DEF LinkInv
<1> QED
  BY <1>1, InvCorrect, PTL

(* Only a failed close, still on record, leaves a dangling dmxPointer.     *)
THEOREM DanglesCorrect == Spec => []DanglesOnlyAfterFailedClose
<1>1. LinkInv => DanglesOnlyAfterFailedClose
  BY DEF LinkInv
<1> QED
  BY <1>1, InvCorrect, PTL

-----------------------------------------------------------------------------
(* What a step may do to the handles.                                      *)

LEMMA WorkerFrame ==
  ASSUME Dispatch \/ Rearm \/ Timer
  PROVE  UNCHANGED <<ports, linkVars>>
BY DEF Dispatch, Test, Clear, Rearm, Timer, d2xxVars

(* The steps that publish, close or forget a handle.                       *)
LEMMA HandleStep ==
  ASSUME LinkInv, [Next]_vars
  PROVE  dmxPointer # NULL => dmxPointer' \in {dmxPointer, NULL}
<1>1. CASE Dispatch \/ Rearm \/ Timer
  BY <1>1, WorkerFrame DEF linkVars
<1>2. CASE ConnectPort
  BY <1>2 DEF LinkInv, PointerInv, Connecting, ConnectPort, CountDevices,
              OpenPort, Configure, Publish, StartTimer, GiveUp
<1>3. CASE DisconnectPort
  BY <1>3 DEF DisconnectPort, ClosePort, ForgetPort
<1>4. CASE UsbBus \/ UNCHANGED vars
  BY <1>4 DEF UsbBus, linkVars, vars
<1>5. CASE \E c \in Callers : Caller(c)
  BY <1>5, CallerFrame DEF linkVars
<1> QED
  BY <1>1, <1>2, <1>3, <1>4, <1>5 DEF Next, Worker

(* The worker never swaps one port for another without stopping between.   *)
THEOREM HandleChangesCorrect == Spec => HandleChangesViaNull
<1>1. LinkInv /\ [Next]_vars
        => [dmxPointer # NULL => dmxPointer' \in {dmxPointer, NULL}]_vars
  BY HandleStep
<1> QED
  BY <1>1, InvCorrect, PTL DEF Spec, HandleChangesViaNull

(* A step that keeps both pointers and opens no handle loses none.         *)
LEMMA KeepsLost ==
  ASSUME OpenPorts' \subseteq OpenPorts, UNCHANGED <<dmxPointer, tdmxPointer>>
  PROVE  Lost' \ Lost = {}
BY DEF Lost, OpenPorts

LEMMA LostStep ==
  ASSUME LinkInv, [Next]_vars, Lost' \ Lost # {}
  PROVE  pc \in {"count"} \cup Connecting /\ pc' = "test2"
<1> USE DEF LinkInv
<1>1. CASE Dispatch \/ Rearm \/ Timer
  BY <1>1, WorkerFrame, KeepsLost DEF linkVars, OpenPorts
<1>2. CASE ConnectPort
  <2>1. CASE CountDevices \/ \E from, next \in Connecting : Configure(from, next)
    <3>1. CASE GiveUp
      BY <2>1, <3>1 DEF CountDevices, Configure, GiveUp, Connecting
    <3>2. CASE ~GiveUp
      BY <2>1, <3>2, KeepsLost DEF CountDevices, Configure, OpenPorts
    <3> QED
      BY <3>1, <3>2
  <2>2. CASE OpenPort
    <3>1. CASE GiveUp
      BY <2>2, <3>1 DEF OpenPort, GiveUp, Connecting
    <3>2. CASE ~GiveUp
      <4>1. PICK s \in {FT_OK, FT_ERROR}, h \in Handles \cup {NULL} :
               FT_Open(deviceNumber, s, h) /\ tdmxPointer' = h
        BY <2>2, <3>2 DEF OpenPort
      <4>2. \A g \in Handles \ {h} : ports'[g] = ports[g]
        BY <4>1, FTOpenEffect, Dm2xxAssumption, D2xxAssumption DEF TypeOK
      <4>3. tdmxPointer = NULL
        BY <2>2 DEF OpenPort, PointerInv
      <4> QED
        BY <2>2, <3>2, <4>1, <4>2, <4>3, D2xxAssumption DEF Lost, OpenPort, OpenPorts
    <3> QED
      BY <3>1, <3>2
  <2>3. CASE Publish
    BY <2>3 DEF Publish, d2xxVars, Lost, OpenPorts, PointerInv, Connecting
  <2>4. CASE StartTimer
    BY <2>4, KeepsLost DEF StartTimer, d2xxVars, OpenPorts
  <2> QED
    BY <1>2, <2>1, <2>2, <2>3, <2>4 DEF ConnectPort, Connecting
<1>3. CASE DisconnectPort
  <2>1. ASSUME NEW from, NEW next, ClosePort(from, next)
        PROVE  Lost' \ Lost = {}
    <3>1. OpenPorts' \subseteq OpenPorts
      BY <2>1, FTCloseEffect DEF ClosePort, OpenPorts, TypeOK, D2xxTypeOK
    <3> QED
      BY <2>1, <3>1, KeepsLost DEF ClosePort
  <2>2. ASSUME NEW from \in {"stopped", "restarted"}, NEW next, ForgetPort(from, next)
        PROVE  Lost' \ Lost = {}
    BY <2>2 DEF ForgetPort, d2xxVars, Lost, OpenPorts, PointerInv, IsOpen
  <2> QED
    BY <1>3, <2>1, <2>2 DEF DisconnectPort
<1>4. CASE UsbBus
  BY <1>4, BusEffect, KeepsLost DEF UsbBus, linkVars, OpenPorts, TypeOK
<1>5. CASE \E c \in Callers : Caller(c)
  BY <1>5, CallerFrame, KeepsLost DEF linkVars, OpenPorts
<1>6. CASE UNCHANGED vars
  BY <1>6, KeepsLost DEF vars, d2xxVars, linkVars, OpenPorts
<1> QED
  BY <1>1, <1>2, <1>3, <1>4, <1>5, <1>6 DEF Next, Worker

(* connect() giving up is the only step that loses an open handle.         *)
THEOREM LostOnlyByConnectCorrect == Spec => LostOnlyByConnect
<1>1. LinkInv /\ [Next]_vars
        => [Lost' \ Lost # {} => pc \in {"count"} \cup Connecting /\ pc' = "test2"]_vars
  BY LostStep
<1> QED
  BY <1>1, InvCorrect, PTL DEF Spec, LostOnlyByConnect

-----------------------------------------------------------------------------
(* Dm2xx implements DmxPort.                                               *)

LEMMA PortInit == Init => Port!Init
BY DEF Init, D2xxInit, Port!Init, OpenPorts, TransmitPort, Transmitting

(* A step that keeps the set of open ports and the pointers stutters.      *)
LEMMA PortStutter ==
  ASSUME OpenPorts' = OpenPorts, UNCHANGED linkVars
  PROVE  UNCHANGED <<OpenPorts, TransmitPort>>
BY DEF TransmitPort, Transmitting, linkVars

LEMMA PortConnect ==
  ASSUME LinkInv, ConnectPort
  PROVE  [Port!Next]_<<OpenPorts, TransmitPort>>
<1> USE DEF LinkInv
<1>1. ASSUME CountDevices \/ \E from, next \in Connecting : Configure(from, next)
      PROVE  Port!Stop \/ UNCHANGED <<OpenPorts, TransmitPort>>
  BY <1>1 DEF CountDevices, Configure, GiveUp, OpenPorts, TransmitPort,
              Transmitting, Port!Stop
<1>2. CASE OpenPort
  <2>1. PICK s \in {FT_OK, FT_ERROR}, h \in Handles \cup {NULL} :
           FT_Open(deviceNumber, s, h)
    BY <1>2 DEF OpenPort
  <2>2. dmxPointer = NULL /\ dmxPointer' = NULL
    BY <1>2 DEF OpenPort, PointerInv, Connecting, GiveUp
  <2>3. TransmitPort = NULL /\ TransmitPort' = NULL
    BY <2>2 DEF TransmitPort, Transmitting
  <2>4. \/ OpenPorts' = OpenPorts
        \/ h \in Handles /\ h \notin OpenPorts /\ OpenPorts' = OpenPorts \cup {h}
    BY <2>1, FTOpenEffect, Dm2xxAssumption DEF OpenPorts, TypeOK
  <2> QED
    BY <2>3, <2>4 DEF Port!Next, Port!Open
<1>3. CASE Publish
  <2>1. IsOpen(tdmxPointer) /\ dmxPointer = NULL
    BY <1>3 DEF Publish, PointerInv, Connecting
  <2>2. tdmxPointer \in OpenPorts /\ tdmxPointer \in Handles /\ TransmitPort = NULL
    BY <2>1 DEF IsOpen, OpenPorts, TransmitPort, Transmitting
  <2>3. OpenPorts' = OpenPorts /\ TransmitPort' \in {tdmxPointer, NULL}
    BY <1>3 DEF Publish, d2xxVars, OpenPorts, TransmitPort, Transmitting
  <2> QED
    BY <2>2, <2>3 DEF Port!Next, Port!Start
<1>4. CASE StartTimer
  <2>1. dmxPointer \in Handles /\ dmxPointer \in OpenPorts
    BY <1>4 DEF StartTimer, PointerInv, IsOpen, OpenPorts
  <2>2. OpenPorts' = OpenPorts /\ TransmitPort' = dmxPointer /\ TransmitPort \in {dmxPointer, NULL}
    BY <1>4 DEF StartTimer, d2xxVars, OpenPorts, TransmitPort, Transmitting
  <2> QED
    BY <2>1, <2>2 DEF Port!Next, Port!Start
<1> QED
  BY <1>1, <1>2, <1>3, <1>4 DEF ConnectPort, Connecting, Port!Next

LEMMA PortDisconnect ==
  ASSUME LinkInv, DisconnectPort
  PROVE  [Port!Next]_<<OpenPorts, TransmitPort>>
<1> USE DEF LinkInv
<1>1. ASSUME NEW from, NEW next, ClosePort(from, next)
      PROVE  [Port!Next]_<<OpenPorts, TransmitPort>>
  <2>1. TransmitPort' = NULL /\ TransmitPort \in {dmxPointer, NULL}
    BY <1>1 DEF ClosePort, TransmitPort, Transmitting
  <2>2. \/ OpenPorts' = OpenPorts
        \/ dmxPointer \in OpenPorts /\ OpenPorts' = OpenPorts \ {dmxPointer}
    BY <1>1, FTCloseEffect DEF ClosePort, OpenPorts, TypeOK, D2xxTypeOK
  <2>3. OpenPorts \subseteq Handles
    BY DEF OpenPorts
  <2> QED
    BY <2>1, <2>2, <2>3 DEF Port!Next, Port!Stop, Port!Close
<1>2. ASSUME NEW from, NEW next, ForgetPort(from, next)
      PROVE  Port!Stop \/ UNCHANGED <<OpenPorts, TransmitPort>>
  BY <1>2 DEF ForgetPort, d2xxVars, OpenPorts, TransmitPort, Transmitting, Port!Stop
<1> QED
  BY <1>1, <1>2 DEF DisconnectPort, Port!Next

LEMMA PortStep ==
  ASSUME LinkInv, [Next]_vars
  PROVE  [Port!Next]_<<OpenPorts, TransmitPort>>
<1>1. CASE Dispatch \/ Rearm \/ Timer
  BY <1>1, WorkerFrame, PortStutter DEF OpenPorts
<1>2. CASE ConnectPort
  BY <1>2, PortConnect
<1>3. CASE DisconnectPort
  BY <1>3, PortDisconnect
<1>4. CASE UsbBus
  BY <1>4, BusEffect, PortStutter DEF UsbBus, OpenPorts, LinkInv, TypeOK
<1>5. CASE \E c \in Callers : Caller(c)
  BY <1>5, CallerFrame, PortStutter DEF OpenPorts
<1>6. CASE UNCHANGED vars
  BY <1>6, PortStutter DEF vars, d2xxVars, OpenPorts
<1> QED
  BY <1>1, <1>2, <1>3, <1>4, <1>5, <1>6 DEF Next, Worker

(* The threads, the mailbox and the connect sequence together do what the  *)
(* abstract transmitter does.                                              *)
THEOREM PortRefinement == Spec => PortSpec
<1>1. LinkInv /\ [Next]_vars => [Port!Next]_<<OpenPorts, TransmitPort>>
  BY PortStep
<1> QED
  BY <1>1, PortInit, InvCorrect, PTL DEF Spec, PortSpec, Port!Spec
=============================================================================
