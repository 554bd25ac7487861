--------------------------- MODULE DmxFrameProofs ---------------------------
(***************************************************************************)
(* Theorems about DmxFrame, for any number of slots, widths, callers,      *)
(* message contents and message lengths.                                   *)
(***************************************************************************)
EXTENDS DmxFrame, Dm2xxProofs

-----------------------------------------------------------------------------
(* DmxFrame implements the class without its levels.                       *)

LEMMA NarrowValue ==
  ASSUME NEW value \in Int
  PROVE  value % ByteMod \in Bytes /\ value % ByteMod \in DeviceNumbers
BY DmxFrameAssumption DEF Bytes

(* A caller that is inside a frame message is not inside enable().         *)
FillInv ==
  /\ filling \in [Callers -> Int]
  /\ \A c \in Callers : filling[c] # -1 => calling[c] = "idle"

LEMMA SetChannelSelects ==
  ASSUME NEW c \in Callers, calling[c] = "idle", TypeOK,
         NEW channel \in Int, NEW value \in Int, set_channel(channel, value)
  PROVE  [Next]_vars /\ UNCHANGED calling
<1>1. value % ByteMod \in DeviceNumbers
  BY NarrowValue
<1>2. CASE deviceNumber' = value % ByteMod
  <2>1. SelectDevice(c, value % ByteMod)
    BY <1>2 DEF set_channel, SelectDevice
  <2> QED
    BY <1>1, <2>1 DEF Next, Caller, set_channel
<1>3. CASE deviceNumber' = deviceNumber
  BY <1>3 DEF set_channel, vars, mailVars
<1> QED
  BY <1>2, <1>3 DEF set_channel

LEMMA FrameWorkerLinks ==
  ASSUME FrameWorker
  PROVE  [Next]_vars /\ UNCHANGED filling /\ UNCHANGED calling
<1>1. CASE (Dispatch \/ ConnectPort \/ DisconnectPort \/ Rearm) /\ UNCHANGED frameVars
  <2>1. Worker /\ UNCHANGED calling
    BY <1>1 DEF Worker, Dispatch, Test, Clear, Rearm, ConnectPort, CountDevices,
                OpenPort, Configure, Publish, StartTimer, DisconnectPort, ClosePort,
                ForgetPort, mailVars
  <2> QED
    BY <1>1, <2>1 DEF Next, frameVars, levelVars
<1>2. CASE SkipFrame \/ EndFrame
  BY <1>2 DEF SkipFrame, EndFrame, Timer, Next, Worker, frameVars, levelVars, mailVars
<1>3. CASE BeginFrame \/ WriteStartCode \/ CopyByte \/ EndWrite
  BY <1>3 DEF BeginFrame, StartSending, WriteStartCode, CopyByte, EndWrite,
              WriteReturns, levelVars, vars, mailVars
<1> QED
  BY <1>1, <1>2, <1>3 DEF FrameWorker, timer_action

LEMMA FrameCallerLinks ==
  ASSUME FillInv, TypeOK, NEW c \in Callers, FrameCaller(c)
  PROVE  [Next]_vars /\ FillInv'
<1>1. CASE dmx_message(c)
  <2>1. PICK channel \in Longs, value \in Longs : set_channel(channel, value)
    BY <1>1 DEF dmx_message
  <2>2. channel \in Int /\ value \in Int /\ calling[c] = "idle"
    BY <1>1, DmxFrameAssumption DEF dmx_message, Free
  <2> QED
    BY <1>1, <2>1, <2>2, SetChannelSelects DEF dmx_message, FillInv
<1>2. CASE dmx_frame(c)
  BY <1>2 DEF dmx_frame, Free, vars, mailVars, FillInv
<1>3. CASE FillChannel(c)
  <2>1. PICK value \in Longs : set_channel(filling[c], value)
    BY <1>3 DEF FillChannel
  <2>2. filling[c] \in Int /\ filling[c] # -1 /\ value \in Int /\ calling[c] = "idle"
    BY <1>3, DmxFrameAssumption DEF FillChannel, FillInv
  <2> QED
    BY <1>3, <2>1, <2>2, SetChannelSelects DEF FillChannel, FillInv
<1>4. CASE FrameFilled(c)
  BY <1>4 DEF FrameFilled, vars, mailVars, FillInv
<1>5. CASE filling[c] = -1 /\ Caller(c) /\ UNCHANGED frameVars
  <2>1. \A d \in Callers : d # c => calling'[d] = calling[d]
    BY <1>5 DEF Caller, Enable, EnableStore, Disable, Refresh, Command,
                SelectDevice, AskCount, mailVars, TypeOK
  <2> QED
    BY <1>5, <2>1 DEF Next, FillInv, frameVars, levelVars
<1> QED
  BY <1>1, <1>2, <1>3, <1>4, <1>5 DEF FrameCaller

LEMMA FrameStepLinks ==
  ASSUME FillInv, TypeOK, [FrameNext]_allVars
  PROVE  [Next]_vars /\ FillInv' /\ TypeOK'
<1>1. [Next]_vars /\ FillInv'
  <2>1. CASE FrameWorker
    BY <2>1, FrameWorkerLinks DEF FillInv
  <2>2. CASE UsbBus /\ UNCHANGED frameVars
    BY <2>2 DEF UsbBus, Next, mailVars, frameVars, levelVars, FillInv
  <2>3. CASE \E c \in Callers : FrameCaller(c)
    BY <2>3, FrameCallerLinks
  <2>4. CASE UNCHANGED allVars
    BY <2>4 DEF allVars, vars, mailVars, frameVars, levelVars, FillInv
  <2> QED
    BY <2>1, <2>2, <2>3, <2>4 DEF FrameNext
<1> QED
  BY <1>1, NextType

(* Storing levels and sending frames disturb the link by no more than the  *)
(* selection of a device: what is proved of Dm2xx holds here too.          *)
THEOREM FrameRefinement == FrameSpec => LinkSpec
<1>1. FrameInit => Init /\ FillInv /\ TypeOK
  BY InitType DEF FrameInit, FillInv
<1>2. FillInv /\ TypeOK /\ [FrameNext]_allVars => [Next]_vars /\ FillInv' /\ TypeOK'
  BY FrameStepLinks
<1> QED
  BY <1>1, <1>2, PTL DEF FrameSpec, LinkSpec, Spec

-----------------------------------------------------------------------------
(* The types of the levels and of the frame.                               *)

FrameTypes ==
  /\ dmx_data \in [Channels -> Bytes]
  /\ filling \in [Callers -> -1..MaxArgs]
  /\ at \in {"idle", "start", "data", "break"}
  /\ s2 \in 0..Slots /\ fuse \in 0..Fuse /\ copied \in 0..s2
  /\ wire \in Seq({StartCode, Foreign} \cup Bytes \cup DeviceNumbers)
  /\ short \in BOOLEAN
  /\ since \in [Channels -> SUBSET Bytes]
  /\ at \in {"start", "data"} => s2 > 0 /\ fuse > 0

LEMMA SetChannelTypes ==
  ASSUME FrameTypes, NEW channel \in Int, NEW value \in Int,
         set_channel(channel, value)
  PROVE  dmx_data' \in [Channels -> Bytes] /\ since' \in [Channels -> SUBSET Bytes]
<1> DEFINE i == channel % UIntMod
           v == value % ByteMod
<1>1. i \in Nat /\ v \in Bytes
  BY NarrowValue, DmxFrameAssumption
<1>2. i < Slots => i \in Channels
  BY <1>1, DmxFrameAssumption DEF Channels
<1> QED
  BY <1>1, <1>2 DEF set_channel, FrameTypes

LEMMA TimerTypes ==
  ASSUME TypeOK, FrameTypes, timer_action
  PROVE  FrameTypes'
<1>1. CASE SkipFrame
  BY <1>1 DEF SkipFrame, frameVars, sendVars, levelVars, FrameTypes
<1>2. CASE BeginFrame
  <2>1. wire' \in Seq({StartCode, Foreign} \cup Bytes \cup DeviceNumbers)
    BY <1>2 DEF BeginFrame, StartSending
  <2>2. since' \in [Channels -> SUBSET Bytes]
    BY <1>2 DEF BeginFrame, StartSending, FrameTypes
  <2> QED
    BY <1>2, <2>1, <2>2, DmxFrameAssumption DEF BeginFrame, StartSending, FrameTypes
<1>3. CASE WriteStartCode
  <2>1. wire' \in Seq({StartCode, Foreign} \cup Bytes \cup DeviceNumbers)
    <3>1. <<StartCode>> \in Seq({StartCode, Foreign} \cup Bytes \cup DeviceNumbers)
      OBVIOUS
    <3>2. wire' = <<StartCode>> \/ wire' = wire
      BY <1>3, Zenon DEF WriteStartCode
    <3> QED
      BY <3>1, <3>2 DEF FrameTypes
  <2>2. short' \in BOOLEAN
    BY <1>3, Zenon DEF WriteStartCode, FrameTypes
  <2>3. at' = "data" /\ s2 > 0 /\ fuse > 0
        /\ UNCHANGED <<levelVars, s2, fuse, copied>>
    BY <1>3 DEF WriteStartCode, FrameTypes
  <2> QED
    BY <2>1, <2>2, <2>3 DEF levelVars, FrameTypes
<1>4. CASE CopyByte
  <2>1. ByteAt(WriteAddress + copied) \in {Foreign} \cup Bytes \cup DeviceNumbers
    <3>1. WriteAddress + copied \in Nat
      BY DmxFrameAssumption DEF FrameTypes, WriteAddress
    <3>2. WriteAddress + copied < Slots => WriteAddress + copied \in Channels
      BY <3>1, DmxFrameAssumption DEF Channels
    <3>3. deviceNumber \in DeviceNumbers
      BY DEF TypeOK
    <3> QED
      BY <3>2, <3>3 DEF ByteAt, FrameTypes
  <2>2. wire' \in Seq({StartCode, Foreign} \cup Bytes \cup DeviceNumbers)
    BY <1>4, <2>1 DEF CopyByte, FrameTypes
  <2>3. copied' \in 0..s2
    BY <1>4, DmxFrameAssumption DEF CopyByte, FrameTypes
  <2> QED
    BY <1>4, <2>2, <2>3 DEF CopyByte, levelVars, FrameTypes
<1>5. CASE EndWrite
  <2>0. short' \in BOOLEAN
    BY <1>5, Zenon DEF EndWrite, WriteReturns
  <2>1. s2' \in 0..Slots /\ fuse' \in 0..Fuse /\ copied' = 0
    BY <1>5, DmxFrameAssumption DEF EndWrite, WriteReturns, FrameTypes
  <2>2. at' \in {"data", "break"} /\ (at' = "data" => s2' > 0 /\ fuse' > 0)
    <3>1. at' = IF s2' = 0 \/ fuse' = 0 THEN "break" ELSE "data"
      BY <1>5, Zenon DEF EndWrite, WriteReturns
    <3> QED
      BY <2>1, <3>1, DmxFrameAssumption
  <2> QED
    <3>1. UNCHANGED <<levelVars, wire>>
      BY <1>5 DEF EndWrite, WriteReturns
    <3> QED
      BY <2>0, <2>1, <2>2, <3>1, DmxFrameAssumption DEF levelVars, FrameTypes
<1>6. CASE EndFrame
  <2>1. wire' \in Seq({StartCode, Foreign} \cup Bytes \cup DeviceNumbers)
    BY <1>6 DEF EndFrame
  <2>2. short' \in BOOLEAN
    BY <1>6, Zenon DEF EndFrame
  <2>3. /\ at' = "idle" /\ s2' = 0 /\ fuse' = 0 /\ copied' = 0
        /\ since' = [i \in Channels |-> {}] /\ UNCHANGED <<dmx_data, filling>>
    BY <1>6 DEF EndFrame
  <2> QED
    BY <2>1, <2>2, <2>3, DmxFrameAssumption DEF FrameTypes
<1> QED
  BY <1>1, <1>2, <1>3, <1>4, <1>5, <1>6 DEF timer_action

LEMMA FrameCallerTypes ==
  ASSUME FrameTypes, NEW c \in Callers, FrameCaller(c)
  PROVE  FrameTypes'
<1>1. CASE dmx_message(c)
  <2>1. PICK channel \in Longs, value \in Longs : set_channel(channel, value)
    BY <1>1 DEF dmx_message
  <2> QED
    BY <1>1, <2>1, SetChannelTypes, DmxFrameAssumption DEF dmx_message, sendVars, FrameTypes
<1>2. CASE FillChannel(c)
  <2>1. PICK value \in Longs : set_channel(filling[c], value)
    BY <1>2 DEF FillChannel
  <2>2. filling[c] \in Int /\ filling' \in [Callers -> -1..MaxArgs]
    BY <1>2, DmxFrameAssumption DEF FillChannel, FrameTypes
  <2> QED
    BY <1>2, <2>1, <2>2, SetChannelTypes, DmxFrameAssumption
       DEF FillChannel, sendVars, FrameTypes
<1>3. CASE dmx_frame(c) \/ FrameFilled(c)
  <2>1. 0 \in -1..MaxArgs /\ -1 \in -1..MaxArgs
    BY DmxFrameAssumption
  <2>2. filling' = [filling EXCEPT ![c] = 0] \/ filling' = [filling EXCEPT ![c] = -1]
    BY <1>3 DEF dmx_frame, FrameFilled
  <2>3. filling' \in [Callers -> -1..MaxArgs]
    BY <2>1, <2>2 DEF FrameTypes
  <2> QED
    BY <1>3, <2>3 DEF dmx_frame, FrameFilled, sendVars, FrameTypes
<1>4. CASE UNCHANGED frameVars
  BY <1>4 DEF frameVars, sendVars, levelVars, FrameTypes
<1> QED
  BY <1>1, <1>2, <1>3, <1>4 DEF FrameCaller

LEMMA FrameStepTypes ==
  ASSUME TypeOK, FrameTypes, [FrameNext]_allVars
  PROVE  FrameTypes'
<1>1. CASE UNCHANGED frameVars
  BY <1>1 DEF frameVars, sendVars, levelVars, FrameTypes
<1> QED
  BY <1>1, TimerTypes, FrameCallerTypes DEF FrameNext, FrameWorker, allVars

LEMMA FrameInitTypes == FrameInit => TypeOK /\ FillInv /\ FrameTypes
<1> SUFFICES ASSUME FrameInit
             PROVE  TypeOK /\ FillInv /\ FrameTypes
  OBVIOUS
<1>1. wire \in Seq({StartCode, Foreign} \cup Bytes \cup DeviceNumbers)
  BY DEF FrameInit
<1>2. dmx_data \in [Channels -> Bytes] /\ since \in [Channels -> SUBSET Bytes]
  BY DmxFrameAssumption DEF FrameInit, Bytes
<1>3. short \in BOOLEAN
  BY Zenon DEF FrameInit
<1>4. TypeOK /\ FillInv
  BY InitType DEF FrameInit, FillInv
<1>5. /\ at = "idle" /\ s2 = 0 /\ fuse = 0 /\ copied = 0
      /\ filling = [c \in Callers |-> -1]
  BY DEF FrameInit
<1> QED
  BY <1>1, <1>2, <1>3, <1>4, <1>5, DmxFrameAssumption DEF FrameTypes

(* The variables of the frame keep their types: no more is written than    *)
(* was asked for, and the fuse counts down to zero and no further.         *)
THEOREM FrameTypeCorrect == FrameSpec => []FrameTypeOK
<1>1. TypeOK /\ FillInv /\ FrameTypes /\ [FrameNext]_allVars
        => (TypeOK /\ FillInv /\ FrameTypes)'
  BY FrameStepLinks, FrameStepTypes
<1>2. TypeOK /\ FrameTypes => FrameTypeOK
  BY DEF FrameTypes, FrameTypeOK
<1> QED
  BY FrameInitTypes, <1>1, <1>2, PTL DEF FrameSpec

-----------------------------------------------------------------------------
(* What a frame carries, as long as no write on a live port falls short.   *)

(* As long as the port lives, one write is to send all the slots, and the  *)
(* line has got the start code and the slots copied so far.                *)
Sending ==
  /\ wire \in Seq({StartCode} \cup Bytes) /\ Len(wire) <= Slots + 1
  /\ at \in {"idle", "start"} => wire = <<>>
  /\ at = "start" => s2 = Slots /\ copied = 0
  /\ at = "data" /\ Live(dmxPointer)
       => s2 = Slots /\ copied \in 0..Slots /\ Len(wire) = copied + 1
  /\ FrameIsCurrent
  /\ FrameIsWhole

SendInv ==
  /\ dmx_data \in [Channels -> Bytes] /\ since \in [Channels -> SUBSET Bytes]
  /\ at # "idle" => pc = "timer" /\ \A i \in Channels : dmx_data[i] \in since[i]
  /\ at \in {"idle", "start"} => ~short
  /\ ~short => Sending

LEMMA SendInit == FrameInit => SendInv
<1> SUFFICES ASSUME FrameInit
             PROVE  SendInv
  OBVIOUS
<1>1. dmx_data \in [Channels -> Bytes] /\ since \in [Channels -> SUBSET Bytes]
  BY DmxFrameAssumption DEF FrameInit, Bytes
<1>2. wire \in Seq({StartCode} \cup Bytes) /\ Len(wire) = 0 /\ DOMAIN wire = {}
  BY DEF FrameInit
<1>3. at = "idle" /\ wire = <<>>
  BY DEF FrameInit
<1>4. ~short
  BY Zenon DEF FrameInit
<1> QED
  BY <1>1, <1>2, <1>3, <1>4, DmxFrameAssumption
     DEF SendInv, Sending, FrameIsCurrent, FrameIsWhole

(* A channel that is stored while a frame is sent only adds to what the    *)
(* frame may carry.                                                        *)
LEMMA SetChannelSends ==
  ASSUME SendInv, UNCHANGED sendVars, NEW channel \in Int, NEW value \in Int,
         set_channel(channel, value)
  PROVE  SendInv'
<1> DEFINE i == channel % UIntMod
           v == value % ByteMod
<1>1. i \in Nat /\ v \in Bytes
  BY NarrowValue, DmxFrameAssumption
<1>2. UNCHANGED <<at, s2, fuse, copied, wire, short, pc, ports, dmxPointer>>
  BY DEF set_channel, sendVars, d2xxVars, linkVars
<1>3. i < Slots => i \in Channels
  BY <1>1, DmxFrameAssumption DEF Channels
<1>4. dmx_data' \in [Channels -> Bytes] /\ since' \in [Channels -> SUBSET Bytes]
  BY <1>1, <1>3 DEF set_channel, SendInv
<1>5. \A k \in Channels : since[k] \subseteq since'[k]
  BY <1>3 DEF set_channel, SendInv
<1>6. at # "idle" => \A k \in Channels : dmx_data'[k] \in since'[k]
  BY <1>3 DEF set_channel, SendInv
<1>7. ASSUME ~short
      PROVE  FrameIsCurrent'
  <2>0. Sending
    BY <1>7 DEF SendInv
  <2> SUFFICES ASSUME NEW k \in DOMAIN wire, k # 1
               PROVE  wire[k] \in since'[k - 2]
    BY <1>2, <1>7, <2>0 DEF FrameIsCurrent, Sending
  <2>1. k \in 2..Slots + 1
    BY <2>0, LenProperties, DmxFrameAssumption DEF Sending
  <2>2. k - 2 \in Channels
    BY <2>1, DmxFrameAssumption DEF Channels
  <2> QED
    BY <1>5, <1>7, <2>0, <2>2 DEF FrameIsCurrent, Sending
<1> QED
  BY <1>2, <1>4, <1>6, <1>7 DEF SendInv, Sending, FrameIsWhole, Live

LEMMA CopyByteSends ==
  ASSUME SendInv, ~short, CopyByte
  PROVE  SendInv'
<1>0. Sending
  BY DEF SendInv
<1>1. /\ s2 = Slots /\ copied \in 0..Slots - 1 /\ Len(wire) = copied + 1
      /\ pc = "timer" /\ at = "data" /\ Live(dmxPointer)
  BY <1>0, DmxFrameAssumption DEF CopyByte, SendInv, Sending
<1>2. UNCHANGED <<vars, dmx_data, since, at, s2, short>> /\ copied' = copied + 1
  BY DEF CopyByte, levelVars
<1>3. copied \in Channels
  BY <1>1 DEF Channels
<1>4. WriteAddress + copied = copied
  BY <1>1, DmxFrameAssumption DEF WriteAddress
<1>5. ByteAt(WriteAddress + copied) = dmx_data[copied]
  BY <1>1, <1>4, DmxFrameAssumption DEF ByteAt
<1>6. wire' = Append(wire, dmx_data[copied]) /\ dmx_data[copied] \in Bytes
  BY <1>3, <1>5 DEF CopyByte, SendInv
<1>7. /\ wire' \in Seq({StartCode} \cup Bytes) /\ Len(wire') = copied + 2
      /\ DOMAIN wire' = 1..copied + 2 /\ DOMAIN wire = 1..copied + 1
      /\ \A k \in 1..copied + 1 : wire'[k] = wire[k]
      /\ wire'[copied + 2] = dmx_data[copied]
  BY <1>0, <1>1, <1>6 DEF Sending
<1>8. FrameIsCurrent'
  <2>1. dmx_data[copied] \in since[copied]
    BY <1>1, <1>3 DEF SendInv
  <2>2. ASSUME NEW k \in 1..copied + 1
        PROVE  IF k = 1 THEN wire'[k] = StartCode ELSE wire'[k] \in since'[k - 2]
    BY <1>0, <1>2, <1>7, <2>2 DEF Sending, FrameIsCurrent
  <2>3. copied + 2 # 1 /\ (copied + 2) - 2 = copied
    BY <1>1
  <2>4. wire'[copied + 2] \in since'[(copied + 2) - 2]
    BY <1>2, <1>7, <2>1, <2>3
  <2> QED
    BY <1>1, <1>7, <2>2, <2>3, <2>4 DEF FrameIsCurrent
<1> QED
  BY <1>1, <1>2, <1>7, <1>8, DmxFrameAssumption
     DEF SendInv, Sending, FrameIsWhole, Live, vars, d2xxVars, linkVars

(* Every step of timer_action() keeps the invariant: a write that returns  *)
(* has copied everything, or the port is gone, or the frame is short.      *)
LEMMA TimerSends ==
  ASSUME SendInv, timer_action
  PROVE  SendInv'
<1>1. CASE SkipFrame
  BY <1>1 DEF SkipFrame, Timer, frameVars, sendVars, levelVars, d2xxVars, linkVars,
              SendInv, Sending, FrameIsCurrent, FrameIsWhole, Live
<1>2. CASE BeginFrame
  <2>1. wire' = <<>> /\ since' = [i \in Channels |-> {dmx_data[i]}]
    BY <1>2 DEF BeginFrame, StartSending
  <2>2. wire' \in Seq({StartCode} \cup Bytes) /\ Len(wire') = 0 /\ DOMAIN wire' = {}
    BY <2>1
  <2>3. /\ since' \in [Channels -> SUBSET Bytes]
        /\ \A i \in Channels : dmx_data[i] \in since'[i]
    BY <2>1 DEF SendInv
  <2>4. /\ at' = "start" /\ s2' = Slots /\ copied' = 0 /\ pc' = "timer"
        /\ dmx_data' = dmx_data
    BY <1>2 DEF BeginFrame, StartSending, vars
  <2>5. ~short'
    BY <1>2, Zenon DEF BeginFrame, StartSending, SendInv
  <2> QED
    BY <2>1, <2>2, <2>3, <2>4, <2>5, DmxFrameAssumption
       DEF SendInv, Sending, FrameIsCurrent, FrameIsWhole
<1>3. CASE WriteStartCode
  <2>1. /\ at' = "data" /\ UNCHANGED <<s2, copied, pc, ports, dmxPointer, dmx_data, since>>
        /\ wire = <<>> /\ s2 = Slots /\ copied = 0 /\ ~short
        /\ pc = "timer" /\ \A i \in Channels : dmx_data[i] \in since[i]
    BY <1>3 DEF WriteStartCode, vars, d2xxVars, linkVars, levelVars, SendInv, Sending
  <2>2. CASE wire' = <<StartCode>> /\ ~short'
    <3>1. /\ wire' \in Seq({StartCode} \cup Bytes) /\ Len(wire') = 1
          /\ DOMAIN wire' = {1} /\ wire'[1] = StartCode
      BY <2>2
    <3> QED
      BY <2>1, <2>2, <3>1, DmxFrameAssumption
         DEF SendInv, Sending, FrameIsCurrent, FrameIsWhole
  <2>3. CASE wire' = wire /\ ~Live(dmxPointer) /\ ~short'
    BY <2>1, <2>3 DEF SendInv, Sending, FrameIsCurrent, FrameIsWhole, Live
  <2>4. CASE short' = TRUE
    BY <2>1, <2>4 DEF SendInv
  <2> QED
    BY <1>3, <2>1, <2>2, <2>3, <2>4 DEF WriteStartCode
<1>4. CASE CopyByte
  <2>1. CASE ~short
    BY <1>4, <2>1, CopyByteSends
  <2>2. CASE short
    BY <1>4, <2>2 DEF CopyByte, levelVars, vars, SendInv
  <2> QED
    BY <2>1, <2>2
<1>5. CASE EndWrite
  <2>1. /\ at = "data" /\ at' \in {"data", "break"}
        /\ UNCHANGED <<wire, pc, ports, dmxPointer, dmx_data, since>>
        /\ s2' = s2 - copied
        /\ s2' = 0 => at' = "break"
    BY <1>5 DEF EndWrite, WriteReturns, vars, d2xxVars, linkVars, levelVars, SendInv
  <2>2. CASE ~short' /\ Live(dmxPointer)
    <3>1. Sending /\ ~(copied < s2)
      BY <1>5, <2>2 DEF EndWrite, WriteReturns, SendInv
    <3>2. s2' = 0 /\ Len(wire) = Slots + 1
      BY <2>1, <2>2, <3>1, DmxFrameAssumption DEF Sending
    <3>3. ~short
      BY <1>5, <2>2 DEF EndWrite, WriteReturns
    <3> QED
      BY <2>1, <3>1, <3>2, <3>3 DEF SendInv, Sending, FrameIsCurrent, FrameIsWhole
  <2>3. CASE ~short' /\ ~Live(dmxPointer)
    <3>1. ~short
      BY <1>5, <2>3 DEF EndWrite, WriteReturns
    <3> QED
      BY <2>1, <2>3, <3>1 DEF SendInv, Sending, FrameIsCurrent, FrameIsWhole, Live
  <2>4. CASE short'
    BY <2>1, <2>4 DEF SendInv
  <2> QED
    BY <2>2, <2>3, <2>4
<1>6. CASE EndFrame
  <2>1. /\ wire' = <<>> /\ since' = [i \in Channels |-> {}]
        /\ at' = "idle" /\ dmx_data' = dmx_data
    BY <1>6 DEF EndFrame
  <2>3. ~short'
    BY <1>6, Zenon DEF EndFrame
  <2>2. wire' \in Seq({StartCode} \cup Bytes) /\ Len(wire') = 0 /\ DOMAIN wire' = {}
    BY <2>1
  <2> QED
    BY <2>1, <2>2, <2>3, DmxFrameAssumption
       DEF SendInv, Sending, FrameIsCurrent, FrameIsWhole
<1> QED
  BY <1>1, <1>2, <1>3, <1>4, <1>5, <1>6 DEF timer_action

(* A step that touches neither levels nor sending, revives no port, and    *)
(* moves the worker only between frames.                                   *)
LEMMA OthersSend ==
  ASSUME SendInv, UNCHANGED frameVars,
         \/ at = "idle"
         \/ UNCHANGED <<pc, dmxPointer>> /\ (Live(dmxPointer)' => Live(dmxPointer))
  PROVE  SendInv'
BY DEF SendInv, Sending, frameVars, sendVars, levelVars, FrameIsCurrent, FrameIsWhole

LEMMA FrameStepSends ==
  ASSUME TypeOK, FillInv, SendInv, [FrameNext]_allVars
  PROVE  SendInv'
<1>1. CASE timer_action
  BY <1>1, TimerSends
<1>2. CASE (Dispatch \/ ConnectPort \/ DisconnectPort \/ Rearm) /\ UNCHANGED frameVars
  <2>1. pc # "timer"
    BY <1>2 DEF Dispatch, Test, Clear, Rearm, ConnectPort, CountDevices, OpenPort,
                Configure, Publish, StartTimer, DisconnectPort, ClosePort, ForgetPort
  <2> QED
    BY <1>2, <2>1, OthersSend DEF SendInv
<1>3. CASE UsbBus /\ UNCHANGED frameVars
  <2>1. UNCHANGED <<pc, dmxPointer>>
    BY <1>3 DEF UsbBus, linkVars
  <2>2. Live(dmxPointer)' => Live(dmxPointer)
    BY <1>3, <2>1, D2xxAssumption
       DEF UsbBus, Bus, Plug, Unplug, Live, TypeOK, D2xxTypeOK
  <2> QED
    BY <1>3, <2>1, <2>2, OthersSend
<1>4. ASSUME NEW c \in Callers, FrameCaller(c)
      PROVE  SendInv'
  <2>1. CASE dmx_message(c)
    BY <2>1, SetChannelSends, DmxFrameAssumption DEF dmx_message, sendVars
  <2>2. CASE FillChannel(c)
    <3>1. filling[c] \in Int
      BY DEF FillInv
    <3> QED
      BY <2>2, <3>1, SetChannelSends, DmxFrameAssumption DEF FillChannel
  <2>3. CASE dmx_frame(c) \/ FrameFilled(c)
    BY <2>3 DEF dmx_frame, FrameFilled, sendVars, vars, d2xxVars, linkVars,
                SendInv, Sending, FrameIsCurrent, FrameIsWhole, Live
  <2>4. CASE Caller(c) /\ UNCHANGED frameVars
    BY <2>4, CallerFrame, OthersSend DEF linkVars, Live
  <2> QED
    BY <1>4, <2>1, <2>2, <2>3, <2>4 DEF FrameCaller
<1>5. CASE UNCHANGED allVars
  BY <1>5, OthersSend DEF allVars, vars, d2xxVars, linkVars, Live
<1> QED
  BY <1>1, <1>2, <1>3, <1>4, <1>5 DEF FrameNext, FrameWorker

LEMMA SendCorrect == FrameSpec => []SendInv
<1>1. FrameInit => TypeOK /\ FillInv /\ SendInv
  BY SendInit, FrameInitTypes
<1>2. TypeOK /\ FillInv /\ SendInv /\ [FrameNext]_allVars
        => (TypeOK /\ FillInv /\ SendInv)'
  BY FrameStepLinks, FrameStepSends
<1> QED
  BY <1>1, <1>2, PTL DEF FrameSpec

(* As long as no write of a frame falls short on a live port, the line     *)
(* carries the start code and then levels that their channels have had     *)
(* during the frame.                                                       *)
THEOREM FrameIsCurrentCorrect == FrameSpec => []FrameIsCurrent
<1>1. SendInv => FrameIsCurrent
  BY DEF SendInv, Sending, FrameIsCurrent
<1> QED
  BY <1>1, SendCorrect, PTL

(* And such a frame has all its slots when it ends on a live port.         *)
THEOREM FrameIsWholeCorrect == FrameSpec => []FrameIsWhole
<1>1. SendInv => FrameIsWhole
  BY DEF SendInv, Sending, FrameIsWhole
<1> QED
  BY <1>1, SendCorrect, PTL
=============================================================================
