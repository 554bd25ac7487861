------------------------------- MODULE DmxFrame -----------------------------
(***************************************************************************)
(* The light levels of class dm2xx: the threads of Max store them in       *)
(* dmx_data one byte at a time (set_channel, called by the messages list   *)
(* and frame) while timer_action() sends the array to the port.  This      *)
(* opens up the Timer step of Dm2xx.                                       *)
(***************************************************************************)
EXTENDS Dm2xx

CONSTANTS
  Slots,        (* 512, the length of dmx_data                             *)
  UIntMod,      (* 2^32: set_channel takes the channel as an unsigned int  *)
  ByteMod,      (* 256: and the value as an unsigned char                  *)
  Fuse,         (* 10, the writes that a frame may take                    *)
  Longs,        (* the numbers in messages                                 *)
  MaxArgs,      (* bound on the length of a frame message                  *)
  StartCode,    (* the zero that is sent before the slots                  *)
  Foreign       (* a byte of memory that is none of those modelled         *)

Bytes == 0..ByteMod - 1
Channels == 0..Slots - 1

ASSUME DmxFrameAssumption ==
  /\ Slots \in Nat \ {0} /\ UIntMod \in Nat /\ UIntMod > Slots
  /\ ByteMod \in Nat \ {0} /\ Bytes \subseteq DeviceNumbers
  /\ Fuse \in Nat \ {0} /\ MaxArgs \in Nat
  /\ Longs \subseteq Int

VARIABLES
  dmx_data,  (* the levels                                                 *)
  filling,   (* per caller: the next channel of a frame message, or -1     *)
  at,        (* where timer_action() is                                    *)
  s2,        (* local of timer_action(): the bytes left to write           *)
  fuse,      (* local of timer_action(): the writes left                   *)
  copied,    (* the bytes that the current FT_Write has taken              *)
  wire,      (* history: what the frame has put on the line                *)
  short,     (* history: a write of the frame fell short on a live port    *)
  since      (* history: the levels of each channel since the frame began  *)

sendVars == <<at, s2, fuse, copied, wire, short>>
levelVars == <<dmx_data, filling, since>>
frameVars == <<sendVars, levelVars>>
allVars == <<vars, frameVars>>

FrameTypeOK ==
  /\ TypeOK
  /\ dmx_data \in [Channels -> Bytes]
  /\ filling \in [Callers -> -1..MaxArgs]
  /\ at \in {"idle", "start", "data", "break"}
  /\ s2 \in 0..Slots /\ fuse \in 0..Fuse /\ copied \in 0..s2
  /\ wire \in Seq({StartCode, Foreign} \cup Bytes \cup DeviceNumbers)
  /\ short \in BOOLEAN
  /\ since \in [Channels -> SUBSET Bytes]

FrameInit ==
  /\ Init
  /\ dmx_data = [i \in Channels |-> 0]
  /\ filling = [c \in Callers |-> -1]
  /\ at = "idle" /\ s2 = 0 /\ fuse = 0 /\ copied = 0
  /\ wire = <<>> /\ short = FALSE
  /\ since = [i \in Channels |-> {}]

-----------------------------------------------------------------------------
(* set_channel() tests channel < 513: one past the array is deviceNumber,  *)
(* the next member of the class, a byte as well.                           *)

(* Mutant of set_channel: the value is stored without being narrowed.      *)
set_channel_wide(channel, value) ==
  LET i == channel % UIntMod
  IN  /\ dmx_data' = IF i < Slots THEN [dmx_data EXCEPT ![i] = value] ELSE dmx_data
      /\ deviceNumber' = IF i = Slots THEN value ELSE deviceNumber
      /\ UNCHANGED <<d2xxVars, linkVars, pc, threadAction, calling, since>>

set_channel(channel, value) ==
  LET i == channel % UIntMod
      v == value % ByteMod
  IN  /\ dmx_data' = IF i < Slots THEN [dmx_data EXCEPT ![i] = v] ELSE dmx_data
      /\ since' = IF i < Slots /\ at # "idle"
                  THEN [since EXCEPT ![i] = @ \cup {v}] ELSE since
      /\ deviceNumber' = IF i = Slots THEN v ELSE deviceNumber
      /\ UNCHANGED <<d2xxVars, linkVars, pc, threadAction, calling>>

Free(c) == calling[c] = "idle" /\ filling[c] = -1

(* The message list: channel and value.                                    *)
dmx_message(c) ==
  /\ Free(c)
  /\ \E channel, value \in Longs : set_channel(channel, value)
  /\ UNCHANGED <<sendVars, filling>>

(* The message frame: one level after the other, from channel 0.           *)
dmx_frame(c) ==
  /\ Free(c)
  /\ filling' = [filling EXCEPT ![c] = 0]
  /\ UNCHANGED <<vars, sendVars, dmx_data, since>>

FillChannel(c) ==
  /\ filling[c] \in 0..MaxArgs - 1
  /\ \E value \in Longs : set_channel(filling[c], value)
  /\ filling' = [filling EXCEPT ![c] = @ + 1]
  /\ UNCHANGED sendVars

FrameFilled(c) ==
  /\ filling[c] # -1
  /\ filling' = [filling EXCEPT ![c] = -1]
  /\ UNCHANGED <<vars, sendVars, dmx_data, since>>

FrameCaller(c) ==
  \/ dmx_message(c) \/ dmx_frame(c) \/ FillChannel(c) \/ FrameFilled(c)
  \/ filling[c] = -1 /\ Caller(c) /\ UNCHANGED frameVars

-----------------------------------------------------------------------------
(* timer_action()                                                          *)

(* There is no port to send to: the timer does nothing.                    *)
SkipFrame ==
  at = "idle" /\ ~Transmitting /\ Timer /\ UNCHANGED frameVars

StartSending(size) ==
  /\ pc = "timer" /\ at = "idle" /\ Transmitting
  /\ at' = "start"
  /\ s2' = size /\ fuse' = Fuse /\ copied' = 0
  /\ wire' = <<>>
  /\ since' = [i \in Channels |-> {dmx_data[i]}]
  /\ UNCHANGED <<vars, dmx_data, filling, short>>

(* Mutant of BeginFrame: the last slot is left out.                        *)
BeginShortFrame == StartSending(Slots - 1)

BeginFrame == StartSending(Slots)

(* The result of writing the start code is not looked at.                  *)
WriteStartCode ==
  /\ at = "start"
  /\ \/ Live(dmxPointer) /\ wire' = <<StartCode>> /\ UNCHANGED short
     \/ short' = (short \/ Live(dmxPointer)) /\ UNCHANGED wire
  /\ at' = "data"
  /\ UNCHANGED <<vars, levelVars, s2, fuse, copied>>

(* &dmx_data + n is n arrays, not n bytes, past the start of the array.    *)
WriteAddress == (Slots - s2) * Slots

(* Mutant of ByteAt: the slots are taken to count from one.                *)
ByteAfter(address) ==
  IF address + 1 < Slots THEN dmx_data[address + 1] ELSE Foreign

ByteAt(address) ==
  CASE address < Slots -> dmx_data[address]
    [] address = Slots -> deviceNumber
    [] OTHER           -> Foreign

(* FT_Write(dmxPointer, &dmx_data + (s2_init - s2), s2, &bytesWritten)     *)
(* takes the bytes from memory while the callers write there.              *)
CopyByte ==
  /\ at = "data" /\ copied < s2
  /\ Live(dmxPointer)
  /\ wire' = Append(wire, ByteAt(WriteAddress + copied))
  /\ copied' = copied + 1
  /\ UNCHANGED <<vars, levelVars, at, s2, fuse, short>>

(* FT_Write returns, in time or not: some bytes are left, and some writes. *)
WriteReturns(left, writes) ==
  /\ at = "data"
  /\ short' = (short \/ (copied < s2 /\ Live(dmxPointer)))
  /\ s2' = left
  /\ fuse' = writes
  /\ copied' = 0
  /\ at' = IF s2' = 0 \/ fuse' = 0 THEN "break" ELSE "data"
  /\ UNCHANGED <<vars, levelVars, wire>>

(* Mutant of EndWrite: no write is counted.                                *)
EndWriteUncounted == WriteReturns(s2 - copied, fuse)

EndWrite == WriteReturns(s2 - copied, fuse - 1)

EndFrame ==
  /\ at = "break"
  /\ Timer
  /\ at' = "idle" /\ s2' = 0 /\ fuse' = 0 /\ copied' = 0
  /\ wire' = <<>> /\ short' = FALSE
  /\ since' = [i \in Channels |-> {}]
  /\ UNCHANGED <<dmx_data, filling>>

timer_action ==
  SkipFrame \/ BeginFrame \/ WriteStartCode \/ CopyByte \/ EndWrite \/ EndFrame

-----------------------------------------------------------------------------
FrameWorker ==
  \/ timer_action
  \/ (Dispatch \/ ConnectPort \/ DisconnectPort \/ Rearm) /\ UNCHANGED frameVars

FrameNext ==
  \/ FrameWorker
  \/ UsbBus /\ UNCHANGED frameVars
  \/ \E c \in Callers : FrameCaller(c)

FrameSpec == FrameInit /\ [][FrameNext]_allVars
FrameFairSpec == FrameSpec /\ WF_allVars(FrameWorker)

-----------------------------------------------------------------------------
(* What goes on the line is the start code and then, slot by slot, a level *)
(* that the slot's channel has had since the frame began, however the      *)
(* callers write while the frame is sent and the port goes away.  (After a *)
(* write that fell short the rest comes from a wrong address.)             *)
FrameIsCurrent ==
  ~short => \A i \in DOMAIN wire :
              IF i = 1 THEN wire[i] = StartCode ELSE wire[i] \in since[i - 2]

(* A frame on a port that stays alive and takes every write has all its    *)
(* slots when it ends.                                                     *)
FrameIsWhole ==
  at = "break" /\ Live(dmxPointer) /\ ~short => Len(wire) = Slots + 1

(* Sending a frame and storing levels is, for the link, the timer's step   *)
(* and at most the selection of another device.                            *)
LinkSpec == Spec

(* Every turn of the worker ends, also when the port takes no byte, or     *)
(* fewer than it is given in every write.                                  *)
FrameEnds == pc = "timer" ~> pc = "test1"
=============================================================================
