-------------------------------- MODULE D2xx --------------------------------
(***************************************************************************)
(* FTDI's D2XX driver library and the USB bus, the external partners of    *)
(* class dm2xx.  Only the library's binary is in the repository, so what   *)
(* is here is what src/dmxObjectD2xx.cpp relies on: a list of the attached *)
(* devices, handles that FT_Open gives out and FT_Close takes back, and    *)
(* calls that work only on the handle of a device that is still attached.  *)
(***************************************************************************)
EXTENDS Naturals, SequencesExt

CONSTANTS
  Devices,    (* the USB converters                                        *)
  Handles,    (* the FT_HANDLE values the library can give out             *)
  NULL,       (* the null FT_HANDLE                                        *)
  Closed,     (* the state of a handle that is not open                    *)
  Gone,       (* the state of an open handle whose device was pulled out   *)
  MaxFaults,  (* bound: how often a call may fail for no visible reason    *)
  Hotplug     (* whether devices come and go while the program runs        *)

ASSUME D2xxAssumption ==
  /\ IsFiniteSet(Devices)
  /\ NULL \notin Handles
  /\ Closed \notin Devices /\ Gone \notin Devices /\ Closed # Gone
  /\ MaxFaults \in Nat
  /\ Hotplug \in BOOLEAN

VARIABLES
  bus,     (* the attached devices, in the order FT_ListDevices counts them *)
  ports,   (* the library's handle table: what each handle is open on       *)
  faults   (* how many more spontaneous failures may happen                 *)

d2xxVars == <<bus, ports, faults>>

FT_OK    == "FT_OK"
FT_ERROR == "FT_ERROR"   \* any other FT_STATUS: the code tells no two apart

D2xxTypeOK ==
  /\ bus \in Seq(Devices)
  /\ ports \in [Handles -> Devices \cup {Closed, Gone}]
  /\ faults \in Nat

D2xxInit ==
  /\ \E attached \in SUBSET Devices : bus \in SetToSeqs(attached)
  /\ ports = [h \in Handles |-> Closed]
  /\ faults = MaxFaults

Fault == faults > 0 /\ faults' = faults - 1

-----------------------------------------------------------------------------
(* The calls, as relations of what the program passes, the status s that   *)
(* comes back, and the count n or handle h the call stores for it.         *)

(* FT_ListDevices(FT_LIST_NUMBER_ONLY): the number of attached devices.    *)
FT_ListDevices(s, n) ==
  \/ s = FT_OK /\ n = Len(bus) /\ UNCHANGED faults
  \/ s = FT_ERROR /\ n = 0 /\ Fault

CanOpen(idx, h) ==
  /\ idx + 1 \in DOMAIN bus
  /\ ports[h] = Closed
  /\ \A g \in Handles : ports[g] # bus[idx + 1]   \* one opener per device

FT_Open(idx, s, h) ==
  \/ /\ s = FT_OK
     /\ h \in Handles
     /\ CanOpen(idx, h)
     /\ ports' = [ports EXCEPT ![h] = bus[idx + 1]]
     /\ UNCHANGED faults
  \/ /\ s = FT_ERROR
     /\ h = NULL
     /\ \/ (\A g \in Handles : ~CanOpen(idx, g)) /\ UNCHANGED faults
        \/ Fault
     /\ UNCHANGED ports

Live(h) == h # NULL /\ ports[h] \in Devices

(* FT_SetBitMode, FT_SetBaudRate, FT_SetLatencyTimer, ...                  *)
FT_Set(h, s) ==
  \/ s = FT_OK /\ Live(h) /\ UNCHANGED faults
  \/ s = FT_ERROR /\ ~Live(h) /\ UNCHANGED faults
  \/ s = FT_ERROR /\ Fault

(* A failed FT_Close may or may not have given the handle back.            *)
FT_Close(h, s) ==
  \/ /\ s = FT_OK
     /\ ports[h] # Closed
     /\ ports' = [ports EXCEPT ![h] = Closed]
     /\ UNCHANGED faults
  \/ /\ s = FT_ERROR
     /\ ports[h] # Closed
     /\ Fault
     /\ ports' \in {ports, [ports EXCEPT ![h] = Closed]}
  \/ s = FT_ERROR /\ ports[h] = Closed /\ UNCHANGED <<ports, faults>>

-----------------------------------------------------------------------------
(* The bus: a device is plugged in anywhere in the list, or pulled out.    *)

Plug(d) ==
  /\ Hotplug
  /\ d \notin ToSet(bus)
  /\ \E i \in 1..Len(bus) + 1 : bus' = InsertAt(bus, i, d)
  /\ UNCHANGED <<ports, faults>>

Unplug(i) ==
  /\ Hotplug
  /\ bus' = RemoveAt(bus, i)
  /\ ports' = [h \in Handles |-> IF ports[h] = bus[i] THEN Gone ELSE ports[h]]
  /\ UNCHANGED faults

Bus == (\E d \in Devices : Plug(d)) \/ (\E i \in DOMAIN bus : Unplug(i))
=============================================================================
