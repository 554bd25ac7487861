------------------------------- MODULE Startup ------------------------------
(***************************************************************************)
(* The start of the external: main() (src/dmx485.cpp) makes the one dm2xx, *)
(* whose constructor starts the worker thread before instance() has stored *)
(* dm2xx_obj, the pointer through which the worker finds the object.       *)
(***************************************************************************)
EXTENDS Dmx485

VARIABLES
  mainPc,     (* where main() is                                           *)
  dm2xx_obj,  (* dm2xx_obj is set                                          *)
  dmx1,       (* dmx1, the pointer the messages use, is set                *)
  mClass,     (* the object that the worker's messages are posted to is set *)
  thread      (* the worker: none yet, running, or stopped by a fault      *)

startVars == <<mainPc, dm2xx_obj, dmx1, mClass, thread>>
startAllVars == <<allVars, startVars>>

StartTypeOK ==
  /\ MaxTypeOK
  /\ mainPc \in {"construct", "instance", "assign", "class", "loaded"}
  /\ dm2xx_obj \in BOOLEAN /\ dmx1 \in BOOLEAN /\ mClass \in BOOLEAN
  /\ thread \in {"none", "running", "crashed"}

(* The class is registered; static memory is zero.                         *)
StartInit ==
  /\ MaxInit
  /\ mainPc = "construct"
  /\ dm2xx_obj = FALSE /\ dmx1 = FALSE /\ mClass = FALSE
  /\ thread = "none"

Main(from, next) == mainPc = from /\ mainPc' = next /\ UNCHANGED allVars

(* Mutant of Construct: the constructor asks for a connect by itself.      *)
ConstructAsking ==
  /\ mainPc = "construct" /\ mainPc' = "instance"
  /\ thread' = "running"
  /\ threadAction' = Connect
  /\ UNCHANGED <<d2xxVars, linkVars, deviceNumber, calling, pc, maxVars,
                 dm2xx_obj, dmx1, mClass>>

(* The constructor's last call, pthread_create; its result is not looked   *)
(* at, so that there may be no worker at all.                              *)
Construct ==
  /\ Main("construct", "instance")
  /\ thread' \in {"none", "running"}
  /\ UNCHANGED <<dm2xx_obj, dmx1, mClass>>

(* Mutant of Instance: the pointer is left null.                           *)
InstanceUnstored ==
  /\ Main("instance", "assign")
  /\ UNCHANGED <<dm2xx_obj, dmx1, mClass, thread>>

Instance ==
  /\ Main("instance", "assign")
  /\ dm2xx_obj' = TRUE
  /\ UNCHANGED <<dmx1, mClass, thread>>

Assign ==
  /\ Main("assign", "class")
  /\ dmx1' = TRUE
  /\ UNCHANGED <<dm2xx_obj, mClass, thread>>

SetClass ==
  /\ Main("class", "loaded")
  /\ mClass' = TRUE
  /\ UNCHANGED <<dm2xx_obj, dmx1, thread>>

main == Construct \/ Instance \/ Assign \/ SetClass

(* A read through a null pointer ends the process.                         *)
WorkerFaults ==
  /\ thread = "running" /\ ~dm2xx_obj
  /\ thread' = "crashed"
  /\ UNCHANGED <<allVars, mainPc, dm2xx_obj, dmx1, mClass>>

WorkerRuns ==
  /\ thread = "running" /\ dm2xx_obj
  /\ Worker
  /\ UNCHANGED <<maxVars, startVars>>

(* Max sends messages when main() has returned.                            *)
Messages ==
  /\ mainPc = "loaded"
  /\ \E c \in Callers : \/ MaxCaller(c)
                        \/ EnableStore(c) /\ UNCHANGED maxVars
  /\ UNCHANGED startVars

StartNext ==
  /\ thread # "crashed"
  /\ \/ main \/ WorkerFaults \/ WorkerRuns \/ Messages
     \/ UsbBus /\ UNCHANGED <<maxVars, startVars>>

StartSpec == StartInit /\ [][StartNext]_startAllVars

-----------------------------------------------------------------------------
(* Where the worker posts a message through mClass: the count, the open    *)
(* and the end of a connect, and the end of a disconnect.                  *)
Posts == pc \in {"count", "open", "publish", "stopped", "restarted"}

(* Once main() has the pointer that messages use, the worker can no longer *)
(* fault on its own, and when it posts, the object it posts to is set.     *)
StartIsSound ==
  /\ dmx1 => thread # "crashed"
  /\ Posts => mClass

(* Dmx485, which begins when main() has returned, leaves out nothing that  *)
(* the start can do to the link: the worker finds an empty mailbox.        *)
ObjectsSpec == MaxSpec
=============================================================================
