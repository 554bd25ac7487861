------------------------------- MODULE DmxPort ------------------------------
(***************************************************************************)
(* What class dm2xx promises about its USB port, without threads, mailbox  *)
(* or connect sequence: frames are sent on one open handle or on none, a   *)
(* handle is closed only when no frames are sent, and the transmitter      *)
(* moves from one handle to another only after it has stopped.             *)
(***************************************************************************)
CONSTANTS Handles, NULL

VARIABLES
  open,   (* the handles that are open in the library    *)
  tx      (* the handle that frames are sent on, or NULL *)

TypeOK == open \subseteq Handles /\ tx \in open \cup {NULL}

Init == open = {} /\ tx = NULL

Open(h)  == h \notin open /\ open' = open \cup {h} /\ UNCHANGED tx
Start(h) == h \in open /\ tx = NULL /\ tx' = h /\ UNCHANGED open
Stop     == tx' = NULL /\ UNCHANGED open
Close(h) == h \in open /\ tx \in {h, NULL} /\ tx' = NULL /\ open' = open \ {h}

Next == Stop \/ \E h \in Handles : Open(h) \/ Start(h) \/ Close(h)

Spec == Init /\ [][Next]_<<open, tx>>
=============================================================================
