----------------------------- MODULE UsbRequest -----------------------------
(***************************************************************************)
(* What libusb's asynchronous interface promises about a transfer: one     *)
(* answer for each accepted submission, and none that has no reason.       *)
(***************************************************************************)
EXTENDS Naturals

CONSTANT Transfers

VARIABLES
  pending,    (* the transfers the library has                              *)
  answer,     (* the status that a callback is being given, per transfer    *)
  cancelled,  (* the pending transfers whose cancellation was accepted      *)
  late,       (* the pending transfers whose deadline has passed            *)
  gone        (* the device was pulled out                                  *)

requestVars == <<pending, answer, cancelled, late, gone>>

Statuses == {"COMPLETED", "CANCELLED", "TIMED_OUT", "NO_DEVICE"}

Init ==
  /\ pending = {}
  /\ answer = [t \in Transfers |-> "none"]
  /\ cancelled = {} /\ late = {}
  /\ gone \in BOOLEAN

Submit(t) ==
  /\ t \notin pending /\ answer[t] = "none"
  /\ pending' = pending \cup {t}
  /\ late' \in {late, late \cup {t}}   \* its time may be up before it is accepted
  /\ UNCHANGED <<answer, cancelled, gone>>

Cancel(t) ==
  /\ t \in pending \ cancelled
  /\ cancelled' = cancelled \cup {t}
  /\ UNCHANGED <<pending, answer, late, gone>>

(* Deadlines pass, of any number of transfers at a time.                   *)
Pass(ts) ==
  /\ ts \subseteq pending
  /\ late' = late \cup ts
  /\ UNCHANGED <<pending, answer, cancelled, gone>>

Unplug == gone' = TRUE /\ UNCHANGED <<pending, answer, cancelled, late>>

(* The one answer: a cancelled transfer is not completed and not timed     *)
(* out, and nothing else is cancelled, timed out or without a device.      *)
Answer(t, status) ==
  /\ t \in pending
  /\ status = "NO_DEVICE" => gone
  /\ status = "TIMED_OUT" => t \in late
  /\ status # "NO_DEVICE" => (t \in cancelled <=> status = "CANCELLED")
  /\ pending' = pending \ {t}
  /\ answer' = [answer EXCEPT ![t] = status]
  /\ cancelled' = cancelled \ {t}
  /\ late' = late \ {t}
  /\ UNCHANGED gone

(* The callback begins; the transfer is its user's again.                  *)
Returned(t) ==
  /\ answer[t] # "none"
  /\ answer' = [answer EXCEPT ![t] = "none"]
  /\ UNCHANGED <<pending, cancelled, late, gone>>

Next ==
  \/ \E t \in Transfers : Submit(t) \/ Cancel(t) \/ Returned(t) \/ \E s \in Statuses : Answer(t, s)
  \/ \E ts \in SUBSET Transfers : Pass(ts)
  \/ Unplug

Spec == Init /\ [][Next]_requestVars
=============================================================================
