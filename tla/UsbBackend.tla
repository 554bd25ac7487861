----------------------------- MODULE UsbBackend -----------------------------
(***************************************************************************)
(* What libusb/libusb/io.c relies on in a backend (the urb of UsbTransfer):*)
(* a request it accepted is answered once, a cancellation that succeeded   *)
(* is answered as such, and no other request is.                           *)
(***************************************************************************)
VARIABLES
  request,    (* "none", "queued", "done", or "discarded" (taken back)      *)
  answer,     (* the status that io.c is told, or "none"                    *)
  gone        (* the device was pulled out                                  *)

backendVars == <<request, answer, gone>>

Statuses == {"COMPLETED", "CANCELLED", "ERROR", "STALL", "OVERFLOW", "NO_DEVICE"}

Init == request = "none" /\ answer = "none" /\ gone \in BOOLEAN

(* Accepted, and perhaps not to be carried out to its end.                 *)
Accept ==
  /\ request = "none" /\ answer = "none"
  /\ request' \in {"queued", "done"}
  /\ UNCHANGED <<answer, gone>>

Finish ==
  /\ request = "queued"
  /\ request' = "done"
  /\ gone' \in {gone, TRUE} /\ UNCHANGED answer

Discard ==
  /\ request = "queued"
  /\ request' = "discarded"
  /\ UNCHANGED <<answer, gone>>

Answer(status) ==
  /\ status = "NO_DEVICE" => gone
  /\ \/ request = "discarded" /\ status \in {"CANCELLED", "NO_DEVICE"}
     \/ request \in {"queued", "done"} /\ status # "CANCELLED"
  /\ request' = "none"
  /\ answer' = status
  /\ UNCHANGED gone

Return ==
  /\ answer # "none"
  /\ answer' = "none"
  /\ UNCHANGED <<request, gone>>

Unplug == gone' = TRUE /\ UNCHANGED <<request, answer>>

Next == Accept \/ Finish \/ Discard \/ (\E s \in Statuses : Answer(s)) \/ Return \/ Unplug

Spec == Init /\ [][Next]_backendVars
=============================================================================
