--------------------------- MODULE MCUsbTransfer ----------------------------
(* UsbTransfer for TLC: one transfer with short deadlines, one with long   *)
(* ones or none; or a single one with short ones or none.                  *)
EXTENDS UsbTransfer

CONSTANTS t1, t2

MCTimeouts == (t1 :> {1}) @@ (t2 :> {0, 2})
MCOneTimeouts == t1 :> {0, 1}
=============================================================================
