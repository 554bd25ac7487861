------------------------------ MODULE MCUsbfs -------------------------------
(* Usbfs for TLC: an old kernel, one that splits, and one that does not.   *)
EXTENDS Usbfs

MCCaps == {{}, {"CONTINUATION"}, {"SCATTER", "REAP"}, {"CONTINUATION", "REAP"}, {"NO_LIMIT"}}
MCOldKernel == {{}}
=============================================================================
