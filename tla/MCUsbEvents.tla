---------------------------- MODULE MCUsbEvents -----------------------------
(* UsbEvents for TLC: a handler, a waiter and a closer can meet.           *)
EXTENDS UsbEvents

CONSTANTS a, b, c
=============================================================================
