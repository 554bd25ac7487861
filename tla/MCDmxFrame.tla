----------------------------- MODULE MCDmxFrame -----------------------------
(* DmxFrame for TLC: two slots, one-bit levels, eight-valued channels.     *)
(* Numbers below zero, past the slots and past both widths are sent.       *)
EXTENDS DmxFrame

MCLongs == {-1, 1, 2, 8}
=============================================================================
