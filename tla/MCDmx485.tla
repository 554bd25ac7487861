------------------------------ MODULE MCDmx485 ------------------------------
(* Dmx485 for TLC: one module for its runs; their constants differ.        *)
EXTENDS Dmx485
=============================================================================
