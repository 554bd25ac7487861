----------------------------- MODULE MCStartup ------------------------------
(* Startup for TLC: devices, handles, callers and objects are              *)
(* interchangeable.                                                        *)
EXTENDS Startup

Symmetry ==
  Permutations(Devices) \cup Permutations(Handles)
    \cup Permutations(Callers) \cup Permutations(Objects)
=============================================================================
