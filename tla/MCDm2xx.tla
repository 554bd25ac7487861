------------------------------ MODULE MCDm2xx -------------------------------
(* Dm2xx for TLC: devices, handles and callers are interchangeable.        *)
EXTENDS Dm2xx

Symmetry == Permutations(Devices) \cup Permutations(Handles) \cup Permutations(Callers)
=============================================================================
