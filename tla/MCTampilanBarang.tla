-------------------------- MODULE MCTampilanBarang --------------------------
(* Small instances of TampilanBarang for TLC.                               *)
EXTENDS TampilanBarang, TLC

CONSTANTS b1, b2, p1, p2
=============================================================================
