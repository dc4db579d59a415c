------------------------------ MODULE MCFleet -------------------------------
(* An instance of Fleet for TLC: more requests than one pull takes.           *)
EXTENDS Fleet
CONSTANTS r1, r2, r3
=============================================================================
