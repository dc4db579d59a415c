---------------------------- MODULE MCLocalClient ----------------------------
(* An instance of LocalClient for TLC: more requests than a batch holds, and    *)
(* more in a batch than slots.                                                  *)
EXTENDS LocalClient
CONSTANTS r1, r2, r3, r4
=============================================================================
