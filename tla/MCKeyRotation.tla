---------------------------- MODULE MCKeyRotation ----------------------------
(* A window of two bits that moves one at a time.  Identifiers are taken   *)
(* from two values only, so entries of all streams collide in the table.   *)
EXTENDS KeyRotation

CollidingKeystream(key, nonce, position) == position % 2
=============================================================================
