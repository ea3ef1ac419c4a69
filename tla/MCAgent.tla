------------------------------- MODULE MCAgent -------------------------------
(* Key streams for TLC: one where no two identifiers are equal, and one    *)
(* where all identifiers of the same parity are.                           *)
EXTENDS Agent

DistinctKeystream(key, nonce, position) == <<key, nonce, position>>

CollidingKeystream(key, nonce, position) == position % 2
=============================================================================
