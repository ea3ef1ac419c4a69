--------------------------- MODULE MCDatagramStream ---------------------------
(* A window of 8 bits that moves 2 at a time and watches its top 4 bits:   *)
(* the proportions of 64, 8 and 16 with every boundary still distinct.     *)
EXTENDS DatagramStream
=============================================================================
