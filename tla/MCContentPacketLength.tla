------------------------ MODULE MCContentPacketLength ------------------------
(* Six-bit arithmetic: the header takes 8 bytes and the slack 4, so that   *)
(* every length up to the largest, and the first ones too long, occur.     *)
EXTENDS ContentPacketLength
=============================================================================
