---------------------------- MODULE MCTickAccounts ----------------------------
(* Three accounts, and one opcode of each kind: two operands, a tail call, *)
(* a single charge, a charge in parts, an inner formula and a body.        *)
EXTENDS TickAccounts

MCGrants == [a \in Accounts |-> IF a = "zero" THEN 3 ELSE 2]

MCOpcodes == {"LITERAL", "DISTRIBUTE", "IF", "ADD", "IS_EQUAL", "EXUCRYPT", "EXECUTE_AS"}
=============================================================================
