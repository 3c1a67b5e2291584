-------------------------- MODULE MCApprovalBroker --------------------------
(***************************************************************************)
(* Approvals for TLC: three records of two keys, the second of which a     *)
(* remembered answer to the first one covers.                              *)
(***************************************************************************)
EXTENDS ApprovalBroker

CONSTANTS edit, write

Records == 1 .. 3
TwoKeys == [a \in Ask |-> IF a = 3 THEN write ELSE edit]
SameTool == [k \in Keys |-> Keys]
=============================================================================
