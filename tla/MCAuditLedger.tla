--------------------------- MODULE MCAuditLedger ---------------------------
(* Instances of AuditLedger for TLC. *)
EXTENDS AuditLedger

CONSTANTS c1, c2, v1, f1, f2

\* Every process of one host writes the same anchor file.
OneFile == [p \in Proc |-> f1]

\* Two hosts: the second daemon has a file of its own.
TwoFiles == [p \in Proc |-> IF p = c2 THEN f2 ELSE f1]
=============================================================================
