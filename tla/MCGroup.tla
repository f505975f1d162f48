------------------------------ MODULE MCGroup ------------------------------
(***************************************************************************)
(* A small instance of the consumer group for TLC.                         *)
(***************************************************************************)
EXTENDS Group

MCRowCount == [k \in Payloads |-> IF k = "undecodable" THEN 0 ELSE 1]
=============================================================================
