---------------------------- MODULE MCAccounting ----------------------------
(* An instance of Accounting for TLC.                                      *)
EXTENDS Accounting

(* In bytes of a Value: a syntax object has a value and its location.      *)
Sizes == [t \in Types |-> IF t = "SYNTAX" THEN 2 ELSE 1]
=============================================================================
