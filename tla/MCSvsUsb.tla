------------------------------ MODULE MCSvsUsb ------------------------------
(* SVSs that differ in their number of inputs *)
EXTENDS SvsUsb

OneOrTwo == [s \in SVS |-> IF s = "a" THEN 1 ELSE 2]
=============================================================================
