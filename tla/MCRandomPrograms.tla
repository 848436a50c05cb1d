-------------------------- MODULE MCRandomPrograms --------------------------
(* Instances of RandomPrograms: short programs over few draws.             *)
EXTENDS RandomPrograms

NoPrograms == {}
SomeImms   == {-1, 2047}
=============================================================================
