--------------------------- MODULE MCEventConsumers ---------------------------
(***************************************************************************)
(* The instance of EventConsumers that TLC checks.                          *)
(***************************************************************************)
EXTENDS EventConsumers

FewEvents == [s \in Streams |-> IF s = Executions THEN 2 ELSE 1]
===============================================================================
