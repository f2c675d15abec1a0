------------------------------- MODULE MCModbus -------------------------------
(* Two output nodes on one pair; a table uses both of them or none.       *)
EXTENDS ModbusReconciler

CONSTANTS dark, lit

MCTables == {{1, 2}, {}}
===============================================================================
