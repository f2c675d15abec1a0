-------------------------------- MODULE MCPanel --------------------------------
(* Two tasks that switch the output; or one, where nothing may cross on it, and *)
(* the HTTP task uploads at any moment, also between its look and its message.  *)
EXTENDS Panel

MCCallers == {"http", "actions"}
MCWriters == MCCallers \cup {"modbus", "telemetry", "worker"}

MCOneCaller == {"actions"}
MCFourWriters == MCOneCaller \cup {"modbus", "telemetry", "worker"}
MCTopics == {"output", "link", "frame"}
MCValues == {0, 1}
===============================================================================
