---------------------------- MODULE MCSerialPort ----------------------------
(* A handler, and two goroutines that log, beside the heartbeat; what is   *)
(* logged goes through the one writer of the logger.                       *)
EXTENDS SerialPort

MCClients  == {"heartbeat", "beatlog", "users", "log1", "log2"}
MCWriterOf == [c \in MCClients |-> IF c \in {"beatlog", "log1", "log2"} THEN "logger" ELSE c]
=============================================================================
