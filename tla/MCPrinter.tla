----------------------------- MODULE MCPrinter -----------------------------
(* Printer with a file that heats the bed, heats the nozzle and moves, and  *)
(* queues of one command, for TLC.                                          *)
EXTENDS Printer

HeatAndMove == <<"bed", "heat", "M108", "move", "move">>
=============================================================================
