--------------------------- MODULE MCProcessData ---------------------------
(* Settings for model checking ProcessData: one for every synchronisation   *)
(* mode StartInputHandler chooses, and one it refuses.                      *)
EXTENDS ProcessData

Plain == [unit |-> FALSE, sync0 |-> FALSE, sync1 |-> FALSE, cycle |-> 0, shift |-> 0,
          user |-> "none", mapped |-> FALSE, ack |-> FALSE]

FreeRun == [Plain EXCEPT !.user = "FREERUN"]
Dc0     == [Plain EXCEPT !.unit = TRUE, !.sync0 = TRUE, !.cycle = 1]
Dc1     == [Dc0 EXCEPT !.sync1 = TRUE, !.cycle = 2, !.shift = 1]
Sub     == [Dc1 EXCEPT !.cycle = 1]        \* subordinated Sync0 cycles
Invalid == [Sub EXCEPT !.sync0 = FALSE]

AllModes == {Plain, FreeRun, [Dc0 EXCEPT !.ack = TRUE], [Dc0 EXCEPT !.mapped = TRUE],
             Dc1, Sub, Invalid}
SmOnly   == {Plain, [Plain EXCEPT !.user = "SM"]}
=============================================================================
