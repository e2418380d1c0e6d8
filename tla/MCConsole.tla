------------------------------ MODULE MCConsole ------------------------------
(* The console and the clock with two CPUs and two processes: one reads from  *)
(* the console, the other writes to it, sleeps, asks for the time and kills   *)
(* the reader.                                                                *)
EXTENDS Console

MCLocks == {"cons", "ptable", "tickslock"}
MCChans == {"input.r", "ticks"}
MCTyped == {"x", "CR", "EOF", "^H", "^U", "^P"}
MCCalls ==
  [p \in Procs |-> IF p = 3 THEN {<<"read", 2>>}
                    ELSE {<<"write">>, <<"sleep", 1>>, <<"uptime">>, <<"kill", 3>>}]
=============================================================================
