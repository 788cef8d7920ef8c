------------------------------- MODULE MCRisc -------------------------------
EXTENDS RiscCpu

(* The processor at a width of five bits, wide enough for the program in the *)
(* ROM.  Each opcode can also be set on the switches.                        *)
MCPowerUp == {[a \in 0 .. 31 |-> (7 * a + 3) % 32]}
MCSwitchable ==
  {Instr(1, 1, 2, 3), Instr(2, 2, 1, 1), Instr(3, 4, 1, 0), Instr(4, 4, 2, 4),
   Instr(5, 1, 1, 15), Instr(6, 4, 4, 1), Instr(7, 1, 1, 15), Instr(8, 0, 5, 9),
   Instr(9, 1, 6, 8), Instr(10, 4, 3, 12), Instr(13, 2, 2, 14), Instr(13, 1, 0, 3),
   Instr(15, 1, 2, 3), NOP}
MCSwitchAt == {0, 5, 12}
=============================================================================
