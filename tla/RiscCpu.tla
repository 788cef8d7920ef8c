------------------------------ MODULE RiscCpu ------------------------------
(***************************************************************************)
(* The single-cycle 8-bit processor: Main.v with its control unit, ALU,    *)
(* register file, memories and program counter.  Between two edges the     *)
(* wires are functions of the registers and of the board's switches; one   *)
(* action is one rising edge of the clock.  The registers and the memory   *)
(* have no reset and start with arbitrary contents.                        *)
(***************************************************************************)
EXTENDS Integers, Sequences, Bitwise

CONSTANTS Width,        \* bits of a word and of an address
          RegBits,      \* bits of a register number, and of an immediate
          PowerUp,      \* contents registers and memory may start with
          Switchable,   \* instructions the switches may show
          SwitchAt,     \* bound: at which addresses they are set
          MaxSwitched   \* bound: edges that take the instruction from them

ASSUME RiscAssumption ==
  Width \in Nat /\ RegBits \in 1 .. Width /\ MaxSwitched \in Nat

Words == 2 ^ Width
Word == 0 .. Words - 1
RegNums == 0 .. 2 ^ RegBits - 1

Instr(op, a1, a2, a3) == [op |-> op, a1 |-> a1, a2 |-> a2, a3 |-> a3]
NOP == Instr(0, 0, 0, 0)

VARIABLES rst, swt_en, Swt_Inst, \* the switches
          switched,              \* edges that took the instruction from them
          pcReg, registerfile, datamem

panel == <<rst, swt_en, Swt_Inst>>
riscVars == <<panel, switched, pcReg, registerfile, datamem>>

RiscInit ==
  /\ rst = TRUE /\ swt_en = FALSE /\ Swt_Inst = NOP /\ switched = 0
  /\ pcReg = 0
  /\ \E fill \in PowerUp : /\ registerfile = [r \in RegNums |-> fill[r]]
                           /\ datamem = [a \in Word |-> fill[a]]

-----------------------------------------------------------------------------
(* The combinational parts *)

(* rom.v: addi, subi, store, load, add, sub, stori, loadi, shl, shr, and, or, *)
(* a conditional jump, and NOP from there on.                                *)
Program == <<Instr(7, 0, 1, 7), Instr(8, 1, 2, 2), Instr(10, 0, 2, 0), Instr(9, 0, 3, 0),
             Instr(1, 1, 2, 4), Instr(2, 4, 2, 5), Instr(12, 0, 5, 1), Instr(11, 0, 6, 1),
             Instr(5, 4, 7, 3), Instr(6, 4, 8, 2), Instr(3, 4, 1, 9), Instr(4, 4, 2, 10),
             Instr(13, 6, 5, 7)>>
rom(addr) == IF addr < Len(Program) THEN Program[addr + 1] ELSE NOP

(* Control.v: the control word of each opcode. *)
Ctl(rw, rd, src, alu, br, mw, mtr) ==
  [RegWrite |-> rw, RegDst |-> rd, ALUSrc |-> src, ALUControl |-> alu,
   Branch |-> br, MemWrite |-> mw, MemtoReg |-> mtr]

Control(opcode) ==
  CASE opcode = 1 -> Ctl(1, 1, 0, 1, 0, 0, 0)             \* ADD
    [] opcode = 2 -> Ctl(1, 1, 0, 2, 0, 0, 0)             \* SUB
    [] opcode = 3 -> Ctl(1, 1, 0, 3, 0, 0, 0)             \* AND
    [] opcode = 4 -> Ctl(1, 1, 0, 2, 0, 0, 0)             \* OR by its comment, the word is SUB's
    [] opcode = 5 -> Ctl(1, 0, 1, 5, 0, 0, 0)             \* left shift
    [] opcode = 6 -> Ctl(1, 0, 1, 6, 0, 0, 0)             \* right shift
    [] opcode = 7 -> Ctl(1, 0, 1, 1, 0, 0, 0)             \* ADDI
    [] opcode = 8 -> Ctl(1, 0, 1, 2, 0, 0, 0)             \* SUBI
    [] opcode \in {9, 11} -> Ctl(1, 0, 1, 1, 0, 0, 1)     \* loads
    [] opcode \in {10, 12} -> Ctl(0, 0, 1, 1, 0, 1, 0)    \* stores
    [] opcode = 13 -> Ctl(0, 0, 0, 2, 1, 0, 0)            \* jump
    [] OTHER -> Ctl(0, 0, 0, 0, 0, 0, 0)                  \* NOP

mux(sel, in1, in2) == IF sel = 1 THEN in2 ELSE in1

(* Mutant: the carry of a sum is kept. *)
AluKeepsCarry(in1, in2, sel) ==
  CASE sel = 1 -> in1 + in2
    [] sel = 2 -> (in1 - in2) % Words
    [] OTHER -> 0

Alu(in1, in2, sel) ==
  CASE sel = 1 -> (in1 + in2) % Words
    [] sel = 2 -> (in1 - in2) % Words
    [] sel = 3 -> in1 & in2
    [] sel = 4 -> in1 | in2
    [] sel = 5 -> IF in2 >= Width THEN 0 ELSE (in1 * 2 ^ in2) % Words
    [] sel = 6 -> IF in2 >= Width THEN 0 ELSE in1 \div 2 ^ in2
    [] sel = 7 -> Words - 1 - in1
    [] OTHER -> 0

(* Mutant: the sign is taken from the next bit. *)
signExtndLower(a3) == IF a3 >= 2 ^ (RegBits - 2) THEN Words - 2 ^ RegBits + a3 ELSE a3

signExtnd(a3) == IF a3 >= 2 ^ (RegBits - 1) THEN Words - 2 ^ RegBits + a3 ELSE a3

Instct == IF swt_en THEN Swt_Inst ELSE rom(pcReg)
ctl == Control(Instct.op)
RD1 == registerfile[Instct.a1]
RD2 == registerfile[Instct.a2]
AWrite == mux(ctl.RegDst, Instct.a2, Instct.a3)
Alu_out == Alu(RD1, mux(ctl.ALUSrc, RD2, signExtnd(Instct.a3)), ctl.ALUControl)
DataIn_w == mux(ctl.MemtoReg, Alu_out, datamem[Alu_out])
PCPlus1 == (pcReg + 1) % Words
PCSourse == IF ctl.Branch = 1 /\ Alu_out = 0 THEN 1 ELSE 0
PCprime == mux(PCSourse, PCPlus1, (signExtnd(Instct.a3) + PCPlus1) % Words)

-----------------------------------------------------------------------------
(* The rising edge.  Reset holds the program counter only: the instruction   *)
(* at address 0 is carried out on each edge meanwhile.                       *)

(* Mutant: what is written to register 0 stays. *)
ClockKeepsZero ==
  /\ pcReg' = IF rst THEN 0 ELSE PCprime
  /\ registerfile' = IF ctl.RegWrite = 1 THEN [registerfile EXCEPT ![AWrite] = DataIn_w]
                     ELSE registerfile
  /\ datamem' = IF ctl.MemWrite = 1 THEN [datamem EXCEPT ![Alu_out] = RD2] ELSE datamem
  /\ swt_en => switched < MaxSwitched
  /\ switched' = IF swt_en THEN switched + 1 ELSE switched
  /\ UNCHANGED panel

Clock ==
  /\ pcReg' = IF rst THEN 0 ELSE PCprime
  /\ registerfile' =
       LET written == IF ctl.RegWrite = 1 THEN [registerfile EXCEPT ![AWrite] = DataIn_w]
                      ELSE registerfile
       IN [written EXCEPT ![0] = 0]
  /\ datamem' = IF ctl.MemWrite = 1 THEN [datamem EXCEPT ![Alu_out] = RD2] ELSE datamem
  /\ swt_en => switched < MaxSwitched   \* the bound
  /\ switched' = IF swt_en THEN switched + 1 ELSE switched
  /\ UNCHANGED panel

SetReset ==
  /\ rst' = ~rst
  /\ pcReg' = IF rst' THEN 0 ELSE pcReg
  /\ UNCHANGED <<swt_en, Swt_Inst, switched, registerfile, datamem>>

UseSwitches ==
  /\ switched < MaxSwitched /\ ~swt_en /\ pcReg \in SwitchAt
  /\ swt_en' = TRUE /\ Swt_Inst' \in Switchable
  /\ UNCHANGED <<rst, switched, pcReg, registerfile, datamem>>

ReleaseSwitches ==
  /\ swt_en /\ swt_en' = FALSE /\ Swt_Inst' = NOP
  /\ UNCHANGED <<rst, switched, pcReg, registerfile, datamem>>

RiscNext == Clock \/ SetReset \/ UseSwitches \/ ReleaseSwitches
RiscSpec == RiscInit /\ [][RiscNext]_riscVars /\ WF_riscVars(Clock)

-----------------------------------------------------------------------------
(* Properties *)

(* The types of the variables. *)
RiscTypeOK ==
  /\ rst \in BOOLEAN /\ swt_en \in BOOLEAN /\ switched \in 0 .. MaxSwitched
  /\ pcReg \in Word
  /\ registerfile \in [RegNums -> Word] /\ datamem \in [Word -> Word]

(* What the instruction of each opcode does by the names that Control.v:29-42 *)
(* and rom.v:24-37 give them, in terms of registers and memory.               *)
Effect(in) ==
  LET rs == registerfile[in.a1]
      rt == registerfile[in.a2]
      imm == signExtnd(in.a3)
      at == (rs + imm) % Words
      Shift(x, up) == IF imm >= Width THEN 0
                      ELSE IF up THEN (x * 2 ^ imm) % Words ELSE x \div 2 ^ imm
      Set(r, v) == [reg |-> r, val |-> v, addr |-> {}, jump |-> FALSE]
      Nothing == Set(0, 0)
  IN CASE in.op = 1 -> Set(in.a3, (rs + rt) % Words)                \* ADD
       [] in.op = 2 -> Set(in.a3, (rs - rt) % Words)                \* SUB
       [] in.op = 3 -> Set(in.a3, rs & rt)                          \* AND
       [] in.op = 4 -> Set(in.a3, rs | rt)                          \* OR
       [] in.op = 5 -> Set(in.a2, Shift(rs, TRUE))                  \* LFT Shift
       [] in.op = 6 -> Set(in.a2, Shift(rs, FALSE))                 \* RT Shift
       [] in.op = 7 -> Set(in.a2, at)                               \* ADDI
       [] in.op = 8 -> Set(in.a2, (rs - imm) % Words)               \* SUBI
       [] in.op \in {9, 11} -> Set(in.a2, datamem[at])              \* LD
       [] in.op \in {10, 12} -> [Nothing EXCEPT !.addr = {at}]      \* Store
       [] in.op = 13 -> [Nothing EXCEPT !.jump = (rs = rt)]         \* Jump
       [] OTHER -> Nothing                                          \* NOP

(* Registers and memory are as the effect e leaves them, and the counter is   *)
(* at the next instruction.  What follows the last address is left open.      *)
Offset(a3) == IF a3 >= 2 ^ (RegBits - 1) THEN a3 - 2 ^ RegBits ELSE a3
Performs(in, e) ==
  /\ registerfile' = [r \in RegNums |-> IF r = 0 THEN 0 ELSE IF r = e.reg THEN e.val ELSE registerfile[r]]
  /\ datamem' = [a \in Word |-> IF a \in e.addr THEN registerfile[in.a2] ELSE datamem[a]]
  /\ LET next == IF rst THEN 0 ELSE pcReg + 1 + (IF e.jump THEN Offset(in.a3) ELSE 0)
     IN next \in Word => pcReg' = next

OR == 4

(* Control.v:29-43, Main.v:21-81: through all the multiplexers, every edge    *)
(* carries out the instruction that is presented, by its name, from the ROM   *)
(* or from the switches, with reset held or not, and register 0 reads as zero *)
(* after it.  Of OR it says which register is written and that nothing else   *)
(* is; what is written there is the question of OrOrs.                        *)
EveryEdgeExecutes ==
  [][panel' = panel =>
       LET e == Effect(Instct)
       IN IF Instct.op = OR THEN \E v \in Word : Performs(Instct, [e EXCEPT !.val = v])
          ELSE Performs(Instct, e)]_riscVars

(* Control.v:33 names opcode 4 OR, rom.v:35 programs OR R10, R4, R2 with it,  *)
(* and alu.v:46 has an OR: the instruction writes the bits of either register. *)
OrOrs == [][panel' = panel /\ Instct.op = OR => Performs(Instct, Effect(Instct))]_riscVars

(* Readme.txt:8-9: after the complete instruction memory the processor stops, *)
(* and to start it from address 0 you have to reset.                          *)
RestartsByResetOnly == [][pcReg # 0 /\ pcReg' = 0 /\ ~swt_en => rst']_riscVars

(* PC_reg.v:25-31: with the clock running and neither reset nor the switches  *)
(* in use, the counter reaches the end of the memory: the jump cannot loop.   *)
ProgramEnds == []<>(pcReg = Words - 1 \/ rst \/ swt_en)
=============================================================================
