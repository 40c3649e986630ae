-------------------------------- MODULE Isa --------------------------------
(***************************************************************************)
(* The architecture the core implements: one instruction, trap or timer    *)
(* interrupt at a time, on the program counter, the integer registers and  *)
(* the machine-mode CSRs.                                                  *)
(*                                                                         *)
(* A word is a number below W, and so is an instruction address: address a *)
(* stands for byte address 4a, so a word taken as a jump target, as mepc   *)
(* or as mtvec is aligned.  One register-register operation stands for     *)
(* the ALU, one for the multiplier and divider.  What memory answers a     *)
(* load, and which program runs, is arbitrary.                             *)
(***************************************************************************)
EXTENDS Integers

CONSTANTS
  W,            \* words and instruction addresses are the numbers below W
  NumRegs,      \* the registers x1 .. xNumRegs
  InstretMod    \* minstret counts modulo InstretMod

VARIABLES
  pc,    \* the address of the next instruction
  regs,  \* the integer registers; x0 is hardwired to zero
  csr    \* the machine-mode CSRs

arch == <<pc, regs, csr>>

Words   == 0 .. W - 1
RegIds  == 0 .. NumRegs
CsrIds  == {"mstatus", "mie", "mepc", "mtvec", "minstret", "mhartid", "unknown"}
Ops     == {"add", "mul", "load", "store", "branch", "jalr", "csrrw", "csrr",
            "mret", "ecall"}

\* imm is the offset of a branch; W stands for one that is not aligned.
InsnRecords == [op: Ops, rd: RegIds, rs1: RegIds, rs2: RegIds,
                csr: CsrIds, imm: 0 .. W]

CsrRecords == [mie: BOOLEAN, mpie: BOOLEAN, mtie: BOOLEAN,
               mepc: Words, mtvec: Words, minstret: 0 .. InstretMod - 1]

Causes == {"fetch", "illegal", "ecall", "misaligned", "access", "timer"}

Plus(a, b) == (a + b) % W

-----------------------------------------------------------------------------
(* Decoding.                                                               *)

IsCsrOp(i)   == i.op \in {"csrrw", "csrr"}
IsMemory(i)  == i.op \in {"load", "store"}
UsesRs1(i)   == i.op \in {"add", "mul", "load", "store", "branch", "jalr", "csrrw"}
UsesRs2(i)   == i.op \in {"add", "mul", "store", "branch"}
WritesReg(i) == i.op \in {"add", "mul", "load", "jalr", "csrrw", "csrr"}

\* "csrr" is CSRRS from x0, a read without a write.
WritesCsr(i) == i.op = "csrrw"

IllegalCsr(i) == /\ IsCsrOp(i)
                 /\ i.csr = "unknown" \/ (i.csr = "mhartid" /\ WritesCsr(i))

-----------------------------------------------------------------------------
(* Operations on words and CSRs.                                           *)

Bit(b) == IF b THEN 1 ELSE 0

\* MIE is bit 0 of mstatus and MPIE bit 1; MTIE is bit 0 of mie.
CsrRead(c, id) ==
  CASE id = "mstatus"  -> (Bit(c.mie) + 2 * Bit(c.mpie)) % W
    [] id = "mie"      -> Bit(c.mtie)
    [] id = "mepc"     -> c.mepc
    [] id = "mtvec"    -> c.mtvec
    [] id = "minstret" -> c.minstret % W
    [] OTHER           -> 0

CsrWrite(c, id, v) ==
  CASE id = "mstatus"  -> [c EXCEPT !.mie  = v % 2 = 1,
                                    !.mpie = (v \div 2) % 2 = 1]
    [] id = "mie"      -> [c EXCEPT !.mtie = v % 2 = 1]
    [] id = "mepc"     -> [c EXCEPT !.mepc = v]
    [] id = "mtvec"    -> [c EXCEPT !.mtvec = v]
    [] id = "minstret" -> [c EXCEPT !.minstret = v % InstretMod]
    [] OTHER           -> c

Count(c)           == [c EXCEPT !.minstret = (@ + 1) % InstretMod]
EnterTrap(c, from) == [c EXCEPT !.mepc = from, !.mpie = c.mie, !.mie = FALSE]
LeaveTrap(c)       == [c EXCEPT !.mie = c.mpie, !.mpie = TRUE]

Compute(i, a, b) == IF i.op = "mul" THEN (a * b) % W ELSE Plus(a, b)

Taken(i, a, b)      == i.op = "jalr" \/ (i.op = "branch" /\ a = b)
Misaligned(i, a, b) == Taken(i, a, b) /\ i.imm = W
Target(i, from, a)  == IF i.op = "jalr" THEN a ELSE Plus(from, i.imm)

-----------------------------------------------------------------------------
(* One step of the machine.                                                *)

Operand1(i) == regs[i.rs1]
Operand2(i) == regs[i.rs2]

\* The value instruction i writes to its rd; memory answered a load with v.
Written(i, v) ==
  CASE i.op = "load" -> v
    [] i.op = "jalr" -> Plus(pc, 1)
    [] IsCsrOp(i)    -> CsrRead(csr, i.csr)
    [] OTHER         -> Compute(i, Operand1(i), Operand2(i))

\* Instruction i completes.
Execute(i, v) ==
  /\ i.op # "ecall"
  /\ ~IllegalCsr(i)
  /\ ~Misaligned(i, Operand1(i), Operand2(i))
  /\ regs' = IF WritesReg(i) /\ i.rd # 0
               THEN [regs EXCEPT ![i.rd] = Written(i, v)] ELSE regs
  /\ pc' = IF i.op = "mret" THEN csr.mepc
           ELSE IF Taken(i, Operand1(i), Operand2(i))
             THEN Target(i, pc, Operand1(i)) ELSE Plus(pc, 1)
  /\ csr' = CASE i.op = "mret" -> Count(LeaveTrap(csr))
              [] WritesCsr(i) -> 
                   CsrWrite(IF i.csr = "minstret" THEN csr ELSE Count(csr),
                            i.csr, Operand1(i))
              [] OTHER -> Count(csr)

Trapped ==
  /\ pc'  = csr.mtvec
  /\ csr' = EnterTrap(csr, pc)
  /\ UNCHANGED regs

\* Instruction i, or fetching it, raises an exception instead.
Except(i, cause) ==
  /\ \/ cause = "fetch"
     \/ cause = "ecall"      /\ i.op = "ecall"
     \/ cause = "illegal"    /\ IllegalCsr(i)
     \/ cause = "misaligned" /\ Misaligned(i, Operand1(i), Operand2(i))
     \/ cause = "access"     /\ IsMemory(i)
  /\ Trapped

\* The timer interrupts between two instructions, if software lets it.
Interrupt ==
  /\ csr.mie /\ csr.mtie
  /\ Trapped
=============================================================================
