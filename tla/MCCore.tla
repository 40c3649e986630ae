------------------------------- MODULE MCCore -------------------------------
(* Instances of the core for TLC: each takes the instructions of one kind  *)
(* of dependency.                                                          *)
EXTENDS Core

Insn(op, rd, rs1, rs2) ==
  [NoInsn EXCEPT !.op = op, !.rd = rd, !.rs1 = rs1, !.rs2 = rs2]
Branch(rs1, rs2, imm) ==
  [NoInsn EXCEPT !.op = "branch", !.rs1 = rs1, !.rs2 = rs2, !.imm = imm]
CsrInsn(op, rd, id, rs1) ==
  [NoInsn EXCEPT !.op = op, !.rd = rd, !.csr = id, !.rs1 = rs1]

\* Values that pass through registers and memory.
DataInsns ==
  { Insn("add", 1, 1, 2), Insn("mul", 2, 1, 2), Insn("load", 1, 2, 0),
    Insn("load", 2, 1, 0), Insn("store", 0, 1, 2), Branch(1, 2, 0),
    Insn("jalr", 1, 1, 0) }

\* Enabling, disabling and taking timer interrupts, with every kind of wait
\* and redirect that can put one off.
IrqInsns ==
  { Insn("load", 1, 0, 0), Insn("mul", 1, 1, 1), Insn("jalr", 0, 1, 0),
    CsrInsn("csrrw", 1, "mstatus", 1), CsrInsn("csrrw", 0, "mie", 1),
    Insn("mret", 0, 0, 0), Insn("ecall", 0, 0, 0) }

\* Reading a CSR that an older instruction or trap changes.
CsrInsns ==
  { Insn("load", 1, 0, 0), CsrInsn("csrrw", 1, "mepc", 1),
    CsrInsn("csrrw", 0, "mtvec", 1), CsrInsn("csrr", 1, "minstret", 0),
    CsrInsn("csrrw", 0, "minstret", 1), CsrInsn("csrrw", 0, "mhartid", 1),
    Insn("mret", 0, 0, 0), Insn("jalr", 1, 1, 0), Branch(1, 0, W) }

LineLow == {FALSE}
LineAny == BOOLEAN
=============================================================================
