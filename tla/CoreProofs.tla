----------------------------- MODULE CoreProofs -----------------------------
(* Proofs that the pipelined core implements the architecture, for every   *)
(* word size, register file, set of instructions and behaviour of the      *)
(* timer's line.                                                           *)
(*                                                                         *)
(* The idea: the architectural state between two packets in flight is a    *)
(* function of the pipeline.  The register and CSR files hold the state    *)
(* before MEM/WB; what MEM/WB leaves (RegsAfter, CsrAfter) is the state    *)
(* before EX/MEM.  Each packet is right about the state before it.         *)
EXTENDS Core, TLAPS

-----------------------------------------------------------------------------
(* The inductive invariant.                                                *)

\* The registers and CSRs as packet p leaves them.
RegsAfter(p, f) == [r \in I!RegIds |-> IF Produces(p, r) THEN p.value ELSE f[r]]

CsrAfter(p, c) ==
  IF Trap(p)                       THEN I!EnterTrap(c, p.pc)
  ELSE IF ~p.valid                 THEN c
  ELSE IF p.insn.op = "mret"       THEN I!Count(I!LeaveTrap(c))
  ELSE IF ~I!WritesCsr(p.insn)     THEN I!Count(c)
  ELSE IF p.insn.csr = "minstret"  THEN I!CsrWrite(c, "minstret", p.data)
  ELSE I!CsrWrite(I!Count(c), p.insn.csr, p.data)

regs_mem == RegsAfter(mem_wb, regs)
csr_mem  == CsrAfter(mem_wb, csr)

\* What the instruction of packet p does when the registers hold f and the
\* CSRs c: whether it completes, what it writes and where it goes.
Completes(p, f) ==
  /\ p.insn.op # "ecall"
  /\ ~I!IllegalCsr(p.insn)
  /\ ~I!Misaligned(p.insn, f[p.insn.rs1], f[p.insn.rs2])

Value(p, f, c) ==
  CASE p.insn.op = "jalr"  -> I!Plus(p.pc, 1)
    [] I!IsCsrOp(p.insn)   -> I!CsrRead(c, p.insn.csr)
    [] OTHER -> I!Compute(p.insn, f[p.insn.rs1], f[p.insn.rs2])

NextPc(p, f, c) ==
  IF p.insn.op = "mret" THEN c.mepc
  ELSE IF I!Taken(p.insn, f[p.insn.rs1], f[p.insn.rs2])
    THEN I!Target(p.insn, p.pc, f[p.insn.rs1])
  ELSE I!Plus(p.pc, 1)

\* The exception of packet p is one its instruction raises.
Caused(p, f) ==
  \/ p.exc \in {"fetch", "timer"}
  \/ p.exc = "ecall"      /\ p.insn.op = "ecall"
  \/ p.exc = "illegal"    /\ I!IllegalCsr(p.insn)
  \/ p.exc = "misaligned" /\ I!Misaligned(p.insn, f[p.insn.rs1], f[p.insn.rs2])
  \/ p.exc = "access"     /\ I!IsMemory(p.insn)

\* The address of what follows ID/EX, EX/MEM and MEM/WB.
pc_after_ex  == IF if_id.valid  THEN if_id.pc  ELSE expect
pc_after_mem == IF id_ex.valid  THEN id_ex.pc  ELSE pc_after_ex
pc_after_wb  == IF ex_mem.valid THEN ex_mem.pc ELSE pc_after_mem

\* Nothing follows a trap packet, and fetch waits for the handler.
TrapOrder ==
  /\ trap_drain_q <=> Trap(id_ex) \/ Trap(ex_mem) \/ Trap(mem_wb)
  /\ trap_drain_q <=> expect = NoPC
  /\ trap_drain_q => ~if_id.valid
  /\ Trap(mem_wb) => ~ex_mem.valid
  /\ Trap(mem_wb) \/ Trap(ex_mem) => ~id_ex.valid

\* Each packet is where the one before it goes; IF and ID have assumed that
\* nothing is taken, EX has corrected it.
AddressOrder ==
  /\ Live(mem_wb) => pc_after_wb = NextPc(mem_wb, regs, csr)
  /\ Live(ex_mem) => pc_after_mem = NextPc(ex_mem, regs_mem, csr_mem)
  /\ Live(id_ex)  => pc_after_ex = I!Plus(id_ex.pc, 1)
  /\ if_id.valid  => expect = I!Plus(if_id.pc, 1)

\* What EX and MEM have computed is right about the state before the packet.
WbRight ==
  Live(mem_wb) =>
    /\ Completes(mem_wb, regs)
    /\ I!WritesReg(mem_wb.insn) /\ mem_wb.insn.op # "load" =>
         mem_wb.value = Value(mem_wb, regs, csr)
    /\ I!IsMemory(mem_wb.insn) => mem_wb.addr = regs[mem_wb.insn.rs1]
    /\ mem_wb.insn.op = "store" => mem_wb.data = regs[mem_wb.insn.rs2]
    /\ I!WritesCsr(mem_wb.insn) => mem_wb.data = regs[mem_wb.insn.rs1]

MemRight ==
  Live(ex_mem) =>
    /\ Completes(ex_mem, regs_mem)
    /\ I!WritesReg(ex_mem.insn) /\ ex_mem.insn.op # "load" =>
         ex_mem.result = Value(ex_mem, regs_mem, csr_mem)
    /\ I!IsMemory(ex_mem.insn) => ex_mem.result = regs_mem[ex_mem.insn.rs1]
    /\ ex_mem.insn.op = "store" => ex_mem.data = regs_mem[ex_mem.insn.rs2]
    /\ I!WritesCsr(ex_mem.insn) => ex_mem.data = regs_mem[ex_mem.insn.rs1]

\* An operand ID/EX holds is current unless a packet in front can forward
\* it, and a load in front that cannot has been waited for.
OperandRight(r, own) ==
  /\ Produces(ex_mem, r) => ex_mem.insn.op # "load"
  /\ ~Produces(ex_mem, r) /\ ~Produces(mem_wb, r) => own = regs[r]

ExRight ==
  Live(id_ex) =>
    /\ id_ex.insn.op # "ecall"
    /\ I!UsesRs1(id_ex.insn) => OperandRight(id_ex.insn.rs1, id_ex.a)
    /\ I!UsesRs2(id_ex.insn) => OperandRight(id_ex.insn.rs2, id_ex.b)

MduRight ==
  mdu.state # "idle" =>
    /\ UsesMdu
    /\ mdu.result = I!Compute(id_ex.insn, rs1_value, rs2_value)

\* The packets in front do not change the CSR state that ID/EX relies on.
KeepsCsr(p, id) ==
  Live(p) => /\ ~WritesCsrOf(p, id) /\ p.insn.op # "mret"
             /\ id # "minstret"
KeepsIrqState(p) ==
  Live(p) => /\ p.insn.op # "mret"
             /\ ~WritesCsrOf(p, "mstatus") /\ ~WritesCsrOf(p, "mie")

CsrRight ==
  /\ Live(id_ex) /\ I!IsCsrOp(id_ex.insn) =>
       KeepsCsr(ex_mem, id_ex.insn.csr) /\ KeepsCsr(mem_wb, id_ex.insn.csr)
  /\ Live(id_ex) /\ id_ex.insn.op = "mret" =>
       ~WritesCsrOf(ex_mem, "mepc") /\ ~WritesCsrOf(mem_wb, "mepc")
  /\ Live(ex_mem) /\ ex_mem.insn.op = "mret" => ~id_ex.valid /\ ~if_id.valid
  /\ Live(mem_wb) /\ mem_wb.insn.op = "mret" => ~id_ex.valid

\* A trap packet has a cause, and the timer's is enabled when it commits.
TrapRight ==
  /\ Trap(mem_wb) => Caused(mem_wb, regs)
  /\ Trap(ex_mem) => Caused(ex_mem, regs_mem)
  /\ Trap(id_ex)  => \/ id_ex.exc \in {"fetch", "timer"}
                     \/ id_ex.exc = "ecall" /\ id_ex.insn.op = "ecall"
  /\ Trap(if_id)  => if_id.exc = "fetch"

TimerTrap(p) == Trap(p) /\ p.exc = "timer"

TimerRight ==
  /\ TimerTrap(id_ex) \/ TimerTrap(ex_mem) \/ TimerTrap(mem_wb) =>
       csr.mie /\ csr.mtie
  /\ TimerTrap(id_ex) \/ TimerTrap(ex_mem) => KeepsIrqState(mem_wb)
  /\ TimerTrap(id_ex) => KeepsIrqState(ex_mem)

IInv ==
  /\ TypeOK
  /\ TrapOrder
  /\ AddressOrder
  /\ WbRight
  /\ MemRight
  /\ ExRight
  /\ MduRight
  /\ CsrRight
  /\ TrapRight
  /\ TimerRight

-----------------------------------------------------------------------------
(* Lemmas about the operators of the architecture.                         *)

\* Words hold zero and one, addresses wrap around.
LEMMA WordFacts ==
  /\ W \in Nat /\ W > 1 /\ 0 \in I!Words /\ 1 \in I!Words /\ NoPC \notin I!Words
  /\ 0 \in I!RegIds
  /\ \A a \in I!Words, b \in Nat : I!Plus(a, b) \in I!Words
BY SizeAssumption DEF I!Words, I!RegIds, I!Plus, NoPC

\* The execution units compute words.
LEMMA ComputeType ==
  ASSUME NEW i \in I!InsnRecords, NEW a \in I!Words, NEW b \in I!Words
  PROVE  I!Compute(i, a, b) \in I!Words
<1>1. a \in Nat /\ b \in Nat /\ a * b \in Int
  BY SizeAssumption DEF I!Words
<1>2. (a * b) % W \in 0 .. W - 1
  BY <1>1, SizeAssumption
<1>. QED  BY <1>1, <1>2, WordFacts DEF I!Compute, I!Words

\* A taken branch or a jump goes to an address unless it is misaligned.
LEMMA TargetType ==
  ASSUME NEW i \in I!InsnRecords, NEW from \in I!Words, NEW a \in I!Words
  PROVE  I!Target(i, from, a) \in I!Words
<1>1. i.imm \in Nat
  BY SizeAssumption DEF I!InsnRecords
<1>. QED  BY <1>1, WordFacts DEF I!Target

\* The CSR operations return words and CSR records.
LEMMA CsrTypes ==
  ASSUME NEW c \in I!CsrRecords, NEW v \in I!Words, NEW id
  PROVE  /\ I!CsrRead(c, id) \in I!Words
         /\ I!CsrWrite(c, id, v) \in I!CsrRecords
         /\ I!Count(c) \in I!CsrRecords
         /\ I!EnterTrap(c, v) \in I!CsrRecords
         /\ I!LeaveTrap(c) \in I!CsrRecords
<1>1. v \in Nat /\ v % InstretMod \in 0 .. InstretMod - 1
  BY SizeAssumption DEF I!Words
<1>2. c.minstret \in Nat /\ (c.minstret + 1) % InstretMod \in 0 .. InstretMod - 1
  BY SizeAssumption DEF I!CsrRecords
<1>3. I!CsrRead(c, id) \in I!Words
  <2>1. /\ (I!Bit(c.mie) + 2 * I!Bit(c.mpie)) % W \in I!Words
        /\ c.minstret % W \in I!Words
    BY <1>2, SizeAssumption DEF I!Words, I!Bit
  <2>. QED  BY <2>1, WordFacts DEF I!CsrRead, I!CsrRecords, I!Bit
<1>4. I!CsrWrite(c, id, v) \in I!CsrRecords
  BY <1>1 DEF I!CsrWrite, I!CsrRecords
<1>. QED  BY <1>2, <1>3, <1>4 DEF I!CsrRecords, I!Count, I!EnterTrap, I!LeaveTrap

\* What the CSR operations leave alone.
LEMMA CountStable ==
  ASSUME NEW c \in I!CsrRecords
  PROVE  /\ \A id : id # "minstret" => I!CsrRead(I!Count(c), id) = I!CsrRead(c, id)
         /\ I!Count(c).mepc = c.mepc /\ I!LeaveTrap(c).mepc = c.mepc
         /\ I!Count(c).mie = c.mie /\ I!Count(c).mtie = c.mtie
<1>1. /\ I!Count(c).mie = c.mie /\ I!Count(c).mtie = c.mtie
      /\ I!Count(c).mpie = c.mpie /\ I!Count(c).mtvec = c.mtvec
      /\ I!Count(c).mepc = c.mepc /\ I!LeaveTrap(c).mepc = c.mepc
  BY DEF I!CsrRecords, I!Count, I!LeaveTrap
<1>. QED  BY <1>1 DEF I!CsrRead

\* A CSR write changes no other CSR.
LEMMA CsrWriteStable ==
  ASSUME NEW c \in I!CsrRecords, NEW other, NEW v
  PROVE  /\ \A id : id # other =>
              I!CsrRead(I!CsrWrite(c, other, v), id) = I!CsrRead(c, id)
         /\ other # "mepc" => I!CsrWrite(c, other, v).mepc = c.mepc
         /\ other # "mstatus" => I!CsrWrite(c, other, v).mie = c.mie
         /\ other # "mie" => I!CsrWrite(c, other, v).mtie = c.mtie
<1>1. ASSUME NEW id, id # other
      PROVE  I!CsrRead(I!CsrWrite(c, other, v), id) = I!CsrRead(c, id)
  BY <1>1 DEF I!CsrRead, I!CsrWrite, I!CsrRecords
<1>2. /\ other # "mepc" => I!CsrWrite(c, other, v).mepc = c.mepc
      /\ other # "mstatus" => I!CsrWrite(c, other, v).mie = c.mie
      /\ other # "mie" => I!CsrWrite(c, other, v).mtie = c.mtie
  BY DEF I!CsrWrite, I!CsrRecords
<1>. QED  BY <1>1, <1>2

-----------------------------------------------------------------------------
(* Lemmas about the pipeline's operators.                                  *)

\* The instructions in the pipeline are instructions.
LEMMA ProgramFacts ==
  ASSUME NEW i \in Program
  PROVE  /\ i \in I!InsnRecords
         /\ i.op \in I!Ops /\ i.csr \in I!CsrIds /\ i.imm \in 0 .. W
         /\ i.rd \in I!RegIds /\ i.rs1 \in I!RegIds /\ i.rs2 \in I!RegIds
<1>1. NoInsn \in I!InsnRecords
  BY WordFacts, SizeAssumption DEF NoInsn, I!InsnRecords, I!Ops, I!CsrIds
<1>2. i \in I!InsnRecords
  BY <1>1, ProgramAssumption DEF Program
<1>. QED  BY <1>2 DEF I!InsnRecords

\* The packets' fields.
LEMMA PacketTypes ==
  ASSUME TypeOK
  PROVE  \A p \in {if_id, id_ex, ex_mem, mem_wb} :
           /\ p.valid \in BOOLEAN /\ p.pc \in I!Words
           /\ p.insn \in Program /\ p.exc \in Exceptions
BY DEF TypeOK, IfIdPackets, IdExPackets, ExMemPackets, MemWbPackets

\* The bubbles are packets without content.
LEMMA BubbleFacts ==
  /\ NoInsn \in Program
  /\ NoIfId.valid = FALSE /\ NoIdEx.valid = FALSE
  /\ NoExMem.valid = FALSE /\ NoMemWb.valid = FALSE
  /\ NoIfId \in IfIdPackets /\ NoIdEx \in IdExPackets
  /\ NoExMem \in ExMemPackets /\ NoMemWb \in MemWbPackets
<1>1. NoInsn \in Program /\ "none" \in Exceptions
  BY DEF Program, Exceptions
<1>. QED  BY <1>1, WordFacts
          DEF NoIfId, NoIdEx, NoExMem, NoMemWb,
              IfIdPackets, IdExPackets, ExMemPackets, MemWbPackets

\* What the memory stage and the timer's line may report.
LEMMA InputTypes ==
  ASSUME NEW in \in Inputs
  PROVE  /\ in.lsu \in {"ok", "wait", "fault"}
         /\ in.lsu # "ok" => mem_is_memory
         /\ in.loaded \in I!Words
         /\ in.mtip \in BOOLEAN
<1>1. PICK ans \in LsuAnswers, level \in Mtip :
        in = [lsu |-> ans.lsu, loaded |-> ans.loaded, mtip |-> level]
  BY DEF Inputs
<1>2. /\ ans.lsu \in {"ok", "wait", "fault"} /\ ans.loaded \in I!Words
      /\ ans.lsu # "ok" => mem_is_memory
  BY WordFacts DEF LsuAnswers
<1>. QED  BY <1>1, <1>2, LineAssumption

\* The classes the controller sees.
LEMMA ClassFacts ==
  ASSUME NEW p, p.valid \in BOOLEAN, p.insn \in Program, p.exc \in Exceptions
  PROVE  /\ Ctrl!Trap(ClassOf(p)) <=> Trap(p)
         /\ Ctrl!Live(ClassOf(p)) <=> Live(p)
         /\ ClassOf(p).valid = p.valid
         /\ ClassOf(p).exc # "none" <=> p.exc # "none"
         /\ Live(p) => ClassOf(p).kind = KindOf(p.insn)
         /\ ~Live(p) => ClassOf(p).kind = "alu"
BY DEF ClassOf, Ctrl!Trap, Ctrl!Live, Trap, Live, Exceptions, I!Causes

\* The kinds of instruction the controller and the lookahead tell apart.
LEMMA KindFacts ==
  ASSUME NEW i \in Program
  PROVE  /\ KindOf(i) \in {"load", "store"} <=> I!IsMemory(i)
         /\ KindOf(i) = "load" <=> i.op = "load"
         /\ KindOf(i) = "mdu" <=> i.op = "mul"
         /\ KindOf(i) = "mret" <=> i.op = "mret"
         /\ KindOf(i) = "sys" <=> i.op = "ecall"
         /\ KindOf(i) = "ctl" <=> i.op \in {"branch", "jalr"}
         /\ KindOf(i) \in {"csr", "irqcsr"} <=> I!IsCsrOp(i)
         /\ KindOf(i) = "irqcsr" <=>
              I!WritesCsr(i) /\ i.csr \in {"mstatus", "mie"}
         /\ KindOf(i) \in Ctrl!AllKinds
<1>1. i.op \in I!Ops
  BY ProgramFacts
<1>. QED  BY <1>1 DEF I!Ops, KindOf, I!IsMemory, I!IsCsrOp, I!WritesCsr, Ctrl!AllKinds

\* What the execute stage reports is about the instruction it holds.
LEMMA OutcomeFacts ==
  ASSUME TypeOK
  PROVE  /\ ex_outcome \in {"ok", "busy", "fault", "taken"}
         /\ ex_outcome # "ok" => Live(id_ex)
         /\ ex_outcome = "busy" <=> UsesMdu /\ mdu.state # "resp"
         /\ Live(id_ex) /\ ex_outcome = "fault" <=>
              /\ Live(id_ex)
              /\ \/ I!IllegalCsr(id_ex.insn)
                 \/ I!Misaligned(id_ex.insn, rs1_value, rs2_value)
         /\ ex_outcome = "taken" =>
              \/ I!Taken(id_ex.insn, rs1_value, rs2_value)
              \/ id_ex.insn.op = "mret"
         /\ Live(id_ex) /\ ex_outcome = "ok" =>
              /\ ~I!Taken(id_ex.insn, rs1_value, rs2_value)
              /\ id_ex.insn.op # "mret"
         /\ ex_outcome \in {"ok", "taken"} /\ Live(id_ex) =>
              /\ ~I!IllegalCsr(id_ex.insn)
              /\ ~I!Misaligned(id_ex.insn, rs1_value, rs2_value)
              /\ UsesMdu => mdu.state = "resp"
<1>1. id_ex.insn.op = "mul" => /\ ~I!IllegalCsr(id_ex.insn)
                               /\ ~I!Misaligned(id_ex.insn, rs1_value, rs2_value)
  BY DEF I!IllegalCsr, I!IsCsrOp, I!Misaligned, I!Taken
<1>. QED  BY <1>1 DEF ex_outcome, UsesMdu

\* The condition of each controller action, in terms of the packets.
LEMMA Arbitration ==
  ASSUME TypeOK, NEW in \in Inputs
  PROVE  /\ Action(in) = "WB_TRAP" <=> Trap(mem_wb)
         /\ Action(in) = "MEM_EXCEPTION" => in.lsu = "fault"
         /\ Action(in) = "MEM_WAIT" => in.lsu = "wait"
         /\ Action(in) \notin {"WB_TRAP", "MEM_EXCEPTION", "MEM_WAIT"} => in.lsu = "ok"
         /\ Action(in) = "EX_EXCEPTION" => ex_outcome = "fault"
         /\ Action(in) = "EX_WAIT" => ex_outcome = "busy"
         /\ Action(in) = "TRAP_DRAIN" => trap_drain_q
         /\ Action(in) = "EX_REDIRECT" => ex_outcome = "taken" /\ ~trap_drain_q
         /\ Action(in) \in {"IRQ_STATE_WAIT", "ID_EXCEPTION", "ID_INTERRUPT",
                            "ID_HAZARD", "ADVANCE"} =>
              ex_outcome = "ok" /\ ~trap_drain_q
         /\ Action(in) = "ID_EXCEPTION" =>
              if_id.valid /\ (if_id.exc # "none" \/ if_id.insn.op = "ecall")
         /\ Action(in) = "ID_INTERRUPT" => Ctrl!id_interrupt(Seen(in))
         /\ Action(in) = "ADVANCE" =>
              /\ ~Hazard
              /\ ~Ctrl!id_interrupt(Seen(in))
              /\ ~(if_id.valid /\ (if_id.exc # "none" \/ if_id.insn.op = "ecall"))
<1>1. /\ Ctrl!wb_trap <=> Trap(mem_wb)
      /\ Ctrl!id_exception <=>
           if_id.valid /\ (if_id.exc # "none" \/ if_id.insn.op = "ecall")
  BY ClassFacts, KindFacts, PacketTypes DEF Ctrl!wb_trap, Ctrl!id_exception, Live
<1>2. /\ Ctrl!mem_exception(Seen(in)) <=> in.lsu = "fault"
      /\ Ctrl!mem_wait(Seen(in)) <=> in.lsu = "wait"
      /\ Ctrl!ex_exception(Seen(in)) <=> ex_outcome = "fault"
      /\ Ctrl!ex_wait(Seen(in)) <=> ex_outcome = "busy"
      /\ Ctrl!control_redirect(Seen(in)) <=> ex_outcome = "taken"
      /\ Seen(in).hazard <=> Hazard
  BY DEF Seen, Ctrl!mem_exception, Ctrl!mem_wait, Ctrl!ex_exception, Ctrl!ex_wait,
         Ctrl!control_redirect
<1>. QED  BY <1>1, <1>2, InputTypes, OutcomeFacts DEF Action, Ctrl!Action

\* A timer interrupt takes the place of a live instruction in ID, when the
\* commit leaves it enabled and nothing in front can still disable it.
LEMMA InterruptFacts ==
  ASSUME TypeOK, NEW in \in Inputs, Ctrl!id_interrupt(Seen(in))
  PROVE  /\ Live(if_id) /\ ~trap_drain_q
         /\ if_id.insn.op # "ecall"
         /\ csr_next.mie /\ csr_next.mtie
         /\ KeepsIrqState(id_ex) /\ KeepsIrqState(ex_mem)
<1>1. Live(if_id) /\ if_id.insn.op # "ecall" /\ ~trap_drain_q
  BY ClassFacts, KindFacts, PacketTypes
     DEF Ctrl!id_interrupt, Ctrl!id_exception, Live
<1>2. csr_next.mie /\ csr_next.mtie
  BY DEF Ctrl!id_interrupt, Seen, mtimer_irq_eligible
<1>3. ~Ctrl!WritesIrqState(ClassOf(id_ex)) /\ ~Ctrl!WritesIrqState(ClassOf(ex_mem))
  BY DEF Ctrl!id_interrupt, Ctrl!irq_state_wait
<1>4. \A p \in {id_ex, ex_mem} : ~Ctrl!WritesIrqState(ClassOf(p)) => KeepsIrqState(p)
  BY ClassFacts, KindFacts, PacketTypes
     DEF Ctrl!WritesIrqState, KeepsIrqState, WritesCsrOf
<1>. QED  BY <1>1, <1>2, <1>3, <1>4

-----------------------------------------------------------------------------
(* Type correctness.                                                       *)

\* The numbers the packets carry.
LEMMA PayloadTypes ==
  ASSUME TypeOK
  PROVE  /\ id_ex.a \in I!Words /\ id_ex.b \in I!Words
         /\ ex_mem.result \in I!Words /\ ex_mem.data \in I!Words
         /\ mem_wb.value \in I!Words /\ mem_wb.addr \in I!Words
         /\ mem_wb.data \in I!Words
         /\ mdu.state \in {"idle", "exec", "resp"} /\ mdu.result \in I!Words
         /\ \A r \in I!RegIds : regs[r] \in I!Words
BY DEF TypeOK, IdExPackets, ExMemPackets, MemWbPackets

\* What the commit leaves in the register and CSR files.
LEMMA CommitFacts ==
  ASSUME TypeOK
  PROVE  /\ csr_next = csr_mem /\ csr_mem \in I!CsrRecords
         /\ WriteBack => regs' = regs_mem
         /\ regs_mem \in [I!RegIds -> I!Words] /\ regs_mem[0] = 0
         /\ ~mem_wb.valid => csr_mem = csr /\ regs_mem = regs
         /\ \A r \in I!RegIds : ReadReg(r) = regs_mem[r]
<1>1. csr \in I!CsrRecords /\ mem_wb.pc \in I!Words /\ mem_wb.data \in I!Words
  BY PacketTypes, PayloadTypes DEF TypeOK
<1>2. csr_next = csr_mem
  BY DEF csr_next, csr_mem, CsrAfter
<1>3. csr_mem \in I!CsrRecords
  BY <1>1, CsrTypes DEF csr_mem, CsrAfter
<1>4. WriteBack => regs' = regs_mem
  BY DEF WriteBack, regs_mem, RegsAfter, TypeOK
<1>5. regs_mem \in [I!RegIds -> I!Words] /\ regs_mem[0] = 0
  BY PayloadTypes, WordFacts DEF regs_mem, RegsAfter, Produces, TypeOK
<1>6. ~mem_wb.valid => csr_mem = csr /\ regs_mem = regs
  BY DEF csr_mem, CsrAfter, Trap, regs_mem, RegsAfter, Produces, Live, TypeOK
<1>7. \A r \in I!RegIds : ReadReg(r) = regs_mem[r]
  BY DEF ReadReg, regs_mem, RegsAfter
<1>. QED  BY <1>2, <1>3, <1>4, <1>5, <1>6, <1>7

\* What the execute stage computes.
LEMMA ExecuteTypes ==
  ASSUME TypeOK
  PROVE  /\ rs1_value \in I!Words /\ rs2_value \in I!Words
         /\ ex_result \in I!Words /\ ex_data \in I!Words
         /\ redirect_target \in I!Words
         /\ ex_cause \in Exceptions
         /\ I!Compute(id_ex.insn, rs1_value, rs2_value) \in I!Words
<1>1. rs1_value \in I!Words /\ rs2_value \in I!Words
  BY PayloadTypes DEF rs1_value, rs2_value, Forward
<1>2. id_ex.insn \in I!InsnRecords /\ id_ex.pc \in I!Words /\ csr \in I!CsrRecords
  BY PacketTypes, ProgramFacts DEF TypeOK
<1>3. I!Compute(id_ex.insn, rs1_value, rs2_value) \in I!Words
  BY <1>1, <1>2, ComputeType
<1>4. redirect_target \in I!Words
  BY <1>1, <1>2, TargetType DEF redirect_target, I!CsrRecords
<1>5. ex_result \in I!Words
  BY <1>1, <1>2, <1>3, CsrTypes, WordFacts, PayloadTypes DEF ex_result
<1>6. ex_data \in I!Words
  BY <1>1, WordFacts DEF ex_data
<1>. QED  BY <1>1, <1>3, <1>4, <1>5, <1>6 DEF ex_cause, Exceptions, I!Causes

\* What each stage offers to the next register is a packet.
LEMMA OfferedTypes ==
  ASSUME TypeOK, NEW in \in Inputs
  PROVE  /\ id_ex_d(in) \in IdExPackets
         /\ ex_mem_d \in ExMemPackets
         /\ mem_wb_d(in) \in MemWbPackets
         /\ Refreshed \in IdExPackets
<1>1. /\ if_id.insn \in Program /\ if_id.pc \in I!Words /\ if_id.exc \in Exceptions
      /\ id_ex.insn \in Program /\ id_ex.pc \in I!Words /\ id_ex.exc \in Exceptions
      /\ ex_mem.insn \in Program /\ ex_mem.pc \in I!Words /\ ex_mem.exc \in Exceptions
  BY PacketTypes
<1>2. \A c \in {"timer", "ecall", "access", "none"} : c \in Exceptions
  BY DEF Exceptions, I!Causes
<1>3. id_ex_d(in) \in IdExPackets
  <2>1. ASSUME NEW cause \in Exceptions PROVE IdTrap(if_id, cause) \in IdExPackets
    BY <1>1, WordFacts DEF IdTrap, NoIdEx, IdExPackets
  <2>2. IdEx(if_id) \in IdExPackets
    <3>1. \A r \in I!RegIds : ReadReg(r) \in I!Words
      BY CommitFacts
    <3>2. /\ I!UsesRs1(if_id.insn) => ReadReg(if_id.insn.rs1) \in I!Words
          /\ I!UsesRs2(if_id.insn) => ReadReg(if_id.insn.rs2) \in I!Words
      BY <1>1, <3>1, ProgramFacts
    <3>. QED  BY <1>1, <1>2, <3>2, WordFacts DEF IdEx, IdExPackets
  <2>. QED  BY <1>1, <1>2, <2>1, <2>2, BubbleFacts DEF id_ex_d
<1>4. ex_mem_d \in ExMemPackets
  <2>1. ASSUME NEW cause \in Exceptions PROVE ExMemTrap(id_ex, cause) \in ExMemPackets
    BY <1>1, WordFacts DEF ExMemTrap, NoExMem, ExMemPackets
  <2>2. [valid |-> TRUE, pc |-> id_ex.pc, insn |-> id_ex.insn, exc |-> "none",
         result |-> ex_result, data |-> ex_data] \in ExMemPackets
    BY <1>1, <1>2, ExecuteTypes DEF ExMemPackets
  <2>. QED  BY <1>1, <2>1, <2>2, ExecuteTypes, BubbleFacts DEF ex_mem_d
<1>5. mem_wb_d(in) \in MemWbPackets
  <2>1. ASSUME NEW cause \in Exceptions PROVE MemWbTrap(ex_mem, cause) \in MemWbPackets
    BY <1>1, WordFacts DEF MemWbTrap, NoMemWb, MemWbPackets
  <2>2. in.loaded \in I!Words /\ ex_mem.result \in I!Words /\ ex_mem.data \in I!Words
    BY InputTypes, PayloadTypes
  <2>. QED  BY <1>1, <1>2, <2>1, <2>2, BubbleFacts, WordFacts DEF mem_wb_d, MemWbPackets
<1>6. Refreshed \in IdExPackets
  <2>1. id_ex \in IdExPackets /\ mem_wb.value \in I!Words
    BY PayloadTypes DEF TypeOK
  <2>. QED  BY <2>1 DEF Refreshed, IdExPackets
<1>. QED  BY <1>3, <1>4, <1>5, <1>6

\* The multiplier and divider stay in their states.
LEMMA MduType ==
  ASSUME TypeOK, NEW in \in Inputs, MduStep(in)
  PROVE  mdu' \in [state: {"idle", "exec", "resp"}, result: I!Words]
BY ExecuteTypes, PayloadTypes, WordFacts DEF MduStep, MduIdle, TypeOK

\* Every clock edge commits MEM/WB and leaves packets in the registers.
LEMMA TypeStep == TypeOK /\ [Next]_vars => TypeOK'
<1>. SUFFICES ASSUME TypeOK, [Next]_vars PROVE TypeOK'
  OBVIOUS
<1>1. WriteBack => regs' \in [I!RegIds -> I!Words] /\ regs'[0] = 0
  BY CommitFacts
<1>2. CASE UNCHANGED vars
  BY <1>2 DEF TypeOK, vars, pipe
<1>3. CASE Reset
  <2>1. csr' \in I!CsrRecords /\ expect' \in I!Words
    BY <1>3, VectorAssumption, WordFacts, SizeAssumption DEF Reset, I!CsrRecords
  <2>2. mdu' \in [state: {"idle", "exec", "resp"}, result: I!Words]
    BY <1>3, WordFacts DEF Reset, MduIdle
  <2>. QED  BY <1>1, <1>3, <2>1, <2>2, BubbleFacts DEF Reset, TypeOK
<1>4. ASSUME NEW in \in Inputs, Clock(in) PROVE TypeOK'
  <2>1. Commit(in)
    BY <1>4 DEF Clock, WbTrap, MemException, MemWait, ExException, ExWait,
                TrapDrain, ExRedirect, HoldId, TrapFromId, Advance
  <2>2. /\ regs' \in [I!RegIds -> I!Words] /\ regs'[0] = 0
        /\ csr' \in I!CsrRecords
        /\ mdu' \in [state: {"idle", "exec", "resp"}, result: I!Words]
    BY <1>1, <2>1, CommitFacts, MduType DEF Commit
  <2>3. /\ expect' \in I!Words \cup {NoPC}
        /\ trap_drain_q' \in BOOLEAN
        /\ if_id' \in IfIdPackets
    <3>1. CASE Advance(in)
      <4>1. if_id' = NoIfId \/ (expect # NoPC /\ if_id' \in IfIdPackets)
        <5>1. \A i \in Insns : i \in Program
          BY DEF Program
        <5>. QED  BY <3>1, <5>1, BubbleFacts
                  DEF Advance, TypeOK, IfIdPackets, Exceptions, I!Causes
      <4>2. expect' = expect \/ (expect # NoPC /\ expect' = I!Plus(expect, 1))
        BY <3>1 DEF Advance
      <4>. QED  BY <3>1, <4>1, <4>2, BubbleFacts, WordFacts DEF Advance, TypeOK
    <3>2. CASE ~Advance(in)
      <4>1. csr.mtvec \in I!Words
        BY DEF TypeOK, I!CsrRecords
      <4>. QED  BY <1>4, <3>2, <4>1, BubbleFacts, ExecuteTypes
                DEF Clock, WbTrap, MemException, MemWait, ExException, ExWait,
                    TrapDrain, ExRedirect, HoldId, TrapFromId, TypeOK
    <3>. QED  BY <3>1, <3>2
  <2>4. id_ex' \in IdExPackets /\ ex_mem' \in ExMemPackets /\ mem_wb' \in MemWbPackets
    BY <1>4, OfferedTypes, BubbleFacts
       DEF Clock, WbTrap, MemException, MemWait, ExException, ExWait,
           TrapDrain, ExRedirect, HoldId, TrapFromId, Advance, TypeOK
  <2>. QED  BY <2>2, <2>3, <2>4 DEF TypeOK
<1>. QED  BY <1>2, <1>3, <1>4 DEF Next

-----------------------------------------------------------------------------
(* What moves from one register to the next.                               *)

\* What EX/MEM passes on: a trap as it is, an access fault, or the result.
LEMMA MemOffers ==
  ASSUME TypeOK, NEW in \in Inputs
  PROVE  /\ mem_wb_d(in).valid = ex_mem.valid
         /\ Trap(mem_wb_d(in)) <=> Trap(ex_mem) \/ in.lsu = "fault"
         /\ Live(mem_wb_d(in)) <=> Live(ex_mem) /\ in.lsu # "fault"
         /\ ex_mem.valid => /\ mem_wb_d(in).pc = ex_mem.pc
                            /\ mem_wb_d(in).insn = ex_mem.insn
         /\ Trap(ex_mem) => mem_wb_d(in).exc = ex_mem.exc
         /\ Live(ex_mem) /\ in.lsu = "fault" =>
              mem_wb_d(in).exc = "access" /\ I!IsMemory(ex_mem.insn)
         /\ Live(mem_wb_d(in)) =>
              /\ I!IsMemory(ex_mem.insn) => mem_wb_d(in).addr = ex_mem.result
              /\ mem_wb_d(in).data = ex_mem.data
              /\ ex_mem.insn.op \notin {"load", "store"} =>
                   mem_wb_d(in).value = ex_mem.result
<1>1. in.lsu # "ok" => Live(ex_mem) /\ I!IsMemory(ex_mem.insn)
  BY InputTypes DEF mem_is_memory
<1>2. CASE ~ex_mem.valid
  BY <1>1, <1>2, BubbleFacts, PacketTypes DEF mem_wb_d, Live, Trap
<1>3. CASE Trap(ex_mem)
  BY <1>1, <1>3, PacketTypes DEF mem_wb_d, MemWbTrap, NoMemWb, Live, Trap
<1>4. CASE Live(ex_mem) /\ in.lsu = "fault"
  BY <1>1, <1>4 DEF mem_wb_d, MemWbTrap, NoMemWb, Live, Trap
<1>5. CASE Live(ex_mem) /\ in.lsu # "fault"
  BY <1>1, <1>5 DEF mem_wb_d, Live, Trap, mem_is_memory
<1>6. ~ex_mem.valid \/ Trap(ex_mem) \/ Live(ex_mem)
  BY PacketTypes DEF Live, Trap
<1>. QED  BY <1>2, <1>3, <1>4, <1>5, <1>6

\* What ID/EX passes on.
LEMMA ExOffers ==
  ASSUME TypeOK
  PROVE  /\ ex_mem_d.valid = id_ex.valid
         /\ Trap(ex_mem_d) <=> Trap(id_ex) \/ ex_outcome = "fault"
         /\ Live(ex_mem_d) <=> Live(id_ex) /\ ex_outcome # "fault"
         /\ id_ex.valid => ex_mem_d.pc = id_ex.pc /\ ex_mem_d.insn = id_ex.insn
         /\ Trap(id_ex) => ex_mem_d.exc = id_ex.exc
         /\ ex_outcome = "fault" => ex_mem_d.exc = ex_cause
         /\ Live(ex_mem_d) => ex_mem_d.result = ex_result /\ ex_mem_d.data = ex_data
<1>1. ex_outcome = "fault" => Live(id_ex)
  BY OutcomeFacts
<1>2. ex_cause # "none"
  BY DEF ex_cause
<1>3. CASE ~id_ex.valid
  BY <1>1, <1>3, BubbleFacts, PacketTypes DEF ex_mem_d, Live, Trap
<1>4. CASE Trap(id_ex)
  BY <1>1, <1>4, PacketTypes DEF ex_mem_d, ExMemTrap, NoExMem, Live, Trap
<1>5. CASE Live(id_ex) /\ ex_outcome = "fault"
  BY <1>2, <1>5 DEF ex_mem_d, ExMemTrap, NoExMem, Live, Trap
<1>6. CASE Live(id_ex) /\ ex_outcome # "fault"
  BY <1>6 DEF ex_mem_d, Live, Trap
<1>7. ~id_ex.valid \/ Trap(id_ex) \/ Live(id_ex)
  BY PacketTypes DEF Live, Trap
<1>. QED  BY <1>3, <1>4, <1>5, <1>6, <1>7

\* What IF/ID passes on: an exception, the timer's interrupt, or operands.
LEMMA IdOffers ==
  ASSUME TypeOK, NEW in \in Inputs
  PROVE  /\ id_ex_d(in).valid = if_id.valid
         /\ if_id.valid => id_ex_d(in).pc = if_id.pc /\ id_ex_d(in).insn = if_id.insn
         /\ Trap(id_ex_d(in)) =>
              \/ id_ex_d(in).exc = "timer" /\ Ctrl!id_interrupt(Seen(in))
              \/ id_ex_d(in).exc = if_id.exc /\ Trap(if_id)
              \/ id_ex_d(in).exc = "ecall" /\ if_id.insn.op = "ecall"
         /\ Live(id_ex_d(in)) =>
              /\ Live(if_id)
              /\ if_id.insn.op # "ecall"
              /\ I!UsesRs1(if_id.insn) => id_ex_d(in).a = regs_mem[if_id.insn.rs1]
              /\ I!UsesRs2(if_id.insn) => id_ex_d(in).b = regs_mem[if_id.insn.rs2]
         /\ Ctrl!id_interrupt(Seen(in)) => Trap(id_ex_d(in))
         /\ if_id.valid /\ (if_id.exc # "none" \/ if_id.insn.op = "ecall") =>
              Trap(id_ex_d(in))
         /\ if_id.valid /\ if_id.exc = "none" /\ if_id.insn.op # "ecall"
              /\ ~Ctrl!id_interrupt(Seen(in)) => Live(id_ex_d(in))
<1>1. if_id.insn.rs1 \in I!RegIds /\ if_id.insn.rs2 \in I!RegIds
  BY PacketTypes, ProgramFacts
<1>2. /\ ReadReg(if_id.insn.rs1) = regs_mem[if_id.insn.rs1]
      /\ ReadReg(if_id.insn.rs2) = regs_mem[if_id.insn.rs2]
  BY <1>1, CommitFacts
<1>3. Ctrl!id_interrupt(Seen(in)) => Live(if_id)
  BY InterruptFacts
<1>4. CASE ~if_id.valid
  BY <1>3, <1>4, BubbleFacts, PacketTypes DEF id_ex_d, Live, Trap
<1>5. CASE if_id.valid /\ Ctrl!id_interrupt(Seen(in))
  BY <1>3, <1>5 DEF id_ex_d, IdTrap, NoIdEx, Live, Trap
<1>6. CASE Trap(if_id) /\ ~Ctrl!id_interrupt(Seen(in))
  BY <1>6, PacketTypes DEF id_ex_d, IdTrap, NoIdEx, Live, Trap
<1>7. CASE Live(if_id) /\ ~Ctrl!id_interrupt(Seen(in)) /\ if_id.insn.op = "ecall"
  BY <1>7 DEF id_ex_d, IdTrap, NoIdEx, Live, Trap
<1>8. CASE Live(if_id) /\ ~Ctrl!id_interrupt(Seen(in)) /\ if_id.insn.op # "ecall"
  BY <1>2, <1>8 DEF id_ex_d, IdEx, Live, Trap
<1>9. ~if_id.valid \/ Trap(if_id) \/ Live(if_id)
  BY PacketTypes DEF Live, Trap
<1>10. if_id.valid <=> Trap(if_id) \/ Live(if_id)
  BY PacketTypes DEF Live, Trap
<1>. QED  BY <1>4, <1>5, <1>6, <1>7, <1>8, <1>9, <1>10

\* A packet that waits in ID/EX keeps everything but stale operands.
LEMMA HoldFacts ==
  ASSUME TypeOK
  PROVE  /\ Refreshed.valid = id_ex.valid /\ Refreshed.pc = id_ex.pc
         /\ Refreshed.insn = id_ex.insn /\ Refreshed.exc = id_ex.exc
         /\ Live(id_ex) =>
              /\ I!UsesRs1(id_ex.insn) =>
                   Refreshed.a = IF Produces(mem_wb, id_ex.insn.rs1)
                                   THEN mem_wb.value ELSE id_ex.a
              /\ I!UsesRs2(id_ex.insn) =>
                   Refreshed.b = IF Produces(mem_wb, id_ex.insn.rs2)
                                   THEN mem_wb.value ELSE id_ex.b
BY DEF TypeOK, IdExPackets, Refreshed

\* An instruction looks only at the operands it uses.
LEMMA OperandUse ==
  ASSUME NEW i \in Program, NEW a1, NEW b1, NEW a2, NEW b2, NEW from,
         I!UsesRs1(i) => a1 = a2, I!UsesRs2(i) => b1 = b2
  PROVE  /\ I!Taken(i, a1, b1) <=> I!Taken(i, a2, b2)
         /\ I!Misaligned(i, a1, b1) <=> I!Misaligned(i, a2, b2)
         /\ I!Taken(i, a1, b1) => I!Target(i, from, a1) = I!Target(i, from, a2)
         /\ i.op \in {"add", "mul"} => I!Compute(i, a1, b1) = I!Compute(i, a2, b2)
BY DEF I!UsesRs1, I!UsesRs2, I!Taken, I!Misaligned, I!Target, I!Compute

\* What a packet does not change of the CSRs.
LEMMA CsrAfterKeeps ==
  ASSUME NEW p, NEW c \in I!CsrRecords, NEW id, ~Trap(p), p.valid \in BOOLEAN
  PROVE  /\ KeepsCsr(p, id) => I!CsrRead(CsrAfter(p, c), id) = I!CsrRead(c, id)
         /\ ~WritesCsrOf(p, "mepc") => CsrAfter(p, c).mepc = c.mepc
         /\ KeepsIrqState(p) => /\ CsrAfter(p, c).mie = c.mie
                                /\ CsrAfter(p, c).mtie = c.mtie
<1>1. CASE ~p.valid
  BY <1>1 DEF CsrAfter, Trap
<1>2. CASE Live(p)
  <2>1. I!Count(c) \in I!CsrRecords /\ I!LeaveTrap(c) \in I!CsrRecords
    BY CsrTypes, WordFacts
  <2>2. \A r : WritesCsrOf(p, r) <=> I!WritesCsr(p.insn) /\ p.insn.csr = r
    BY <1>2 DEF WritesCsrOf
  <2>3. CASE p.insn.op = "mret"
    <3>1. CsrAfter(p, c) = I!Count(I!LeaveTrap(c))
      BY <1>2, <2>3 DEF CsrAfter, Live
    <3>2. I!Count(I!LeaveTrap(c)).mepc = c.mepc
      BY <2>1, CountStable
    <3>. QED  BY <1>2, <2>3, <3>1, <3>2 DEF KeepsCsr, KeepsIrqState
  <2>4. CASE p.insn.op # "mret" /\ ~I!WritesCsr(p.insn)
    <3>1. CsrAfter(p, c) = I!Count(c)
      BY <1>2, <2>4 DEF CsrAfter, Live
    <3>2. KeepsCsr(p, id) => id # "minstret"
      BY <1>2 DEF KeepsCsr
    <3>. QED  BY <3>1, <3>2, CountStable
  <2>5. CASE p.insn.op # "mret" /\ I!WritesCsr(p.insn) /\ p.insn.csr = "minstret"
    <3>1. CsrAfter(p, c) = I!CsrWrite(c, "minstret", p.data)
      BY <1>2, <2>5 DEF CsrAfter, Live
    <3>2. KeepsCsr(p, id) => id # "minstret"
      BY <1>2 DEF KeepsCsr
    <3>. QED  BY <3>1, <3>2, CsrWriteStable
  <2>6. CASE p.insn.op # "mret" /\ I!WritesCsr(p.insn) /\ p.insn.csr # "minstret"
    <3>1. CsrAfter(p, c) = I!CsrWrite(I!Count(c), p.insn.csr, p.data)
      BY <1>2, <2>6 DEF CsrAfter, Live
    <3>2. KeepsCsr(p, id) => id # p.insn.csr /\ id # "minstret"
      BY <1>2, <2>2, <2>6 DEF KeepsCsr
    <3>3. KeepsIrqState(p) => p.insn.csr # "mstatus" /\ p.insn.csr # "mie"
      BY <1>2, <2>2, <2>6 DEF KeepsIrqState
    <3>4. KeepsCsr(p, id) => I!CsrRead(CsrAfter(p, c), id) = I!CsrRead(I!Count(c), id)
      BY <2>1, <3>1, <3>2, CsrWriteStable
    <3>5. /\ ~WritesCsrOf(p, "mepc") => CsrAfter(p, c).mepc = I!Count(c).mepc
          /\ KeepsIrqState(p) => /\ CsrAfter(p, c).mie = I!Count(c).mie
                                 /\ CsrAfter(p, c).mtie = I!Count(c).mtie
      BY <2>1, <2>2, <2>6, <3>1, <3>3, CsrWriteStable
    <3>. QED  BY <3>2, <3>4, <3>5, CountStable
  <2>. QED  BY <2>3, <2>4, <2>5, <2>6
<1>3. p.valid => Live(p)
  BY DEF Live, Trap
<1>. QED  BY <1>1, <1>2, <1>3

-----------------------------------------------------------------------------
(* The state each packet meets, across a clock edge.                       *)

\* The registers EX/MEM leaves become those MEM/WB leaves.
LEMMA MovedRegs ==
  ASSUME TypeOK, NEW in \in Inputs, in.lsu = "ok",
         WriteBack, mem_wb' = mem_wb_d(in)
  PROVE  \A r \in I!RegIds :
           /\ ~Produces(ex_mem, r) => regs_mem'[r] = regs_mem[r]
           /\ Produces(ex_mem, r) /\ ex_mem.insn.op # "load" =>
                regs_mem'[r] = ex_mem.result
<1>. TAKE r \in I!RegIds
<1>1. regs'[r] = regs_mem[r]
  BY CommitFacts
<1>2. regs_mem'[r] = IF Produces(mem_wb', r) THEN mem_wb'.value ELSE regs'[r]
  BY DEF regs_mem, RegsAfter
<1>3. Produces(mem_wb', r) <=> Produces(ex_mem, r)
  BY MemOffers DEF Produces, Live
<1>4. Produces(ex_mem, r) /\ ex_mem.insn.op # "load" => mem_wb'.value = ex_mem.result
  <2>1. Produces(ex_mem, r) => Live(mem_wb') /\ I!WritesReg(ex_mem.insn)
    BY MemOffers DEF Produces
  <2>. QED  BY <2>1, MemOffers DEF I!WritesReg
<1>. QED  BY <1>1, <1>2, <1>3, <1>4

\* The operands EX computes with are those its instruction meets when it
\* retires: a younger value is forwarded, an older one was read.
LEMMA OperandsAgree ==
  ASSUME IInv, NEW in \in Inputs, in.lsu = "ok",
         WriteBack, mem_wb' = mem_wb_d(in), Live(id_ex)
  PROVE  /\ I!UsesRs1(id_ex.insn) => regs_mem'[id_ex.insn.rs1] = rs1_value
         /\ I!UsesRs2(id_ex.insn) => regs_mem'[id_ex.insn.rs2] = rs2_value
<1>1. TypeOK /\ ExRight
  BY DEF IInv
<1>2. ASSUME NEW r \in I!RegIds, NEW own, OperandRight(r, own)
      PROVE  regs_mem'[r] = Forward(r, own)
  <2>1. regs_mem[r] = IF Produces(mem_wb, r) THEN mem_wb.value ELSE regs[r]
    BY DEF regs_mem, RegsAfter
  <2>. QED  BY <1>1, <1>2, <2>1, MovedRegs DEF OperandRight, Forward
<1>3. id_ex.insn.rs1 \in I!RegIds /\ id_ex.insn.rs2 \in I!RegIds
  BY <1>1, PacketTypes, ProgramFacts
<1>. QED  BY <1>1, <1>2, <1>3 DEF ExRight, rs1_value, rs2_value

\* The CSRs EX reads are those its instruction meets when it retires.
LEMMA CsrAgrees ==
  ASSUME IInv, NEW in \in Inputs, in.lsu = "ok", csr' = csr_next,
         mem_wb' = mem_wb_d(in), Live(id_ex)
  PROVE  /\ I!IsCsrOp(id_ex.insn) =>
              I!CsrRead(csr_mem', id_ex.insn.csr) = I!CsrRead(csr, id_ex.insn.csr)
         /\ id_ex.insn.op = "mret" => csr_mem'.mepc = csr.mepc
<1>1. TypeOK /\ TrapOrder /\ CsrRight
  BY DEF IInv
<1>2. ~Trap(mem_wb) /\ ~Trap(ex_mem)
  BY <1>1 DEF TrapOrder, Live
<1>3. ~Trap(mem_wb') /\ mem_wb'.valid = ex_mem.valid /\ mem_wb.valid \in BOOLEAN
      /\ ex_mem.valid \in BOOLEAN
  BY <1>1, <1>2, MemOffers, PacketTypes
<1>4. /\ csr' = CsrAfter(mem_wb, csr) /\ csr_mem' = CsrAfter(mem_wb', csr')
      /\ csr \in I!CsrRecords /\ csr' \in I!CsrRecords
  BY <1>1, CommitFacts DEF csr_mem, TypeOK
<1>5. \A id : /\ KeepsCsr(ex_mem, id) => KeepsCsr(mem_wb', id)
              /\ WritesCsrOf(mem_wb', id) => WritesCsrOf(ex_mem, id)
  BY <1>1, MemOffers DEF KeepsCsr, WritesCsrOf, Live
<1>6. CASE I!IsCsrOp(id_ex.insn)
  <2>1. KeepsCsr(mem_wb, id_ex.insn.csr) /\ KeepsCsr(mem_wb', id_ex.insn.csr)
    BY <1>1, <1>5, <1>6 DEF CsrRight
  <2>2. I!CsrRead(csr', id_ex.insn.csr) = I!CsrRead(csr, id_ex.insn.csr)
    BY <1>2, <1>3, <1>4, <2>1, CsrAfterKeeps
  <2>3. I!CsrRead(csr_mem', id_ex.insn.csr) = I!CsrRead(csr', id_ex.insn.csr)
    BY <1>3, <1>4, <2>1, CsrAfterKeeps
  <2>4. id_ex.insn.op # "mret"
    BY <1>6 DEF I!IsCsrOp
  <2>. QED  BY <2>2, <2>3, <2>4
<1>7. CASE id_ex.insn.op = "mret"
  <2>1. ~WritesCsrOf(mem_wb, "mepc") /\ ~WritesCsrOf(mem_wb', "mepc")
    BY <1>1, <1>5, <1>7 DEF CsrRight
  <2>2. csr'.mepc = csr.mepc
    BY <1>2, <1>3, <1>4, <2>1, CsrAfterKeeps
  <2>3. csr_mem'.mepc = csr'.mepc
    BY <1>3, <1>4, <2>1, CsrAfterKeeps
  <2>4. ~I!IsCsrOp(id_ex.insn)
    BY <1>7 DEF I!IsCsrOp
  <2>. QED  BY <2>2, <2>3, <2>4
<1>. QED  BY <1>6, <1>7

\* What EX computes is what its instruction does when it retires.
LEMMA ExecutionAgrees ==
  ASSUME IInv, NEW in \in Inputs, in.lsu = "ok", WriteBack, csr' = csr_next,
         mem_wb' = mem_wb_d(in), Live(id_ex), ex_outcome # "busy"
  PROVE  /\ ex_outcome = "fault" =>
              \/ ex_cause = "illegal" /\ I!IllegalCsr(id_ex.insn)
              \/ /\ ex_cause = "misaligned"
                 /\ I!Misaligned(id_ex.insn, regs_mem'[id_ex.insn.rs1],
                                 regs_mem'[id_ex.insn.rs2])
         /\ ex_outcome # "fault" => Completes(id_ex, regs_mem')
         /\ ex_outcome = "ok" => NextPc(id_ex, regs_mem', csr_mem') = I!Plus(id_ex.pc, 1)
         /\ ex_outcome = "taken" => NextPc(id_ex, regs_mem', csr_mem') = redirect_target
         /\ ex_outcome # "fault" =>
              /\ I!WritesReg(id_ex.insn) /\ id_ex.insn.op # "load" =>
                   ex_result = Value(id_ex, regs_mem', csr_mem')
              /\ I!IsMemory(id_ex.insn) => ex_result = regs_mem'[id_ex.insn.rs1]
              /\ id_ex.insn.op = "store" => ex_data = regs_mem'[id_ex.insn.rs2]
              /\ I!WritesCsr(id_ex.insn) => ex_data = regs_mem'[id_ex.insn.rs1]
<1>. DEFINE i  == id_ex.insn
            a  == regs_mem'[i.rs1]
            b  == regs_mem'[i.rs2]
<1>1. TypeOK /\ MduRight /\ ExRight
  BY DEF IInv
<1>2. i \in Program /\ i.op \in I!Ops
  BY <1>1, PacketTypes, ProgramFacts
<1>3. (I!UsesRs1(i) => rs1_value = a) /\ (I!UsesRs2(i) => rs2_value = b)
  BY OperandsAgree
<1>4. /\ I!Taken(i, rs1_value, rs2_value) <=> I!Taken(i, a, b)
      /\ I!Misaligned(i, rs1_value, rs2_value) <=> I!Misaligned(i, a, b)
      /\ I!Taken(i, a, b) =>
           I!Target(i, id_ex.pc, rs1_value) = I!Target(i, id_ex.pc, a)
      /\ i.op \in {"add", "mul"} =>
           I!Compute(i, rs1_value, rs2_value) = I!Compute(i, a, b)
  BY <1>2, <1>3, OperandUse
<1>5. ex_outcome = "fault" => \/ ex_cause = "illegal" /\ I!IllegalCsr(i)
                              \/ ex_cause = "misaligned" /\ I!Misaligned(i, a, b)
  BY <1>1, <1>4, OutcomeFacts DEF ex_cause
<1>6. ex_outcome # "fault" => Completes(id_ex, regs_mem')
  BY <1>1, <1>4, OutcomeFacts DEF Completes, ExRight
<1>7. ex_outcome = "ok" => NextPc(id_ex, regs_mem', csr_mem') = I!Plus(id_ex.pc, 1)
  BY <1>1, <1>4, OutcomeFacts DEF NextPc
<1>8. ex_outcome = "taken" => NextPc(id_ex, regs_mem', csr_mem') = redirect_target
  BY <1>1, <1>4, OutcomeFacts, CsrAgrees DEF NextPc, redirect_target
<1>9. ASSUME ex_outcome # "fault", I!WritesReg(i), i.op # "load"
      PROVE  ex_result = Value(id_ex, regs_mem', csr_mem')
  <2>1. i.op = "mul" => mdu.result = I!Compute(i, a, b)
    <3>1. i.op = "mul" => mdu.state = "resp"
      BY <1>1, <1>9, OutcomeFacts DEF UsesMdu
    <3>. QED  BY <1>1, <1>4, <3>1 DEF MduRight
  <2>2. I!IsCsrOp(i) => I!CsrRead(csr_mem', i.csr) = I!CsrRead(csr, i.csr)
    BY CsrAgrees
  <2>3. i.op \in {"add", "mul", "jalr", "csrrw", "csrr"}
    BY <1>9 DEF I!WritesReg
  <2>. QED  BY <1>4, <2>1, <2>2, <2>3 DEF ex_result, Value, I!IsCsrOp
<1>10. /\ I!IsMemory(i) => ex_result = a
       /\ i.op = "store" => ex_data = b
       /\ I!WritesCsr(i) => ex_data = a
  BY <1>3 DEF I!IsMemory, I!WritesCsr, I!UsesRs1, I!UsesRs2, ex_result, ex_data,
              I!IsCsrOp
<1>. QED  BY <1>5, <1>6, <1>7, <1>8, <1>9, <1>10

-----------------------------------------------------------------------------
(* One clock edge preserves each part of the invariant.                    *)

\* MEM/WB receives a packet that is right about the committed state.
LEMMA WbStep ==
  ASSUME IInv, NEW in \in Inputs, WriteBack, csr' = csr_next,
         mem_wb' = mem_wb_d(in)
  PROVE  /\ WbRight'
         /\ Trap(mem_wb') => Caused(mem_wb', regs')
         /\ Live(mem_wb') => NextPc(mem_wb', regs', csr') = pc_after_mem
<1>1. TypeOK /\ MemRight /\ AddressOrder /\ TrapRight
  BY DEF IInv
<1>2. regs' = regs_mem /\ csr' = csr_mem
  BY <1>1, CommitFacts
<1>3. Live(mem_wb') => /\ Live(ex_mem)
                       /\ mem_wb'.insn = ex_mem.insn /\ mem_wb'.pc = ex_mem.pc
  BY <1>1, MemOffers DEF Live
<1>4. CASE Live(mem_wb')
  <2>1. /\ Completes(ex_mem, regs_mem)
        /\ NextPc(ex_mem, regs_mem, csr_mem) = pc_after_mem
    BY <1>1, <1>3, <1>4 DEF MemRight, AddressOrder
  <2>2. Completes(mem_wb', regs') /\ NextPc(mem_wb', regs', csr') = pc_after_mem
    BY <1>2, <1>3, <1>4, <2>1 DEF Completes, NextPc
  <2>3. I!WritesReg(mem_wb'.insn) /\ mem_wb'.insn.op # "load" =>
          mem_wb'.value = Value(mem_wb', regs', csr')
    <3>1. Value(mem_wb', regs', csr') = Value(ex_mem, regs_mem, csr_mem)
      BY <1>2, <1>3, <1>4 DEF Value
    <3>. QED  BY <1>1, <1>3, <1>4, <3>1, MemOffers DEF MemRight, I!WritesReg
  <2>4. /\ I!IsMemory(mem_wb'.insn) => mem_wb'.addr = regs'[mem_wb'.insn.rs1]
        /\ mem_wb'.insn.op = "store" => mem_wb'.data = regs'[mem_wb'.insn.rs2]
        /\ I!WritesCsr(mem_wb'.insn) => mem_wb'.data = regs'[mem_wb'.insn.rs1]
    BY <1>1, <1>2, <1>3, <1>4, MemOffers DEF MemRight
  <2>5. ~Trap(mem_wb')
    BY <1>4 DEF Live, Trap
  <2>. QED  BY <2>2, <2>3, <2>4, <2>5 DEF WbRight
<1>5. CASE ~Live(mem_wb')
  <2>1. Trap(ex_mem) => Caused(ex_mem, regs_mem)
    BY <1>1 DEF TrapRight
  <2>2. CASE Trap(ex_mem)
    <3>1. /\ mem_wb'.exc = ex_mem.exc /\ mem_wb'.insn = ex_mem.insn
      BY <1>1, <2>2, MemOffers DEF Trap
    <3>. QED  BY <1>2, <1>5, <2>1, <2>2, <3>1 DEF Caused, WbRight
  <2>3. CASE ~Trap(ex_mem)
    <3>1. Trap(mem_wb') => Live(ex_mem) /\ in.lsu = "fault"
      BY <1>1, <2>3, MemOffers, InputTypes DEF mem_is_memory
    <3>2. Trap(mem_wb') => /\ mem_wb'.exc = "access" /\ I!IsMemory(ex_mem.insn)
                           /\ mem_wb'.insn = ex_mem.insn
      BY <1>1, <3>1, MemOffers DEF Live
    <3>. QED  BY <1>5, <3>2 DEF Caused, WbRight
  <2>. QED  BY <2>2, <2>3
<1>. QED  BY <1>4, <1>5

\* EX/MEM receives a packet that is right about the state MEM/WB leaves.
LEMMA MemStep ==
  ASSUME IInv, NEW in \in Inputs, in.lsu = "ok", WriteBack, csr' = csr_next,
         mem_wb' = mem_wb_d(in), ex_mem' = ex_mem_d, ex_outcome # "busy"
  PROVE  /\ MemRight'
         /\ Trap(ex_mem') => Caused(ex_mem', regs_mem')
         /\ Live(ex_mem') =>
              NextPc(ex_mem', regs_mem', csr_mem') =
                IF ex_outcome = "taken" THEN redirect_target ELSE I!Plus(id_ex.pc, 1)
<1>1. TypeOK /\ TrapRight
  BY DEF IInv
<1>2. CASE Live(ex_mem')
  <2>1. /\ Live(id_ex) /\ ex_outcome # "fault"
        /\ ex_mem'.insn = id_ex.insn /\ ex_mem'.pc = id_ex.pc
        /\ ex_mem'.result = ex_result /\ ex_mem'.data = ex_data
    BY <1>1, <1>2, ExOffers DEF Live
  <2>2. ex_outcome \in {"ok", "taken"}
    BY <1>1, <2>1, OutcomeFacts
  <2>3. /\ Completes(id_ex, regs_mem')
        /\ NextPc(id_ex, regs_mem', csr_mem') =
             IF ex_outcome = "taken" THEN redirect_target ELSE I!Plus(id_ex.pc, 1)
    BY <2>1, <2>2, ExecutionAgrees
  <2>4. /\ I!WritesReg(id_ex.insn) /\ id_ex.insn.op # "load" =>
             ex_result = Value(id_ex, regs_mem', csr_mem')
        /\ I!IsMemory(id_ex.insn) => ex_result = regs_mem'[id_ex.insn.rs1]
        /\ id_ex.insn.op = "store" => ex_data = regs_mem'[id_ex.insn.rs2]
        /\ I!WritesCsr(id_ex.insn) => ex_data = regs_mem'[id_ex.insn.rs1]
    BY <2>1, ExecutionAgrees
  <2>5. /\ Completes(ex_mem', regs_mem')
        /\ NextPc(ex_mem', regs_mem', csr_mem') = NextPc(id_ex, regs_mem', csr_mem')
        /\ Value(ex_mem', regs_mem', csr_mem') = Value(id_ex, regs_mem', csr_mem')
    BY <2>1, <2>3 DEF Completes, NextPc, Value
  <2>6. ~Trap(ex_mem')
    BY <1>2 DEF Live, Trap
  <2>. QED  BY <2>1, <2>3, <2>4, <2>5, <2>6 DEF MemRight
<1>3. CASE ~Live(ex_mem')
  <2>1. CASE Trap(id_ex)
    <3>1. ex_mem'.exc = id_ex.exc /\ ex_mem'.insn = id_ex.insn
      BY <1>1, <2>1, ExOffers DEF Trap
    <3>. QED  BY <1>1, <1>3, <2>1, <3>1 DEF TrapRight, Caused, MemRight
  <2>2. CASE ~Trap(id_ex)
    <3>1. Trap(ex_mem') =>
            /\ Live(id_ex) /\ ex_outcome = "fault"
            /\ ex_mem'.exc = ex_cause /\ ex_mem'.insn = id_ex.insn
      BY <1>1, <2>2, ExOffers, OutcomeFacts DEF Live
    <3>2. Trap(ex_mem') =>
            \/ ex_cause = "illegal" /\ I!IllegalCsr(id_ex.insn)
            \/ /\ ex_cause = "misaligned"
               /\ I!Misaligned(id_ex.insn, regs_mem'[id_ex.insn.rs1],
                               regs_mem'[id_ex.insn.rs2])
      BY <3>1, ExecutionAgrees
    <3>. QED  BY <1>3, <3>1, <3>2 DEF Caused, MemRight
  <2>. QED  BY <2>1, <2>2
<1>. QED  BY <1>2, <1>3

\* An instruction that moves on has left the multiplier and divider idle.
LEMMA MduMoved ==
  ASSUME IInv, NEW in \in Inputs, in.lsu = "ok", MduStep(in), ex_outcome # "busy"
  PROVE  mdu'.state = "idle"
<1>1. TypeOK /\ MduRight
  BY DEF IInv
<1>2. UsesMdu => mdu.state = "resp"
  BY <1>1, OutcomeFacts
<1>3. ~UsesMdu => mdu.state = "idle"
  BY <1>1 DEF MduRight
<1>. QED  BY <1>2, <1>3 DEF MduStep, MduIdle

\* While an instruction is held, its result stays that of its operands.
LEMMA MduHeld ==
  ASSUME IInv, NEW in \in Inputs, in.lsu # "fault", ~Trap(mem_wb), MduStep(in),
         id_ex' = Refreshed, rs1_value' = rs1_value, rs2_value' = rs2_value,
         in.lsu = "wait" \/ ex_outcome = "busy"
  PROVE  MduRight'
<1>1. TypeOK /\ MduRight
  BY DEF IInv
<1>2. id_ex'.insn = id_ex.insn /\ UsesMdu' = UsesMdu
  BY <1>1, HoldFacts DEF UsesMdu, Live
<1>3. mdu'.state # "idle" =>
        UsesMdu /\ mdu'.result = I!Compute(id_ex.insn, rs1_value, rs2_value)
  <2>1. mdu.state \in {"idle", "exec", "resp"}
    BY <1>1, PayloadTypes
  <2>2. CASE mdu.state = "idle"
    BY <2>2 DEF MduStep, MduIdle
  <2>3. CASE mdu.state = "exec"
    BY <1>1, <2>3 DEF MduStep, MduIdle, MduRight
  <2>4. CASE mdu.state = "resp"
    BY <1>1, <2>4 DEF MduStep, MduIdle, MduRight
  <2>. QED  BY <2>1, <2>2, <2>3, <2>4
<1>. QED  BY <1>2, <1>3 DEF MduRight

\* What keeps the interrupt enables in one register keeps them in the next.
LEMMA KeepsIrqStateMoves ==
  ASSUME TypeOK, NEW in \in Inputs
  PROVE  /\ KeepsIrqState(ex_mem) => KeepsIrqState(mem_wb_d(in))
         /\ KeepsIrqState(id_ex) => KeepsIrqState(ex_mem_d)
         /\ KeepsIrqState(NoMemWb) /\ KeepsIrqState(NoExMem)
<1>1. KeepsIrqState(ex_mem) => KeepsIrqState(mem_wb_d(in))
  BY MemOffers DEF KeepsIrqState, WritesCsrOf, Live
<1>2. KeepsIrqState(id_ex) => KeepsIrqState(ex_mem_d)
  BY ExOffers DEF KeepsIrqState, WritesCsrOf, Live
<1>. QED  BY <1>1, <1>2, BubbleFacts DEF KeepsIrqState, Live

\* The timer's interrupt in front of nothing that disables it stays enabled.
LEMMA TimerStep ==
  ASSUME IInv, NEW in \in Inputs, ~Trap(mem_wb), csr' = csr_next,
         \/ mem_wb' = mem_wb_d(in) /\ ex_mem' \in {ex_mem_d, NoExMem}
         \/ mem_wb' = NoMemWb /\ ex_mem' = ex_mem,
         \/ id_ex' = NoIdEx
         \/ id_ex' = id_ex_d(in) /\ ex_mem' = ex_mem_d
         \/ id_ex' = Refreshed /\ (ex_mem' = NoExMem \/ mem_wb' = NoMemWb)
  PROVE  TimerRight'
<1>1. TypeOK /\ TimerRight /\ TrapOrder /\ TrapRight
  BY DEF IInv
<1>2. KeepsIrqState(mem_wb) => csr'.mie = csr.mie /\ csr'.mtie = csr.mtie
  <2>1. csr' = CsrAfter(mem_wb, csr) /\ csr \in I!CsrRecords /\ mem_wb.valid \in BOOLEAN
    BY <1>1, CommitFacts, PacketTypes DEF csr_mem, TypeOK
  <2>. QED  BY <2>1, CsrAfterKeeps
<1>3. TimerTrap(mem_wb') => TimerTrap(ex_mem) /\ mem_wb' # NoMemWb
  BY <1>1, MemOffers, InputTypes, BubbleFacts DEF TimerTrap, mem_is_memory, Trap, Live
<1>4. TimerTrap(ex_mem') =>
        \/ TimerTrap(id_ex) /\ mem_wb' = mem_wb_d(in)
        \/ TimerTrap(ex_mem) /\ mem_wb' = NoMemWb
  <2>1. TimerTrap(ex_mem_d) => TimerTrap(id_ex)
    BY <1>1, ExOffers, OutcomeFacts DEF TimerTrap, ex_cause, Trap, Live
  <2>2. ~TimerTrap(NoExMem) /\ ~TimerTrap(NoMemWb)
    BY BubbleFacts DEF TimerTrap, Trap
  <2>3. CASE mem_wb' = mem_wb_d(in) /\ ex_mem' \in {ex_mem_d, NoExMem}
    BY <2>1, <2>2, <2>3
  <2>4. CASE mem_wb' = NoMemWb /\ ex_mem' = ex_mem
    BY <2>4
  <2>. QED  BY <2>3, <2>4
<1>5. ASSUME TimerTrap(id_ex'), id_ex' = id_ex_d(in), ex_mem' = ex_mem_d
      PROVE  /\ csr'.mie /\ csr'.mtie
             /\ KeepsIrqState(ex_mem') /\ KeepsIrqState(mem_wb')
  <2>1. Ctrl!id_interrupt(Seen(in))
    BY <1>1, <1>5, IdOffers DEF TimerTrap, TrapRight
  <2>2. KeepsIrqState(ex_mem') /\ KeepsIrqState(mem_wb_d(in))
    BY <1>1, <1>5, <2>1, InterruptFacts, KeepsIrqStateMoves
  <2>3. mem_wb' = mem_wb_d(in) \/ mem_wb' = NoMemWb
    OBVIOUS
  <2>. QED  BY <1>1, <2>1, <2>2, <2>3, InterruptFacts, KeepsIrqStateMoves
<1>6. ASSUME TimerTrap(id_ex'), id_ex' = Refreshed,
             ex_mem' = NoExMem \/ mem_wb' = NoMemWb
      PROVE  /\ csr'.mie /\ csr'.mtie
             /\ KeepsIrqState(ex_mem') /\ KeepsIrqState(mem_wb')
  <2>1. TimerTrap(id_ex)
    BY <1>1, <1>6, HoldFacts DEF TimerTrap, Trap
  <2>2. KeepsIrqState(ex_mem) /\ KeepsIrqState(mem_wb) /\ csr.mie /\ csr.mtie
    BY <1>1, <2>1 DEF TimerRight
  <2>3. KeepsIrqState(mem_wb')
    BY <1>1, <2>2, KeepsIrqStateMoves
  <2>4. KeepsIrqState(ex_mem')
    <3>1. CASE ex_mem' = NoExMem
      BY <1>1, <3>1, KeepsIrqStateMoves
    <3>2. CASE ex_mem' = ex_mem
      BY <2>2, <3>2
    <3>3. CASE ex_mem' = ex_mem_d /\ mem_wb' = NoMemWb
      BY <1>1, <2>1, <3>3, ExOffers DEF KeepsIrqState, TimerTrap, Live, Trap
    <3>. QED  BY <1>6, <3>1, <3>2, <3>3
  <2>. QED  BY <1>2, <2>2, <2>3, <2>4
<1>7. ~TimerTrap(NoIdEx)
  BY BubbleFacts DEF TimerTrap, Trap
<1>8. TimerTrap(id_ex') => /\ csr'.mie /\ csr'.mtie
                           /\ KeepsIrqState(ex_mem') /\ KeepsIrqState(mem_wb')
  BY <1>5, <1>6, <1>7
<1>9. TimerTrap(ex_mem') => csr'.mie /\ csr'.mtie /\ KeepsIrqState(mem_wb')
  <2>1. CASE TimerTrap(id_ex) /\ mem_wb' = mem_wb_d(in)
    BY <1>1, <1>2, <2>1, KeepsIrqStateMoves DEF TimerRight
  <2>2. CASE TimerTrap(ex_mem) /\ mem_wb' = NoMemWb
    BY <1>1, <1>2, <2>2, KeepsIrqStateMoves DEF TimerRight
  <2>. QED  BY <1>4, <2>1, <2>2
<1>10. TimerTrap(mem_wb') => csr'.mie /\ csr'.mtie
  BY <1>1, <1>2, <1>3 DEF TimerRight
<1>. QED  BY <1>8, <1>9, <1>10 DEF TimerRight, TimerTrap, Trap

\* An instruction that leaves ID has current operands, and nothing in front
\* of it changes the CSR it needs.
LEMMA IdStep ==
  ASSUME IInv, NEW in \in Inputs, in.lsu = "ok", WriteBack,
         mem_wb' = mem_wb_d(in), ex_mem' = ex_mem_d,
         id_ex' = NoIdEx \/ id_ex' = id_ex_d(in),
         Live(id_ex') => ex_outcome = "ok" /\ ~Hazard
  PROVE  /\ ExRight'
         /\ Live(id_ex') /\ I!IsCsrOp(id_ex'.insn) =>
              /\ KeepsCsr(ex_mem', id_ex'.insn.csr)
              /\ KeepsCsr(mem_wb', id_ex'.insn.csr)
         /\ Live(id_ex') /\ id_ex'.insn.op = "mret" =>
              ~WritesCsrOf(ex_mem', "mepc") /\ ~WritesCsrOf(mem_wb', "mepc")
         /\ Live(mem_wb') /\ mem_wb'.insn.op = "mret" => ~id_ex'.valid
<1>1. TypeOK /\ CsrRight
  BY DEF IInv
<1>2. regs' = regs_mem
  BY <1>1, CommitFacts
<1>3. Live(ex_mem') => Live(id_ex) /\ ex_mem'.insn = id_ex.insn
  BY <1>1, ExOffers DEF Live
<1>4. Live(mem_wb') => Live(ex_mem) /\ mem_wb'.insn = ex_mem.insn
  BY <1>1, MemOffers DEF Live
<1>5. Live(mem_wb') /\ mem_wb'.insn.op = "mret" => ~id_ex'.valid
  BY <1>1, <1>4, IdOffers, BubbleFacts DEF CsrRight
<1>6. CASE ~Live(id_ex')
  BY <1>5, <1>6 DEF ExRight
<1>7. CASE Live(id_ex')
  <2>1. id_ex' = id_ex_d(in)
    BY <1>7, BubbleFacts DEF Live
  <2>2. /\ Live(if_id) /\ if_id.insn.op # "ecall" /\ id_ex'.insn = if_id.insn
        /\ I!UsesRs1(if_id.insn) => id_ex'.a = regs'[if_id.insn.rs1]
        /\ I!UsesRs2(if_id.insn) => id_ex'.b = regs'[if_id.insn.rs2]
    BY <1>1, <1>2, <1>7, <2>1, IdOffers DEF Live
  <2>3. ~LoadUse /\ ~CsrDependency /\ ~MretDependency /\ ~MinstretDependency
    BY <1>7, <2>2 DEF Hazard
  <2>4. /\ I!UsesRs1(if_id.insn) => OperandRight(id_ex.insn.rs1, id_ex.a)'
        /\ I!UsesRs2(if_id.insn) => OperandRight(id_ex.insn.rs2, id_ex.b)'
    BY <1>3, <2>2, <2>3 DEF LoadUse, OperandRight, Produces
  <2>5. Live(ex_mem') => ex_mem'.insn.op # "mret"
    BY <1>1, <1>3, <1>7, OutcomeFacts
  <2>6. Live(mem_wb') => mem_wb'.insn.op # "mret"
    BY <1>1, <1>4, <2>2 DEF CsrRight, Live
  <2>7. \A id : /\ WritesCsrOf(ex_mem', id) => WritesCsrOf(id_ex, id)
                /\ WritesCsrOf(mem_wb', id) => WritesCsrOf(ex_mem, id)
    BY <1>3, <1>4 DEF WritesCsrOf
  <2>8. I!IsCsrOp(if_id.insn) =>
          KeepsCsr(ex_mem', if_id.insn.csr) /\ KeepsCsr(mem_wb', if_id.insn.csr)
    BY <1>3, <1>4, <2>3, <2>5, <2>6, <2>7
       DEF CsrDependency, MinstretDependency, KeepsCsr
  <2>9. if_id.insn.op = "mret" =>
          ~WritesCsrOf(ex_mem', "mepc") /\ ~WritesCsrOf(mem_wb', "mepc")
    BY <2>3, <2>7 DEF MretDependency
  <2>. QED  BY <1>5, <2>2, <2>4, <2>8, <2>9 DEF ExRight
<1>. QED  BY <1>6, <1>7

-----------------------------------------------------------------------------
(* The invariant, one action at a time.                                    *)

\* An empty pipeline has nothing to be wrong about.
LEMMA EmptyStep ==
  ASSUME TypeOK', expect' \in I!Words, if_id' = NoIfId, id_ex' = NoIdEx,
         ex_mem' = NoExMem, mem_wb' = NoMemWb, trap_drain_q' = FALSE,
         mdu' = MduIdle
  PROVE  IInv'
<1>1. /\ ~if_id'.valid /\ ~id_ex'.valid /\ ~ex_mem'.valid /\ ~mem_wb'.valid
  BY BubbleFacts
<1>2. TrapOrder' /\ AddressOrder' /\ TrapRight' /\ TimerRight'
  BY <1>1, WordFacts DEF TrapOrder, AddressOrder, TrapRight, TimerRight, TimerTrap,
                         Trap, Live
<1>3. WbRight' /\ MemRight' /\ ExRight' /\ CsrRight' /\ MduRight'
  BY <1>1 DEF WbRight, MemRight, ExRight, CsrRight, MduRight, MduIdle, Live
<1>. QED  BY <1>2, <1>3 DEF IInv

\* A reset empties the pipeline.
LEMMA ResetStep == TypeOK' /\ Reset => IInv'
<1>. SUFFICES ASSUME TypeOK', Reset PROVE IInv'
  OBVIOUS
<1>. QED  BY EmptyStep, VectorAssumption DEF Reset

\* MEM/WB enters a trap: the pipeline is cleared, fetch goes to mtvec.
LEMMA WbTrapStep ==
  ASSUME IInv, TypeOK', NEW in \in Inputs, WbTrap(in)
  PROVE  IInv'
<1>1. csr.mtvec \in I!Words
  BY DEF IInv, TypeOK, I!CsrRecords
<1>2. Trap(mem_wb)
  BY Arbitration DEF IInv, WbTrap
<1>3. mdu' = MduIdle
  BY <1>2 DEF WbTrap, Commit, MduStep
<1>. QED  BY <1>1, <1>3, EmptyStep DEF WbTrap

\* An access fault turns EX/MEM into a trap packet and clears what follows.
LEMMA MemExceptionStep ==
  ASSUME IInv, TypeOK', NEW in \in Inputs, MemException(in)
  PROVE  IInv'
<1>1. TypeOK /\ in.lsu = "fault" /\ ~Trap(mem_wb) /\ WriteBack /\ csr' = csr_next
  BY Arbitration DEF IInv, MemException, Commit
<1>2. /\ mem_wb' = mem_wb_d(in) /\ Trap(mem_wb') /\ ~Live(mem_wb')
  BY <1>1, MemOffers DEF MemException, Live, Trap
<1>3. ~if_id'.valid /\ ~id_ex'.valid /\ ~ex_mem'.valid
  BY BubbleFacts DEF MemException
<1>4. mdu' = MduIdle
  BY <1>1 DEF MemException, Commit, MduStep
<1>5. Trap(mem_wb') => Caused(mem_wb', regs')
  BY <1>1, <1>2, WbStep
<1>6. TimerRight'
  BY <1>1, <1>2, TimerStep DEF MemException
<1>7. TrapOrder' /\ AddressOrder' /\ TrapRight'
  BY <1>2, <1>3, <1>5 DEF TrapOrder, AddressOrder, TrapRight, MemException, Trap, Live
<1>8. WbRight' /\ MemRight' /\ ExRight' /\ CsrRight' /\ MduRight'
  BY <1>2, <1>3, <1>4 DEF WbRight, MemRight, ExRight, CsrRight, MduRight, MduIdle, Live
<1>. QED  BY <1>6, <1>7, <1>8 DEF IInv

\* The access is not answered yet: everything up to EX/MEM is held, and
\* MEM/WB retires alone.
LEMMA MemWaitStep ==
  ASSUME IInv, TypeOK', NEW in \in Inputs, MemWait(in)
  PROVE  IInv'
<1>1. /\ TypeOK /\ TrapOrder /\ AddressOrder /\ MemRight /\ ExRight /\ CsrRight
      /\ TrapRight
  BY DEF IInv
<1>2. in.lsu = "wait" /\ ~Trap(mem_wb) /\ Live(ex_mem) /\ I!IsMemory(ex_mem.insn)
  BY <1>1, Arbitration, InputTypes DEF MemWait, mem_is_memory
<1>3. /\ if_id' = if_id /\ id_ex' = Refreshed /\ ex_mem' = ex_mem
      /\ mem_wb' = NoMemWb /\ expect' = expect /\ trap_drain_q' = trap_drain_q
      /\ regs' = regs_mem /\ csr' = csr_mem /\ csr' = csr_next /\ MduStep(in)
  BY <1>1, CommitFacts DEF MemWait, Commit
<1>4. ~mem_wb'.valid /\ regs_mem' = regs_mem /\ csr_mem' = csr_mem
  <2>1. ~mem_wb'.valid
    BY <1>3, BubbleFacts
  <2>2. csr_mem' = csr'
    BY <2>1 DEF csr_mem, CsrAfter, Trap
  <2>3. regs_mem' = regs'
    BY <2>1 DEF regs_mem, RegsAfter, Produces, Live, TypeOK
  <2>. QED  BY <1>3, <2>1, <2>2, <2>3
<1>5. /\ id_ex'.valid = id_ex.valid /\ id_ex'.pc = id_ex.pc
      /\ id_ex'.insn = id_ex.insn /\ id_ex'.exc = id_ex.exc
  BY <1>1, <1>3, HoldFacts
<1>6. TrapOrder' /\ AddressOrder'
  BY <1>1, <1>2, <1>3, <1>4, <1>5
     DEF TrapOrder, AddressOrder, Trap, Live, pc_after_ex, pc_after_mem, pc_after_wb
<1>7. WbRight' /\ MemRight'
  BY <1>1, <1>3, <1>4 DEF WbRight, MemRight, Live
<1>8. \A r \in I!RegIds : /\ Produces(ex_mem', r) <=> Produces(ex_mem, r)
                          /\ ~Produces(mem_wb', r)
                          /\ regs'[r] = IF Produces(mem_wb, r)
                                          THEN mem_wb.value ELSE regs[r]
  BY <1>3, <1>4 DEF Produces, Live, regs_mem, RegsAfter
<1>9. id_ex.insn.rs1 \in I!RegIds /\ id_ex.insn.rs2 \in I!RegIds
  BY <1>1, PacketTypes, ProgramFacts
<1>10. Live(id_ex') <=> Live(id_ex)
  BY <1>5 DEF Live
<1>11. Live(id_ex) =>
         /\ I!UsesRs1(id_ex.insn) =>
              id_ex'.a = IF Produces(mem_wb, id_ex.insn.rs1)
                           THEN mem_wb.value ELSE id_ex.a
         /\ I!UsesRs2(id_ex.insn) =>
              id_ex'.b = IF Produces(mem_wb, id_ex.insn.rs2)
                           THEN mem_wb.value ELSE id_ex.b
  BY <1>1, <1>3, HoldFacts
<1>12. ExRight'
  BY <1>1, <1>3, <1>5, <1>8, <1>9, <1>10, <1>11 DEF ExRight, OperandRight
<1>13. MduRight'
  <2>1. CASE ~Live(id_ex)
    <3>1. mdu.state = "idle" /\ ~UsesMdu
      BY <2>1 DEF IInv, MduRight, UsesMdu
    <3>2. mdu' = mdu
      BY <1>2, <1>3, <3>1 DEF MduStep
    <3>. QED  BY <3>1, <3>2 DEF MduRight
  <2>2. CASE Live(id_ex)
    <3>1. /\ I!UsesRs1(id_ex.insn) => rs1_value' = rs1_value
          /\ I!UsesRs2(id_ex.insn) => rs2_value' = rs2_value
      BY <1>3, <1>5, <1>8, <1>9, <1>11, <2>2 DEF rs1_value, rs2_value, Forward
    <3>2. /\ ~I!UsesRs1(id_ex.insn) => rs1_value' = rs1_value
          /\ ~I!UsesRs2(id_ex.insn) => rs2_value' = rs2_value
      BY <1>1, <1>3, <1>5 DEF rs1_value, rs2_value, Refreshed, TypeOK, IdExPackets
    <3>. QED  BY <1>2, <1>3, <3>1, <3>2, MduHeld
  <2>. QED  BY <2>1, <2>2
<1>14. CsrRight'
  BY <1>1, <1>2, <1>3, <1>4, <1>5, <1>10
     DEF CsrRight, KeepsCsr, WritesCsrOf, Live, I!IsMemory
<1>15. TrapRight'
  BY <1>1, <1>3, <1>4, <1>5 DEF TrapRight, Trap
<1>16. TimerRight'
  BY <1>2, <1>3, TimerStep
<1>. QED  BY <1>6, <1>7, <1>12, <1>13, <1>14, <1>15, <1>16 DEF IInv

\* The multiplier or divider is at work: ID/EX is held behind a bubble, what
\* is older moves on.
LEMMA ExWaitStep ==
  ASSUME IInv, TypeOK', NEW in \in Inputs, ExWait(in)
  PROVE  IInv'
<1>1. /\ TypeOK /\ TrapOrder /\ AddressOrder /\ MemRight /\ ExRight /\ CsrRight
      /\ TrapRight
  BY DEF IInv
<1>2. in.lsu = "ok" /\ ~Trap(mem_wb) /\ ex_outcome = "busy" /\ Live(id_ex)
  BY <1>1, Arbitration, OutcomeFacts DEF ExWait
<1>3. /\ if_id' = if_id /\ id_ex' = Refreshed /\ ex_mem' = NoExMem
      /\ mem_wb' = mem_wb_d(in) /\ expect' = expect /\ trap_drain_q' = trap_drain_q
      /\ regs' = regs_mem /\ csr' = csr_mem /\ csr' = csr_next
      /\ WriteBack /\ MduStep(in)
  BY <1>1, CommitFacts DEF ExWait, Commit
<1>4. /\ ~ex_mem'.valid /\ mem_wb'.valid = ex_mem.valid
      /\ ex_mem.valid => mem_wb'.pc = ex_mem.pc
      /\ ~Trap(mem_wb')
      /\ Live(mem_wb') => Live(ex_mem) /\ mem_wb'.insn = ex_mem.insn
  BY <1>1, <1>2, <1>3, MemOffers, BubbleFacts DEF TrapOrder, Live
<1>5. /\ id_ex'.valid = id_ex.valid /\ id_ex'.pc = id_ex.pc
      /\ id_ex'.insn = id_ex.insn /\ id_ex'.exc = id_ex.exc
  BY <1>1, <1>3, HoldFacts
<1>6. /\ WbRight'
      /\ Trap(mem_wb') => Caused(mem_wb', regs')
      /\ Live(mem_wb') => NextPc(mem_wb', regs', csr') = pc_after_mem
  BY <1>3, WbStep
<1>7. AddressOrder'
  <2>1. pc_after_wb' = pc_after_mem /\ pc_after_ex' = pc_after_ex
    BY <1>3, <1>4, <1>5 DEF pc_after_wb, pc_after_mem, pc_after_ex
  <2>. QED  BY <1>1, <1>3, <1>4, <1>5, <1>6, <2>1 DEF AddressOrder, Live
<1>8. TrapOrder'
  BY <1>1, <1>2, <1>3, <1>4, <1>5 DEF TrapOrder, Trap, Live
<1>9. MemRight' /\ TrapRight'
  BY <1>1, <1>2, <1>3, <1>4, <1>5, <1>6 DEF MemRight, TrapRight, Trap, Live
<1>10. id_ex.insn.rs1 \in I!RegIds /\ id_ex.insn.rs2 \in I!RegIds
  BY <1>1, PacketTypes, ProgramFacts
<1>11. \A r \in I!RegIds :
         /\ ~Produces(ex_mem', r)
         /\ Produces(mem_wb', r) <=> Produces(ex_mem, r)
         /\ Produces(ex_mem, r) /\ ex_mem.insn.op # "load" =>
              mem_wb'.value = ex_mem.result
         /\ regs'[r] = IF Produces(mem_wb, r) THEN mem_wb.value ELSE regs[r]
  <2>. TAKE r \in I!RegIds
  <2>1. Produces(mem_wb', r) <=> Produces(ex_mem, r)
    BY <1>1, <1>2, <1>3, MemOffers DEF Produces, Live
  <2>2. Produces(ex_mem, r) /\ ex_mem.insn.op # "load" => mem_wb'.value = ex_mem.result
    <3>1. Produces(ex_mem, r) => Live(mem_wb') /\ I!WritesReg(ex_mem.insn)
      BY <2>1 DEF Produces
    <3>. QED  BY <1>1, <1>3, <3>1, MemOffers DEF I!WritesReg
  <2>3. regs'[r] = IF Produces(mem_wb, r) THEN mem_wb.value ELSE regs[r]
    BY <1>3 DEF regs_mem, RegsAfter
  <2>. QED  BY <1>4, <2>1, <2>2, <2>3 DEF Produces, Live
<1>12. /\ I!UsesRs1(id_ex.insn) =>
            id_ex'.a = IF Produces(mem_wb, id_ex.insn.rs1)
                         THEN mem_wb.value ELSE id_ex.a
       /\ I!UsesRs2(id_ex.insn) =>
            id_ex'.b = IF Produces(mem_wb, id_ex.insn.rs2)
                         THEN mem_wb.value ELSE id_ex.b
  BY <1>1, <1>2, <1>3, HoldFacts
<1>13. ExRight'
  BY <1>1, <1>2, <1>5, <1>10, <1>11, <1>12 DEF ExRight, OperandRight
<1>14. MduRight'
  <2>1. /\ I!UsesRs1(id_ex.insn) => rs1_value' = rs1_value
        /\ I!UsesRs2(id_ex.insn) => rs2_value' = rs2_value
    BY <1>1, <1>2, <1>5, <1>10, <1>11, <1>12
       DEF rs1_value, rs2_value, Forward, ExRight, OperandRight
  <2>2. /\ ~I!UsesRs1(id_ex.insn) => rs1_value' = rs1_value
        /\ ~I!UsesRs2(id_ex.insn) => rs2_value' = rs2_value
    BY <1>1, <1>3, <1>5 DEF rs1_value, rs2_value, Refreshed, TypeOK, IdExPackets
  <2>. QED  BY <1>2, <1>3, <2>1, <2>2, MduHeld
<1>15. CsrRight'
  BY <1>1, <1>2, <1>4, <1>5 DEF CsrRight, KeepsCsr, WritesCsrOf, Live
<1>16. TimerRight'
  BY <1>2, <1>3, TimerStep
<1>. QED  BY <1>6, <1>7, <1>8, <1>9, <1>13, <1>14, <1>15, <1>16 DEF IInv

\* When EX moves on, the parts of the invariant that do not depend on what
\* the controller does with IF and ID.
LEMMA MoveStep ==
  ASSUME IInv, NEW in \in Inputs, in.lsu = "ok", ~Trap(mem_wb), Commit(in),
         mem_wb' = mem_wb_d(in), ex_mem' = ex_mem_d, ex_outcome # "busy",
         id_ex' = NoIdEx \/ id_ex' = id_ex_d(in),
         Live(id_ex') => ex_outcome = "ok" /\ ~Hazard,
         ex_outcome = "taken" => ~id_ex'.valid /\ ~if_id'.valid,
         Trap(if_id') => if_id'.exc = "fetch"
  PROVE  /\ WbRight' /\ MemRight' /\ ExRight' /\ MduRight' /\ CsrRight'
         /\ TrapRight' /\ TimerRight'
<1>1. TypeOK /\ TrapRight /\ WriteBack /\ csr' = csr_next /\ MduStep(in)
  BY DEF IInv, Commit
<1>2. WbRight' /\ (Trap(mem_wb') => Caused(mem_wb', regs'))
  BY <1>1, WbStep
<1>3. MemRight' /\ (Trap(ex_mem') => Caused(ex_mem', regs_mem'))
  BY <1>1, MemStep
<1>4. /\ ExRight'
      /\ Live(id_ex') /\ I!IsCsrOp(id_ex'.insn) =>
           /\ KeepsCsr(ex_mem', id_ex'.insn.csr)
           /\ KeepsCsr(mem_wb', id_ex'.insn.csr)
      /\ Live(id_ex') /\ id_ex'.insn.op = "mret" =>
           ~WritesCsrOf(ex_mem', "mepc") /\ ~WritesCsrOf(mem_wb', "mepc")
      /\ Live(mem_wb') /\ mem_wb'.insn.op = "mret" => ~id_ex'.valid
  BY <1>1, IdStep
<1>5. MduRight'
  BY <1>1, MduMoved DEF MduRight
<1>6. Live(ex_mem') /\ ex_mem'.insn.op = "mret" => ~id_ex'.valid /\ ~if_id'.valid
  BY <1>1, ExOffers, OutcomeFacts DEF Live
<1>7. Trap(id_ex') => \/ id_ex'.exc \in {"fetch", "timer"}
                      \/ id_ex'.exc = "ecall" /\ id_ex'.insn.op = "ecall"
  BY <1>1, IdOffers, BubbleFacts DEF TrapRight, Trap
<1>8. CsrRight' /\ TrapRight'
  BY <1>2, <1>3, <1>4, <1>6, <1>7 DEF CsrRight, TrapRight
<1>9. TimerRight'
  BY <1>1, TimerStep
<1>. QED  BY <1>2, <1>3, <1>4, <1>5, <1>8, <1>9

\* The addresses stay in order if what follows EX/MEM is what followed ID/EX,
\* or what EX has redirected fetch to.
LEMMA MoveAddresses ==
  ASSUME IInv, NEW in \in Inputs, in.lsu = "ok", Commit(in),
         mem_wb' = mem_wb_d(in), ex_mem' = ex_mem_d, ex_outcome # "busy",
         ex_outcome = "ok" => pc_after_mem' = pc_after_ex,
         ex_outcome = "taken" => pc_after_mem' = redirect_target,
         Live(id_ex') => pc_after_ex' = I!Plus(id_ex'.pc, 1),
         if_id'.valid => expect' = I!Plus(if_id'.pc, 1)
  PROVE  AddressOrder'
<1>1. TypeOK /\ AddressOrder /\ WriteBack /\ csr' = csr_next
  BY DEF IInv, Commit
<1>2. ex_mem'.valid = id_ex.valid /\ (id_ex.valid => ex_mem'.pc = id_ex.pc)
  BY <1>1, ExOffers
<1>3. ~id_ex.valid => ex_outcome = "ok"
  BY <1>1, OutcomeFacts DEF Live
<1>4. Live(mem_wb') => pc_after_wb' = NextPc(mem_wb', regs', csr')
  <2>1. pc_after_wb' = pc_after_mem
    BY <1>2, <1>3 DEF pc_after_wb, pc_after_mem
  <2>. QED  BY <1>1, <2>1, WbStep
<1>5. Live(ex_mem') => pc_after_mem' = NextPc(ex_mem', regs_mem', csr_mem')
  <2>1. Live(ex_mem') => Live(id_ex) /\ ex_outcome \in {"ok", "taken"}
    BY <1>1, ExOffers, OutcomeFacts
  <2>. QED  BY <1>1, <2>1, MemStep DEF AddressOrder
<1>. QED  BY <1>4, <1>5 DEF AddressOrder

\* EX raises an exception: what follows is cleared and fetch stops.
LEMMA ExExceptionStep ==
  ASSUME IInv, TypeOK', NEW in \in Inputs, ExException(in)
  PROVE  IInv'
<1>1. TypeOK /\ TrapOrder
  BY DEF IInv
<1>2. in.lsu = "ok" /\ ~Trap(mem_wb) /\ ex_outcome = "fault" /\ Live(id_ex)
  BY <1>1, Arbitration, OutcomeFacts DEF ExException
<1>3. /\ ~if_id'.valid /\ ~id_ex'.valid
      /\ ~Trap(mem_wb') /\ Trap(ex_mem')
  BY <1>1, <1>2, MemOffers, ExOffers, BubbleFacts DEF ExException, TrapOrder, Live
<1>4. TrapOrder'
  BY <1>3 DEF TrapOrder, ExException, Trap
<1>5. AddressOrder'
  BY <1>2, <1>3, MoveAddresses DEF ExException, Live
<1>6. /\ WbRight' /\ MemRight' /\ ExRight' /\ MduRight' /\ CsrRight'
      /\ TrapRight' /\ TimerRight'
  BY <1>2, <1>3, MoveStep DEF ExException, Live, Trap
<1>. QED  BY <1>4, <1>5, <1>6 DEF IInv

\* A trap packet moves towards MEM/WB with nothing behind it.
LEMMA TrapDrainStep ==
  ASSUME IInv, TypeOK', NEW in \in Inputs, TrapDrain(in)
  PROVE  IInv'
<1>1. TypeOK /\ TrapOrder
  BY DEF IInv
<1>2. in.lsu = "ok" /\ ~Trap(mem_wb) /\ trap_drain_q
  BY <1>1, Arbitration DEF TrapDrain
<1>3. ~if_id.valid /\ ~Live(id_ex) /\ ex_outcome = "ok"
  <2>1. Trap(id_ex) \/ Trap(ex_mem)
    BY <1>1, <1>2 DEF TrapOrder
  <2>. QED  BY <1>1, <1>2, <2>1, OutcomeFacts DEF TrapOrder, Trap, Live
<1>4. /\ if_id' = if_id /\ expect' = expect /\ trap_drain_q' = trap_drain_q
      /\ id_ex' = id_ex_d(in) /\ ~id_ex'.valid
      /\ Trap(ex_mem') <=> Trap(id_ex)
      /\ Trap(mem_wb') <=> Trap(ex_mem)
      /\ ex_mem'.valid = id_ex.valid
  BY <1>1, <1>2, <1>3, MemOffers, ExOffers, IdOffers DEF TrapDrain
<1>5. TrapOrder'
  BY <1>1, <1>2, <1>3, <1>4 DEF TrapOrder, Trap
<1>6. AddressOrder'
  <2>1. pc_after_mem' = pc_after_ex
    BY <1>4 DEF pc_after_mem, pc_after_ex
  <2>. QED  BY <1>2, <1>3, <1>4, <2>1, MoveAddresses DEF TrapDrain, Live
<1>7. /\ WbRight' /\ MemRight' /\ ExRight' /\ MduRight' /\ CsrRight'
      /\ TrapRight' /\ TimerRight'
  BY <1>2, <1>3, <1>4, MoveStep DEF TrapDrain, Live, Trap
<1>. QED  BY <1>5, <1>6, <1>7 DEF IInv

\* EX redirects fetch: what follows was fetched from the wrong address.
LEMMA ExRedirectStep ==
  ASSUME IInv, TypeOK', NEW in \in Inputs, ExRedirect(in)
  PROVE  IInv'
<1>1. TypeOK /\ TrapOrder
  BY DEF IInv
<1>2. in.lsu = "ok" /\ ~Trap(mem_wb) /\ ex_outcome = "taken" /\ ~trap_drain_q
  BY <1>1, Arbitration DEF ExRedirect
<1>3. /\ ~if_id'.valid /\ ~id_ex'.valid
      /\ ~Trap(mem_wb') /\ ~Trap(ex_mem')
      /\ ~trap_drain_q' /\ expect' = redirect_target /\ expect' # NoPC
  <2>1. ~Trap(ex_mem) /\ ~Trap(id_ex)
    BY <1>1, <1>2 DEF TrapOrder
  <2>2. redirect_target # NoPC
    BY <1>1, ExecuteTypes, WordFacts
  <2>. QED  BY <1>1, <1>2, <2>1, <2>2, MemOffers, ExOffers, BubbleFacts DEF ExRedirect
<1>4. TrapOrder'
  BY <1>3 DEF TrapOrder, Trap
<1>5. AddressOrder'
  <2>1. pc_after_mem' = redirect_target
    BY <1>3 DEF pc_after_mem, pc_after_ex
  <2>. QED  BY <1>2, <1>3, <2>1, MoveAddresses DEF ExRedirect, Live
<1>6. /\ WbRight' /\ MemRight' /\ ExRight' /\ MduRight' /\ CsrRight'
      /\ TrapRight' /\ TimerRight'
  BY <1>2, <1>3, MoveStep DEF ExRedirect, Live, Trap
<1>. QED  BY <1>4, <1>5, <1>6 DEF IInv

\* ID waits for a hazard or for the interrupt enables; a bubble enters EX.
LEMMA HoldIdStep ==
  ASSUME IInv, TypeOK', NEW in \in Inputs, HoldId(in)
  PROVE  IInv'
<1>1. TypeOK /\ TrapOrder /\ AddressOrder /\ TrapRight
  BY DEF IInv
<1>2. in.lsu = "ok" /\ ~Trap(mem_wb) /\ ex_outcome = "ok" /\ ~trap_drain_q
  BY <1>1, Arbitration DEF HoldId
<1>3. /\ if_id' = if_id /\ expect' = expect /\ ~id_ex'.valid
      /\ ~Trap(mem_wb') /\ ~Trap(ex_mem')
      /\ trap_drain_q' = trap_drain_q
  <2>1. ~Trap(ex_mem) /\ ~Trap(id_ex)
    BY <1>1, <1>2 DEF TrapOrder
  <2>. QED  BY <1>1, <1>2, <2>1, MemOffers, ExOffers, BubbleFacts DEF HoldId
<1>4. TrapOrder'
  BY <1>1, <1>2, <1>3 DEF TrapOrder, Trap
<1>5. AddressOrder'
  <2>1. pc_after_mem' = pc_after_ex
    BY <1>3 DEF pc_after_mem, pc_after_ex
  <2>. QED  BY <1>1, <1>2, <1>3, <2>1, MoveAddresses DEF HoldId, Live, AddressOrder
<1>6. /\ WbRight' /\ MemRight' /\ ExRight' /\ MduRight' /\ CsrRight'
      /\ TrapRight' /\ TimerRight'
  BY <1>1, <1>2, <1>3, MoveStep DEF HoldId, Live, TrapRight
<1>. QED  BY <1>4, <1>5, <1>6 DEF IInv

\* An exception or the timer's interrupt enters EX; fetch stops.
LEMMA TrapFromIdStep ==
  ASSUME IInv, TypeOK', NEW in \in Inputs, TrapFromId(in)
  PROVE  IInv'
<1>1. TypeOK /\ TrapOrder
  BY DEF IInv
<1>2. in.lsu = "ok" /\ ~Trap(mem_wb) /\ ex_outcome = "ok" /\ ~trap_drain_q
  BY <1>1, Arbitration DEF TrapFromId
<1>3. Trap(id_ex_d(in)) /\ if_id.valid
  <2>1. CASE Action(in) = "ID_EXCEPTION"
    BY <1>1, <2>1, Arbitration, IdOffers
  <2>2. CASE Action(in) = "ID_INTERRUPT"
    BY <1>1, <2>2, Arbitration, IdOffers, InterruptFacts DEF Live
  <2>. QED  BY <2>1, <2>2 DEF TrapFromId
<1>4. /\ id_ex' = id_ex_d(in) /\ Trap(id_ex') /\ id_ex'.valid
      /\ id_ex'.pc = if_id.pc /\ ~if_id'.valid
      /\ ~Trap(mem_wb') /\ ~Trap(ex_mem')
  <2>1. ~Trap(ex_mem) /\ ~Trap(id_ex)
    BY <1>1, <1>2 DEF TrapOrder
  <2>. QED  BY <1>1, <1>2, <1>3, <2>1, MemOffers, ExOffers, IdOffers, BubbleFacts
            DEF TrapFromId
<1>5. TrapOrder'
  BY <1>4 DEF TrapOrder, TrapFromId, Trap
<1>6. ~Live(id_ex')
  BY <1>4 DEF Live, Trap
<1>7. AddressOrder'
  <2>1. pc_after_mem' = pc_after_ex
    BY <1>3, <1>4 DEF pc_after_mem, pc_after_ex
  <2>. QED  BY <1>2, <1>4, <1>6, <2>1, MoveAddresses DEF TrapFromId
<1>8. /\ WbRight' /\ MemRight' /\ ExRight' /\ MduRight' /\ CsrRight'
      /\ TrapRight' /\ TimerRight'
  BY <1>2, <1>4, <1>6, MoveStep DEF TrapFromId, Trap
<1>. QED  BY <1>5, <1>7, <1>8 DEF IInv

\* Every packet moves on and IF may deliver the next one.
LEMMA AdvanceStep ==
  ASSUME IInv, TypeOK', NEW in \in Inputs, Advance(in)
  PROVE  IInv'
<1>1. TypeOK /\ TrapOrder /\ AddressOrder
  BY DEF IInv
<1>2. /\ in.lsu = "ok" /\ ~Trap(mem_wb) /\ ex_outcome = "ok" /\ ~trap_drain_q
      /\ ~Hazard /\ ~Ctrl!id_interrupt(Seen(in))
      /\ ~(if_id.valid /\ (if_id.exc # "none" \/ if_id.insn.op = "ecall"))
  BY <1>1, Arbitration DEF Advance
<1>3. expect # NoPC /\ expect \in I!Words /\ expect \in Nat
  BY <1>1, <1>2, SizeAssumption DEF TrapOrder, TypeOK, I!Words
<1>4. \/ ~if_id'.valid /\ expect' = expect
      \/ /\ if_id'.valid /\ if_id'.pc = expect /\ expect' = I!Plus(expect, 1)
         /\ if_id'.exc \in {"none", "fetch"}
  <2>1. CASE if_id' = NoIfId /\ UNCHANGED expect
    BY <2>1, BubbleFacts
  <2>2. CASE /\ if_id' \in
                  [valid: {TRUE}, pc: {expect}, insn: Insns, exc: {"none"}]
                    \cup [valid: {TRUE}, pc: {expect}, insn: {NoInsn}, exc: {"fetch"}]
             /\ expect' = I!Plus(expect, 1)
    BY <2>2
  <2>. QED  BY <2>1, <2>2 DEF Advance
<1>5. /\ id_ex' = id_ex_d(in) /\ id_ex'.valid = if_id.valid
      /\ if_id.valid => id_ex'.pc = if_id.pc
      /\ ~Trap(id_ex')
      /\ ~Trap(mem_wb') /\ ~Trap(ex_mem')
      /\ trap_drain_q' = trap_drain_q
  <2>1. ~Trap(ex_mem) /\ ~Trap(id_ex)
    BY <1>1, <1>2 DEF TrapOrder
  <2>2. ~Trap(id_ex_d(in))
    <3>1. CASE if_id.valid
      <4>1. Live(id_ex_d(in))
        BY <1>1, <1>2, <3>1, IdOffers
      <4>. QED  BY <4>1 DEF Live, Trap
    <3>2. CASE ~if_id.valid
      BY <1>1, <3>2, IdOffers DEF Trap
    <3>. QED  BY <3>1, <3>2
  <2>. QED  BY <1>1, <1>2, <2>1, <2>2, MemOffers, ExOffers, IdOffers DEF Advance
<1>6. TrapOrder'
  <2>1. expect' # NoPC
    BY <1>3, <1>4, WordFacts
  <2>. QED  BY <1>2, <1>5, <2>1 DEF TrapOrder
<1>7. AddressOrder'
  <2>1. pc_after_ex' = expect
    BY <1>4 DEF pc_after_ex
  <2>2. pc_after_mem' = pc_after_ex
    BY <1>5, <2>1 DEF pc_after_mem, pc_after_ex
  <2>3. Live(id_ex') => pc_after_ex' = I!Plus(id_ex'.pc, 1)
    BY <1>1, <1>5, <2>1 DEF AddressOrder, Live
  <2>4. if_id'.valid => expect' = I!Plus(if_id'.pc, 1)
    BY <1>4
  <2>. QED  BY <1>2, <2>2, <2>3, <2>4, MoveAddresses DEF Advance
<1>8. /\ WbRight' /\ MemRight' /\ ExRight' /\ MduRight' /\ CsrRight'
      /\ TrapRight' /\ TimerRight'
  <2>1. Trap(if_id') => if_id'.exc = "fetch"
    BY <1>4 DEF Trap
  <2>. QED  BY <1>2, <1>5, <2>1, MoveStep DEF Advance
<1>. QED  BY <1>6, <1>7, <1>8 DEF IInv

-----------------------------------------------------------------------------
(* The theorems.                                                           *)

\* The core comes out of reset with an empty pipeline.
LEMMA Initially == Init => IInv
<1>. SUFFICES ASSUME Init PROVE IInv
  OBVIOUS
<1>1. /\ ~if_id.valid /\ ~id_ex.valid /\ ~ex_mem.valid /\ ~mem_wb.valid
  BY BubbleFacts DEF Init
<1>2. TypeOK
  <2>1. csr \in I!CsrRecords
    BY VectorAssumption, WordFacts, SizeAssumption DEF Init, I!CsrRecords
  <2>. QED  BY <2>1, VectorAssumption, WordFacts, BubbleFacts DEF Init, TypeOK, MduIdle
<1>3. TrapOrder /\ AddressOrder /\ TrapRight /\ TimerRight
  BY <1>1, VectorAssumption, WordFacts
     DEF Init, TrapOrder, AddressOrder, TrapRight, TimerRight, TimerTrap, Trap, Live
<1>4. WbRight /\ MemRight /\ ExRight /\ CsrRight /\ MduRight
  BY <1>1 DEF Init, WbRight, MemRight, ExRight, CsrRight, MduRight, MduIdle, Live
<1>. QED  BY <1>2, <1>3, <1>4 DEF IInv

\* Every clock edge keeps every packet right, whichever controller state it
\* is in.
LEMMA InductiveStep == IInv /\ [Next]_vars => IInv'
<1>. SUFFICES ASSUME IInv, [Next]_vars PROVE IInv'
  OBVIOUS
<1>1. TypeOK'
  BY TypeStep DEF IInv
<1>2. CASE UNCHANGED vars
  BY <1>2
     DEF vars, pipe, IInv, TypeOK, TrapOrder, AddressOrder, WbRight, MemRight,
         ExRight, MduRight, CsrRight, TrapRight, TimerRight, TimerTrap,
         pc_after_ex, pc_after_mem, pc_after_wb, regs_mem, csr_mem, OperandRight,
         UsesMdu, rs1_value, rs2_value, Forward
<1>3. CASE Reset
  BY <1>1, <1>3, ResetStep
<1>4. ASSUME NEW in \in Inputs, Clock(in) PROVE IInv'
  BY <1>1, <1>4, WbTrapStep, MemExceptionStep, MemWaitStep, ExExceptionStep,
     ExWaitStep, TrapDrainStep, ExRedirectStep, HoldIdStep, TrapFromIdStep,
     AdvanceStep
     DEF Clock
<1>. QED  BY <1>2, <1>3, <1>4 DEF Next

\* Every packet in flight is right about the architectural state it meets.
THEOREM PipelineRight == Spec => []IInv
BY Initially, InductiveStep, PTL DEF Spec

\* The pipeline registers, the register file and the CSRs hold packets,
\* words and CSR values, and x0 stays zero.
THEOREM TypeCorrect == Spec => []TypeOK
<1>1. IInv => TypeOK
  BY DEF IInv
<1>. QED  BY <1>1, PipelineRight, PTL

\* The controller is only ever told of a wait, a fault, a redirect or an
\* interlock that a packet in the stages causes.
THEOREM InputsAreJustified == Spec => []InputsJustified
<1>1. ASSUME TypeOK, NEW in \in Inputs PROVE Seen(in) \in Ctrl!Inputs
  <2>1. in.lsu \in Ctrl!LsuOutcomes
    <3>1. Ctrl!mem_is_memory <=> mem_is_memory
      BY <1>1, ClassFacts, KindFacts, PacketTypes DEF Ctrl!mem_is_memory, mem_is_memory
    <3>. QED  BY <1>1, <3>1, InputTypes DEF Ctrl!LsuOutcomes
  <2>2. ex_outcome \in Ctrl!ExOutcomes
    <3>1. CASE ~Live(id_ex)
      BY <1>1, <3>1, ClassFacts, PacketTypes DEF Ctrl!ExOutcomes, ex_outcome
    <3>2. CASE Live(id_ex)
      <4>1. /\ Ctrl!ExOutcomes = Ctrl!ExOutcomesOf(KindOf(id_ex.insn))
            /\ id_ex.insn.op \in I!Ops /\ id_ex.insn \in Program
        BY <1>1, <3>2, ClassFacts, PacketTypes, ProgramFacts DEF Ctrl!ExOutcomes
      <4>2. ex_outcome \in
              CASE id_ex.insn.op = "mul" -> {"ok", "busy"}
                [] id_ex.insn.op \in {"branch", "jalr"} -> {"ok", "taken", "fault"}
                [] id_ex.insn.op = "mret" -> {"taken"}
                [] id_ex.insn.op \in {"csrrw", "csrr"} -> {"ok", "fault"}
                [] OTHER -> {"ok"}
        BY <3>2, <4>1 DEF ex_outcome, UsesMdu, I!IllegalCsr, I!IsCsrOp, I!Misaligned,
                          I!Taken, I!Ops
      <4>. QED  BY <4>1, <4>2, KindFacts
                DEF Ctrl!ExOutcomesOf, Ctrl!AllKinds, I!IsCsrOp, I!Ops
    <3>. QED  BY <3>1, <3>2
  <2>3. mtimer_irq_eligible(in) \in BOOLEAN
    BY DEF mtimer_irq_eligible
  <2>4. Hazard \in Ctrl!HazardOutcomes
    <3>1. Hazard =>
            /\ Live(if_id)
            /\ \/ Live(id_ex) /\ id_ex.insn.op = "load"
               \/ /\ I!IsCsrOp(if_id.insn) \/ if_id.insn.op = "mret"
                  /\ Live(id_ex) \/ Live(ex_mem)
      BY DEF Hazard, LoadUse, CsrDependency, MretDependency, MinstretDependency,
             WritesCsrOf
    <3>2. Hazard \in BOOLEAN
      BY DEF Hazard
    <3>3. /\ Ctrl!Live(ClassOf(if_id)) <=> Live(if_id)
          /\ Ctrl!Live(ClassOf(id_ex)) <=> Live(id_ex)
          /\ Ctrl!Live(ClassOf(ex_mem)) <=> Live(ex_mem)
      BY <1>1, ClassFacts, PacketTypes
    <3>4. /\ Live(id_ex) => (ClassOf(id_ex).kind = "load" <=> id_ex.insn.op = "load")
          /\ Live(if_id) => (ClassOf(if_id).kind \in {"csr", "irqcsr", "mret"} <=>
                               I!IsCsrOp(if_id.insn) \/ if_id.insn.op = "mret")
      BY <1>1, ClassFacts, KindFacts, PacketTypes
    <3>. QED  BY <3>1, <3>2, <3>3, <3>4 DEF Ctrl!HazardOutcomes
  <2>. QED  BY <2>1, <2>2, <2>3, <2>4 DEF Seen, Ctrl!Inputs
<1>2. TypeOK => InputsJustified
  BY <1>1 DEF InputsJustified
<1>. QED  BY <1>2, TypeCorrect, PTL

\* The packet that follows MEM/WB, or the address fetch waits for, is the
\* next to retire.
LEMMA NextToRetire ==
  ASSUME IInv, NEW in \in Inputs, Clock(in), ~Trap(mem_wb)
  PROVE  ArchPc' = pc_after_wb
<1>1. TypeOK /\ TrapOrder
  BY DEF IInv
<1>2. ~WbTrap(in)
  BY <1>1, Arbitration DEF WbTrap
<1>3. ArchPc' = IF mem_wb'.valid THEN mem_wb'.pc ELSE pc_after_wb'
  BY DEF ArchPc, pc_after_wb, pc_after_mem, pc_after_ex
<1>4. CASE MemWait(in)
  <2>1. ex_mem.valid /\ ~mem_wb'.valid /\ ex_mem' = ex_mem
    BY <1>1, <1>4, Arbitration, InputTypes, BubbleFacts DEF MemWait, mem_is_memory, Live
  <2>. QED  BY <1>3, <2>1 DEF pc_after_wb
<1>5. CASE MemException(in)
  <2>1. ex_mem.valid
    BY <1>1, <1>5, Arbitration, InputTypes DEF MemException, mem_is_memory, Live
  <2>. QED  BY <1>1, <1>3, <1>5, <2>1, MemOffers DEF MemException, pc_after_wb
<1>6. CASE ~MemWait(in) /\ ~MemException(in)
  <2>1. mem_wb' = mem_wb_d(in)
    BY <1>2, <1>6 DEF Clock, WbTrap, ExException, ExWait, TrapDrain, ExRedirect,
                      HoldId, TrapFromId, Advance
  <2>2. CASE ex_mem.valid
    BY <1>1, <1>3, <2>1, <2>2, MemOffers DEF pc_after_wb
  <2>3. CASE ~ex_mem.valid
    <3>1. ~mem_wb'.valid /\ pc_after_wb = pc_after_mem
      BY <1>1, <2>1, <2>3, MemOffers DEF pc_after_wb
    <3>2. CASE ExWait(in)
      <4>1. /\ id_ex'.valid = id_ex.valid /\ id_ex'.pc = id_ex.pc
            /\ if_id' = if_id /\ expect' = expect /\ ~ex_mem'.valid
        BY <1>1, <3>2, HoldFacts, BubbleFacts DEF ExWait
      <4>. QED  BY <1>3, <3>1, <4>1 DEF pc_after_wb, pc_after_mem, pc_after_ex
    <3>3. CASE ~ExWait(in)
      <4>1. ex_mem' = ex_mem_d
        BY <1>2, <1>6, <3>3 DEF Clock, ExException, TrapDrain, ExRedirect, HoldId,
                                TrapFromId, Advance
      <4>2. CASE id_ex.valid
        BY <1>1, <1>3, <3>1, <4>1, <4>2, ExOffers DEF pc_after_wb, pc_after_mem
      <4>3. CASE ~id_ex.valid
        <5>1. /\ ~ex_mem'.valid /\ pc_after_mem = pc_after_ex /\ ex_outcome = "ok"
          BY <1>1, <4>1, <4>3, ExOffers, OutcomeFacts DEF pc_after_mem, Live
        <5>2. pc_after_mem' = pc_after_ex
          <6>1. CASE Advance(in)
            <7>1. /\ id_ex'.valid = if_id.valid
                  /\ if_id.valid => id_ex'.pc = if_id.pc
              BY <1>1, <6>1, IdOffers DEF Advance
            <7>2. pc_after_ex' = expect
              BY <6>1, BubbleFacts DEF Advance, pc_after_ex
            <7>. QED  BY <7>1, <7>2 DEF pc_after_mem, pc_after_ex
          <6>2. CASE TrapFromId(in)
            <7>1. if_id.valid
              BY <1>1, <6>2, Arbitration, InterruptFacts DEF TrapFromId, Live
            <7>. QED  BY <1>1, <6>2, <7>1, IdOffers
                      DEF TrapFromId, pc_after_mem, pc_after_ex
          <6>3. CASE HoldId(in) \/ TrapDrain(in)
            <7>1. /\ if_id' = if_id /\ expect' = expect
                  /\ id_ex' = NoIdEx \/ (~if_id.valid /\ id_ex' = id_ex_d(in))
              BY <1>1, <6>3, Arbitration DEF HoldId, TrapDrain, TrapOrder
            <7>. QED  BY <1>1, <7>1, IdOffers, BubbleFacts DEF pc_after_mem, pc_after_ex
          <6>4. ~ExException(in) /\ ~ExRedirect(in)
            BY <1>1, <5>1, Arbitration DEF ExException, ExRedirect
          <6>. QED  BY <1>2, <1>6, <3>3, <6>1, <6>2, <6>3, <6>4 DEF Clock
        <5>. QED  BY <1>3, <3>1, <5>1, <5>2 DEF pc_after_wb
      <4>. QED  BY <4>2, <4>3
    <3>. QED  BY <3>2, <3>3
  <2>. QED  BY <2>2, <2>3
<1>. QED  BY <1>4, <1>5, <1>6

\* What a live packet in MEM/WB commits is what its instruction does.
LEMMA RetirementStep ==
  ASSUME IInv, NEW in \in Inputs, Clock(in), Live(mem_wb)
  PROVE  Retirement
<1>. DEFINE i == mem_wb.insn
<1>1. TypeOK /\ WbRight /\ AddressOrder
  BY DEF IInv
<1>2. Commit(in) /\ WriteBack /\ csr' = csr_next
  BY DEF Clock, WbTrap, MemException, MemWait, ExException, ExWait, TrapDrain,
         ExRedirect, HoldId, TrapFromId, Advance, Commit
<1>3. ~Trap(mem_wb) /\ mem_wb.valid /\ ArchPc = mem_wb.pc
  BY DEF Live, Trap, ArchPc
<1>4. ArchPc' = NextPc(mem_wb, regs, csr)
  BY <1>1, <1>3, NextToRetire DEF AddressOrder
<1>5. /\ i.op # "ecall" /\ ~I!IllegalCsr(i)
      /\ ~I!Misaligned(i, I!Operand1(i), I!Operand2(i))
  BY <1>1 DEF WbRight, Completes, I!Operand1, I!Operand2
<1>6. regs' = IF I!WritesReg(i) /\ i.rd # 0
                THEN [regs EXCEPT ![i.rd] = I!Written(i, mem_wb.value)] ELSE regs
  <2>1. I!WritesReg(i) => mem_wb.value = I!Written(i, mem_wb.value)
    <3>1. I!Written(i, mem_wb.value) =
            IF i.op = "load" THEN mem_wb.value ELSE Value(mem_wb, regs, csr)
      BY <1>3 DEF I!Written, Value, I!IsCsrOp, I!Operand1, I!Operand2
    <3>. QED  BY <1>1, <3>1 DEF WbRight
  <2>2. regs \in [I!RegIds -> I!Words] /\ i.rd \in I!RegIds
    BY <1>1, PacketTypes, ProgramFacts DEF TypeOK
  <2>. QED  BY <1>2, <2>1, <2>2 DEF WriteBack, Produces
<1>7. ArchPc' = IF i.op = "mret" THEN csr.mepc
                ELSE IF I!Taken(i, I!Operand1(i), I!Operand2(i))
                  THEN I!Target(i, ArchPc, I!Operand1(i)) ELSE I!Plus(ArchPc, 1)
  BY <1>3, <1>4 DEF NextPc, I!Operand1, I!Operand2
<1>8. csr' = CASE i.op = "mret" -> I!Count(I!LeaveTrap(csr))
               [] I!WritesCsr(i) ->
                    I!CsrWrite(IF i.csr = "minstret" THEN csr ELSE I!Count(csr),
                               i.csr, I!Operand1(i))
               [] OTHER -> I!Count(csr)
  <2>1. I!WritesCsr(i) => i.op # "mret" /\ mem_wb.data = I!Operand1(i)
    BY <1>1 DEF WbRight, I!WritesCsr, I!Operand1
  <2>. QED  BY <1>2, <1>3, <2>1 DEF csr_next
<1>9. AccessIsRight
  BY <1>1 DEF WbRight, AccessIsRight
<1>10. I!Execute(mem_wb.insn, mem_wb.value)
  BY <1>5, <1>6, <1>7, <1>8 DEF I!Execute
<1>. QED  BY <1>9, <1>10 DEF Retirement

\* A trap packet in MEM/WB commits exactly the trap it stands for.
LEMMA TrapEntryStep ==
  ASSUME IInv, NEW in \in Inputs, Clock(in), Trap(mem_wb)
  PROVE  TrapEntry
<1>1. TypeOK /\ TrapRight /\ TimerRight
  BY DEF IInv
<1>2. WbTrap(in)
  BY <1>1, Arbitration DEF Clock, WbTrap, MemException, MemWait, ExException, ExWait,
                           TrapDrain, ExRedirect, HoldId, TrapFromId, Advance
<1>3. ArchPc = mem_wb.pc /\ ArchPc' = csr.mtvec
  BY <1>2, BubbleFacts DEF WbTrap, ArchPc, Trap
<1>4. csr' = I!EnterTrap(csr, ArchPc)
  BY <1>2, <1>3 DEF WbTrap, Commit, csr_next
<1>5. regs' = regs
  BY <1>1, <1>2 DEF WbTrap, Commit, WriteBack, Produces, Live, Trap, TypeOK
<1>6. I!Trapped
  BY <1>3, <1>4, <1>5 DEF I!Trapped
<1>7. CASE mem_wb.exc = "timer"
  BY <1>1, <1>6, <1>7 DEF TrapEntry, TimerRight, TimerTrap, I!Interrupt
<1>8. CASE mem_wb.exc # "timer"
  BY <1>1, <1>6, <1>8
     DEF TrapEntry, TrapRight, Caused, I!Except, I!Operand1, I!Operand2
<1>. QED  BY <1>7, <1>8

\* The pipelined core implements the architecture: what leaves MEM/WB is one
\* architectural step with the operands, CSRs and address of program order,
\* whatever was forwarded, held, squashed or interrupted on the way.
THEOREM ImplementsArchitecture == Spec => ImplementsIsa
<1>1. IInv /\ [Next]_vars =>
        [ \/ Reset
          \/ Retirement
          \/ TrapEntry
          \/ ~mem_wb.valid /\ UNCHANGED I!arch ]_vars
  <2>. SUFFICES ASSUME IInv, Next
                PROVE  \/ Reset
                       \/ Retirement
                       \/ TrapEntry
                       \/ ~mem_wb.valid /\ UNCHANGED I!arch
    OBVIOUS
  <2>1. ASSUME NEW in \in Inputs, Clock(in), ~mem_wb.valid
        PROVE  UNCHANGED I!arch
    <3>1. TypeOK
      BY DEF IInv
    <3>2. WriteBack /\ csr' = csr_next
      BY <2>1 DEF Clock, WbTrap, MemException, MemWait, ExException, ExWait, TrapDrain,
                  ExRedirect, HoldId, TrapFromId, Advance, Commit
    <3>3. regs' = regs /\ csr' = csr
      BY <2>1, <3>1, <3>2, CommitFacts
    <3>4. ArchPc' = ArchPc
      <4>1. ArchPc = pc_after_wb /\ ~Trap(mem_wb)
        BY <2>1 DEF ArchPc, pc_after_wb, pc_after_mem, pc_after_ex, Trap
      <4>. QED  BY <2>1, <4>1, NextToRetire
    <3>. QED  BY <3>3, <3>4 DEF I!arch
  <2>2. ASSUME NEW in \in Inputs, Clock(in), mem_wb.valid
        PROVE  Retirement \/ TrapEntry
    BY <2>2, RetirementStep, TrapEntryStep DEF Live, Trap
  <2>3. mem_wb.valid \/ ~mem_wb.valid
    OBVIOUS
  <2>. QED  BY <2>1, <2>2, <2>3 DEF Next
<1>. QED  BY <1>1, PipelineRight, PTL DEF Spec, ImplementsIsa
=============================================================================
