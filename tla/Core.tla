-------------------------------- MODULE Core --------------------------------
(***************************************************************************)
(* The five-stage core with its data: what the pipeline controller         *)
(* (PipelineCtrl) decides, applied to packets that carry instructions,     *)
(* operands and results, over the register file and the CSR file.  One     *)
(* step is one rising clock edge.                                          *)
(*                                                                         *)
(* The program is arbitrary: fetch delivers any instruction of Insns for   *)
(* the address that is next (the promise of FetchStream).  The memory      *)
(* answers in any number of cycles (Lsu), and so do the multiplier and     *)
(* the divider.  What retires must be what the architecture (Isa) does.    *)
(***************************************************************************)
EXTENDS Integers

CONSTANTS
  W, NumRegs, InstretMod,  \* the sizes of Isa
  Insns,                   \* the instructions a program may contain
  Mtip,                    \* what the timer's interrupt line may be
  ResetVector, TrapVector

VARIABLES
  expect,                        \* the address fetch delivers next, or NoPC
  if_id, id_ex, ex_mem, mem_wb,  \* the pipeline registers
  trap_drain_q,                  \* a trap packet is on its way to MEM/WB
  mdu,                           \* the multiplier and the divider
  regs,                          \* the register file
  csr                            \* the CSR file

pipe == <<if_id, id_ex, ex_mem, mem_wb>>
vars == <<expect, pipe, trap_drain_q, mdu, regs, csr>>

NoPC == W

\* The oldest packet in the pipeline is the next to retire.
ArchPc == IF mem_wb.valid      THEN mem_wb.pc
          ELSE IF ex_mem.valid THEN ex_mem.pc
          ELSE IF id_ex.valid  THEN id_ex.pc
          ELSE IF if_id.valid  THEN if_id.pc
          ELSE expect

I == INSTANCE Isa WITH pc <- ArchPc

\* A bubble, and the payload a trap packet no longer uses, are all zeros.
NoInsn == [op |-> "add", rd |-> 0, rs1 |-> 0, rs2 |-> 0, csr |-> "unknown", imm |-> 0]

\* MIE and MPIE need words of two values; the vectors are addresses.
ASSUME SizeAssumption ==
  W \in Nat \ {0, 1} /\ NumRegs \in Nat /\ InstretMod \in Nat \ {0}
ASSUME ProgramAssumption == Insns \subseteq I!InsnRecords
ASSUME LineAssumption    == Mtip \subseteq BOOLEAN
ASSUME VectorAssumption  == ResetVector \in I!Words /\ TrapVector \in I!Words

NoIfId  == [valid |-> FALSE, pc |-> 0, insn |-> NoInsn, exc |-> "none"]
NoIdEx  == [valid |-> FALSE, pc |-> 0, insn |-> NoInsn, exc |-> "none",
            a |-> 0, b |-> 0]
NoExMem == [valid |-> FALSE, pc |-> 0, insn |-> NoInsn, exc |-> "none",
            result |-> 0, data |-> 0]
NoMemWb == [valid |-> FALSE, pc |-> 0, insn |-> NoInsn, exc |-> "none",
            value |-> 0, addr |-> 0, data |-> 0]

Live(p) == p.valid /\ p.exc = "none"
Trap(p) == p.valid /\ p.exc # "none"

\* A live packet that will write register r.  (An operator named Fault_X is X
\* with a plausible mistake; the checks of the properties replace X by it.)
Fault_Produces(p, r) ==                               \* x0 is not special
  Live(p) /\ I!WritesReg(p.insn) /\ p.insn.rd = r
Produces(p, r) == Live(p) /\ I!WritesReg(p.insn) /\ p.insn.rd = r /\ r # 0

-----------------------------------------------------------------------------
(* Commit: the packet in MEM/WB.  Trap entry outranks MRET, and MRET a CSR *)
(* write; an explicit write of minstret replaces its increment.            *)

csr_next ==
  IF Trap(mem_wb)       THEN I!EnterTrap(csr, mem_wb.pc)
  ELSE IF ~mem_wb.valid THEN csr
  ELSE IF mem_wb.insn.op = "mret" THEN I!Count(I!LeaveTrap(csr))
  ELSE IF ~I!WritesCsr(mem_wb.insn) THEN I!Count(csr)
  ELSE IF mem_wb.insn.csr = "minstret"
    THEN I!CsrWrite(csr, "minstret", mem_wb.data)
  ELSE I!CsrWrite(I!Count(csr), mem_wb.insn.csr, mem_wb.data)

\* The register file has no reset, and its write port ignores one.
WriteBack == regs' = [r \in DOMAIN regs |->
                        IF Produces(mem_wb, r) THEN mem_wb.value ELSE regs[r]]

-----------------------------------------------------------------------------
(* ID: register read with the bypass from MEM/WB.                          *)

ReadReg(r) == IF Produces(mem_wb, r) THEN mem_wb.value ELSE regs[r]

IdEx(p) ==
  [valid |-> TRUE, pc |-> p.pc, insn |-> p.insn, exc |-> "none",
   a |-> IF I!UsesRs1(p.insn) THEN ReadReg(p.insn.rs1) ELSE 0,
   b |-> IF I!UsesRs2(p.insn) THEN ReadReg(p.insn.rs2) ELSE 0]

IdTrap(p, cause) ==
  [NoIdEx EXCEPT !.valid = TRUE, !.pc = p.pc, !.insn = p.insn, !.exc = cause]

\* The hazard unit: load-use, an older write of the CSR that is read, an
\* older write of the mepc MRET jumps to, and any older instruction not yet
\* counted in the minstret that is read.
LoadUse ==
  /\ Live(id_ex) /\ id_ex.insn.op = "load" /\ id_ex.insn.rd # 0
  /\ \/ I!UsesRs1(if_id.insn) /\ if_id.insn.rs1 = id_ex.insn.rd
     \/ I!UsesRs2(if_id.insn) /\ if_id.insn.rs2 = id_ex.insn.rd

WritesCsrOf(p, id) == Live(p) /\ I!WritesCsr(p.insn) /\ p.insn.csr = id

CsrDependency ==
  /\ I!IsCsrOp(if_id.insn)
  /\ \E p \in {id_ex, ex_mem} : WritesCsrOf(p, if_id.insn.csr)

MretDependency ==
  /\ if_id.insn.op = "mret"
  /\ \E p \in {id_ex, ex_mem} : WritesCsrOf(p, "mepc")

Fault_MinstretDependency ==                           \* MEM/WB is close enough
  /\ I!IsCsrOp(if_id.insn) /\ if_id.insn.csr = "minstret"
  /\ Live(id_ex)

Fault_MinstretDependency2 ==                          \* whatever the stages hold
  I!IsCsrOp(if_id.insn) /\ if_id.insn.csr = "minstret"

MinstretDependency ==
  /\ I!IsCsrOp(if_id.insn) /\ if_id.insn.csr = "minstret"
  /\ Live(id_ex) \/ Live(ex_mem)

Hazard ==
  /\ Live(if_id)
  /\ LoadUse \/ CsrDependency \/ MretDependency \/ MinstretDependency

-----------------------------------------------------------------------------
(* EX: operand forwarding, the execution units and control flow.           *)

\* EX/MEM holds the youngest older value, except that of a load.
Forward(r, own) ==
  IF Produces(ex_mem, r) /\ ex_mem.insn.op # "load" THEN ex_mem.result
  ELSE IF Produces(mem_wb, r) THEN mem_wb.value
  ELSE own

rs1_value ==
  IF I!UsesRs1(id_ex.insn) THEN Forward(id_ex.insn.rs1, id_ex.a) ELSE id_ex.a
rs2_value ==
  IF I!UsesRs2(id_ex.insn) THEN Forward(id_ex.insn.rs2, id_ex.b) ELSE id_ex.b

UsesMdu == Live(id_ex) /\ id_ex.insn.op = "mul"

ex_outcome ==
  IF ~Live(id_ex) THEN "ok"
  ELSE IF UsesMdu /\ mdu.state # "resp" THEN "busy"
  ELSE IF \/ I!IllegalCsr(id_ex.insn)
          \/ I!Misaligned(id_ex.insn, rs1_value, rs2_value) THEN "fault"
  ELSE IF \/ I!Taken(id_ex.insn, rs1_value, rs2_value)
          \/ id_ex.insn.op = "mret" THEN "taken"
  ELSE "ok"

ex_cause == IF I!IllegalCsr(id_ex.insn) THEN "illegal" ELSE "misaligned"

redirect_target ==
  IF id_ex.insn.op = "mret" THEN csr.mepc
  ELSE I!Target(id_ex.insn, id_ex.pc, rs1_value)

\* The address of an access, or the value to write to rd.
ex_result ==
  CASE id_ex.insn.op = "mul"                    -> mdu.result
    [] id_ex.insn.op = "jalr"                   -> I!Plus(id_ex.pc, 1)
    [] I!IsCsrOp(id_ex.insn)                    -> I!CsrRead(csr, id_ex.insn.csr)
    [] id_ex.insn.op \in {"load", "store"}      -> rs1_value
    [] id_ex.insn.op = "add" -> I!Compute(id_ex.insn, rs1_value, rs2_value)
    [] OTHER                                    -> 0

\* Store data, or what a CSR write writes.
ex_data ==
  CASE id_ex.insn.op = "store"  -> rs2_value
    [] I!WritesCsr(id_ex.insn)  -> rs1_value
    [] OTHER                    -> 0

ExMemTrap(p, cause) ==
  [NoExMem EXCEPT !.valid = TRUE, !.pc = p.pc, !.insn = p.insn, !.exc = cause]

ex_mem_d ==
  IF ~id_ex.valid                THEN NoExMem
  ELSE IF Trap(id_ex)            THEN ExMemTrap(id_ex, id_ex.exc)
  ELSE IF ex_outcome = "fault"   THEN ExMemTrap(id_ex, ex_cause)
  ELSE [valid |-> TRUE, pc |-> id_ex.pc, insn |-> id_ex.insn, exc |-> "none",
        result |-> ex_result, data |-> ex_data]

-----------------------------------------------------------------------------
(* MEM: the LSU's answer completes the access.                             *)

mem_is_memory == Live(ex_mem) /\ I!IsMemory(ex_mem.insn)

LsuAnswers ==
  IF ~mem_is_memory THEN {[lsu |-> "ok", loaded |-> 0]}
  ELSE [lsu: {"wait", "fault"}, loaded: {0}] \cup
       [lsu: {"ok"},
        loaded: IF ex_mem.insn.op = "load" THEN I!Words ELSE {0}]

MemWbTrap(p, cause) ==
  [NoMemWb EXCEPT !.valid = TRUE, !.pc = p.pc, !.insn = p.insn, !.exc = cause]

mem_wb_d(in) ==
  IF ~ex_mem.valid             THEN NoMemWb
  ELSE IF Trap(ex_mem)         THEN MemWbTrap(ex_mem, ex_mem.exc)
  ELSE IF in.lsu = "fault"     THEN MemWbTrap(ex_mem, "access")
  ELSE [valid |-> TRUE, pc |-> ex_mem.pc, insn |-> ex_mem.insn, exc |-> "none",
        value |-> CASE ex_mem.insn.op = "load"  -> in.loaded
                    [] ex_mem.insn.op = "store" -> 0
                    [] OTHER                    -> ex_mem.result,
        addr  |-> IF mem_is_memory THEN ex_mem.result ELSE 0,
        data  |-> ex_mem.data]

-----------------------------------------------------------------------------
(* The controller sees a packet as an instruction class and an exception.  *)

KindOf(insn) ==
  CASE insn.op = "mul"                              -> "mdu"
    [] insn.op \in {"load", "store", "mret"}        -> insn.op
    [] insn.op \in {"branch", "jalr"}               -> "ctl"
    [] insn.op = "ecall"                            -> "sys"
    [] I!WritesCsr(insn) /\ insn.csr \in {"mstatus", "mie"} -> "irqcsr"
    [] I!IsCsrOp(insn) /\ ~(I!WritesCsr(insn) /\ insn.csr \in {"mstatus", "mie"})
                                                    -> "csr"
    [] insn.op = "add"                              -> "alu"

ClassOf(p) ==
  [valid |-> p.valid, age |-> 0,
   kind  |-> IF Live(p) THEN KindOf(p.insn) ELSE "alu",
   exc   |-> CASE p.exc = "none"  -> "none"
               [] p.exc = "timer" -> "irq"
               [] OTHER           -> "sync"]

Ctrl == INSTANCE PipelineCtrl WITH
  Kinds <- {}, MaxAge <- 1,
  if_id <- ClassOf(if_id), id_ex <- ClassOf(id_ex),
  ex_mem <- ClassOf(ex_mem), mem_wb <- ClassOf(mem_wb),
  fetched <- 0, retired <- {}, trapped <- {}, squashed <- {}, lost <- {},
  accessed <- {}

\* A pending interrupt is judged by the CSRs as this cycle's commit leaves them.
Fault_mtimer_irq_eligible(in) ==                      \* before the commit
  in.mtip /\ csr.mtie /\ csr.mie

Fault_mtimer_irq_eligible2(in) ==                     \* only behind a bubble
  in.mtip /\ csr_next.mtie /\ csr_next.mie /\ ~id_ex.valid

mtimer_irq_eligible(in) == in.mtip /\ csr_next.mtie /\ csr_next.mie

Seen(in) == [lsu |-> in.lsu, ex |-> ex_outcome,
             irq |-> mtimer_irq_eligible(in), hazard |-> Hazard]

Action(in) == Ctrl!Action(Seen(in))

id_ex_d(in) ==
  IF ~if_id.valid                     THEN NoIdEx
  ELSE IF Ctrl!id_interrupt(Seen(in)) THEN IdTrap(if_id, "timer")
  ELSE IF Trap(if_id)                 THEN IdTrap(if_id, if_id.exc)
  ELSE IF if_id.insn.op = "ecall"     THEN IdTrap(if_id, "ecall")
  ELSE IdEx(if_id)

Inputs == {[lsu |-> ans.lsu, loaded |-> ans.loaded, mtip |-> level] :
             ans \in LsuAnswers, level \in Mtip}

-----------------------------------------------------------------------------
(* What every edge without reset does besides moving packets.              *)

MduIdle == [state |-> "idle", result |-> 0]

\* The units start on the forwarded operands, hold a result until EX takes
\* it, and drop their work when an older packet traps.
MduStep(in) ==
  LET started == I!Compute(id_ex.insn, rs1_value, rs2_value)
      free    == UsesMdu /\ in.lsu # "wait"
  IN  mdu' \in
        IF Trap(mem_wb) \/ in.lsu = "fault"     THEN {MduIdle}
        ELSE IF mdu.state = "idle" /\ free
          THEN [state: {"exec", "resp"}, result: {started}]
        ELSE IF mdu.state = "exec"
          THEN [state: {"exec", "resp"}, result: {mdu.result}]
        ELSE IF mdu.state = "resp" /\ free      THEN {MduIdle}
        ELSE {mdu}

Commit(in) ==
  /\ WriteBack
  /\ csr' = csr_next
  /\ MduStep(in)

\* A held EX packet misses its producer's forwarding slot, so it takes the
\* value when the producer retires.
Fault_Refreshed == id_ex                              \* a plain hold

Refreshed ==
  [id_ex EXCEPT
     !.a = IF I!UsesRs1(id_ex.insn) /\ Live(id_ex) /\ Produces(mem_wb, id_ex.insn.rs1)
             THEN mem_wb.value ELSE @,
     !.b = IF I!UsesRs2(id_ex.insn) /\ Live(id_ex) /\ Produces(mem_wb, id_ex.insn.rs2)
             THEN mem_wb.value ELSE @]

-----------------------------------------------------------------------------
(* The controller's actions.                                               *)

Reset ==
  /\ expect' = ResetVector
  /\ if_id'  = NoIfId
  /\ id_ex'  = NoIdEx
  /\ ex_mem' = NoExMem
  /\ mem_wb' = NoMemWb
  /\ trap_drain_q' = FALSE
  /\ mdu' = MduIdle
  /\ csr' = [mie |-> FALSE, mpie |-> FALSE, mtie |-> FALSE, mepc |-> 0,
             mtvec |-> TrapVector, minstret |-> 0]
  /\ WriteBack

WbTrap(in) ==
  /\ Action(in) = "WB_TRAP"
  /\ expect' = csr.mtvec
  /\ if_id'  = NoIfId
  /\ id_ex'  = NoIdEx
  /\ ex_mem' = NoExMem
  /\ mem_wb' = NoMemWb
  /\ trap_drain_q' = FALSE
  /\ Commit(in)

MemException(in) ==
  /\ Action(in) = "MEM_EXCEPTION"
  /\ expect' = NoPC
  /\ if_id'  = NoIfId
  /\ id_ex'  = NoIdEx
  /\ ex_mem' = NoExMem
  /\ mem_wb' = mem_wb_d(in)
  /\ trap_drain_q' = TRUE
  /\ Commit(in)

MemWait(in) ==
  /\ Action(in) = "MEM_WAIT"
  /\ id_ex'  = Refreshed
  /\ mem_wb' = NoMemWb
  /\ Commit(in)
  /\ UNCHANGED <<expect, if_id, ex_mem, trap_drain_q>>

ExException(in) ==
  /\ Action(in) = "EX_EXCEPTION"
  /\ expect' = NoPC
  /\ if_id'  = NoIfId
  /\ id_ex'  = NoIdEx
  /\ ex_mem' = ex_mem_d
  /\ mem_wb' = mem_wb_d(in)
  /\ trap_drain_q' = TRUE
  /\ Commit(in)

ExWait(in) ==
  /\ Action(in) = "EX_WAIT"
  /\ id_ex'  = Refreshed
  /\ ex_mem' = NoExMem
  /\ mem_wb' = mem_wb_d(in)
  /\ Commit(in)
  /\ UNCHANGED <<expect, if_id, trap_drain_q>>

TrapDrain(in) ==
  /\ Action(in) = "TRAP_DRAIN"
  /\ id_ex'  = id_ex_d(in)
  /\ ex_mem' = ex_mem_d
  /\ mem_wb' = mem_wb_d(in)
  /\ Commit(in)
  /\ UNCHANGED <<expect, if_id, trap_drain_q>>

ExRedirect(in) ==
  /\ Action(in) = "EX_REDIRECT"
  /\ expect' = redirect_target
  /\ if_id'  = NoIfId
  /\ id_ex'  = NoIdEx
  /\ ex_mem' = ex_mem_d
  /\ mem_wb' = mem_wb_d(in)
  /\ Commit(in)
  /\ UNCHANGED trap_drain_q

HoldId(in) ==
  /\ Action(in) \in {"IRQ_STATE_WAIT", "ID_HAZARD"}
  /\ id_ex'  = NoIdEx
  /\ ex_mem' = ex_mem_d
  /\ mem_wb' = mem_wb_d(in)
  /\ Commit(in)
  /\ UNCHANGED <<expect, if_id, trap_drain_q>>

TrapFromId(in) ==
  /\ Action(in) \in {"ID_EXCEPTION", "ID_INTERRUPT"}
  /\ expect' = NoPC
  /\ if_id'  = NoIfId
  /\ id_ex'  = id_ex_d(in)
  /\ ex_mem' = ex_mem_d
  /\ mem_wb' = mem_wb_d(in)
  /\ trap_drain_q' = TRUE
  /\ Commit(in)

\* IF/ID takes what fetch has: nothing yet, an instruction or a fault.
Advance(in) ==
  /\ Action(in) = "ADVANCE"
  /\ \/ if_id' = NoIfId /\ UNCHANGED expect
     \/ /\ expect # NoPC
        /\ if_id' \in
             [valid: {TRUE}, pc: {expect}, insn: Insns, exc: {"none"}]
               \cup [valid: {TRUE}, pc: {expect}, insn: {NoInsn}, exc: {"fetch"}]
        /\ expect' = I!Plus(expect, 1)
  /\ id_ex'  = id_ex_d(in)
  /\ ex_mem' = ex_mem_d
  /\ mem_wb' = mem_wb_d(in)
  /\ Commit(in)
  /\ UNCHANGED trap_drain_q

Clock(in) ==
  \/ WbTrap(in)
  \/ MemException(in)
  \/ MemWait(in)
  \/ ExException(in)
  \/ ExWait(in)
  \/ TrapDrain(in)
  \/ ExRedirect(in)
  \/ HoldId(in)
  \/ TrapFromId(in)
  \/ Advance(in)

Init ==
  /\ expect = ResetVector
  /\ if_id = NoIfId /\ id_ex = NoIdEx /\ ex_mem = NoExMem /\ mem_wb = NoMemWb
  /\ trap_drain_q = FALSE
  /\ mdu = MduIdle
  /\ regs \in {f \in [I!RegIds -> I!Words] : f[0] = 0}
  /\ csr = [mie |-> FALSE, mpie |-> FALSE, mtie |-> FALSE, mepc |-> 0,
            mtvec |-> TrapVector, minstret |-> 0]

Next == Reset \/ \E in \in Inputs : Clock(in)

\* Memory answers, the MDU finishes and fetch delivers, so edges at which
\* none of them makes the core wait keep coming.
Progress(in) == /\ Clock(in)
                /\ in.lsu # "wait"
                /\ mdu'.state # "exec"
                /\ Action(in) = "ADVANCE" => if_id'.valid
Fairness == WF_vars(\E in \in Inputs : Progress(in))

Spec     == Init /\ [][Next]_vars
FairSpec == Spec /\ Fairness

-----------------------------------------------------------------------------
(* Properties.                                                             *)

Program    == Insns \cup {NoInsn}
Exceptions == I!Causes \cup {"none"}

IfIdPackets ==
  [valid: BOOLEAN, pc: I!Words, insn: Program, exc: Exceptions]
IdExPackets ==
  [valid: BOOLEAN, pc: I!Words, insn: Program, exc: Exceptions,
   a: I!Words, b: I!Words]
ExMemPackets ==
  [valid: BOOLEAN, pc: I!Words, insn: Program, exc: Exceptions,
   result: I!Words, data: I!Words]
MemWbPackets ==
  [valid: BOOLEAN, pc: I!Words, insn: Program, exc: Exceptions,
   value: I!Words, addr: I!Words, data: I!Words]

TypeOK ==
  /\ expect \in I!Words \cup {NoPC}
  /\ if_id \in IfIdPackets /\ id_ex \in IdExPackets
  /\ ex_mem \in ExMemPackets /\ mem_wb \in MemWbPackets
  /\ trap_drain_q \in BOOLEAN
  /\ mdu \in [state: {"idle", "exec", "resp"}, result: I!Words]
  /\ regs \in [I!RegIds -> I!Words] /\ regs[0] = 0
  /\ csr \in I!CsrRecords

\* What the trace port and the memory saw of a retiring access.
AccessIsRight ==
  I!IsMemory(mem_wb.insn) =>
    /\ mem_wb.addr = regs[mem_wb.insn.rs1]
    /\ mem_wb.insn.op = "store" => mem_wb.data = regs[mem_wb.insn.rs2]

Retirement == Live(mem_wb) /\ AccessIsRight /\ I!Execute(mem_wb.insn, mem_wb.value)

TrapEntry ==
  /\ Trap(mem_wb)
  /\ \/ mem_wb.exc = "timer" /\ I!Interrupt
     \/ I!Except(mem_wb.insn, mem_wb.exc)

\* The pipeline implements the architecture: every packet that leaves
\* MEM/WB is one architectural step, with the operands older instructions
\* produced, whatever was forwarded, held, replayed or squashed, and no
\* other edge changes the architectural state.
ImplementsIsa ==
  [][ \/ Reset
      \/ Retirement
      \/ TrapEntry
      \/ ~mem_wb.valid /\ UNCHANGED I!arch ]_vars

\* The controller's own module assumes of its inputs that a wait, a fault, a
\* redirect or an interlock has a packet to cause it.
InputsJustified == \A in \in Inputs : Seen(in) \in Ctrl!Inputs

\* Once the timer's line stays high, an enabled interrupt is not put off for
\* ever by waits, redirects, interlocks or other traps: it is taken, or
\* software disables it.
LineStaysHigh == <>[][\E in \in Inputs : in.mtip /\ Clock(in)]_vars
InterruptIsServed == LineStaysHigh => []<>~(csr.mie /\ csr.mtie)
=============================================================================
