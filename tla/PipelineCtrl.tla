---------------------------- MODULE PipelineCtrl ----------------------------
(***************************************************************************)
(* The central pipeline controller (rtl/core/pipeline_ctrl.sv) together    *)
(* with the four pipeline registers it steers and the combinational events *)
(* of rv32_core.sv it arbitrates.  One step is one rising clock edge.      *)
(*                                                                         *)
(* Data is abstracted away: a packet is an instruction class, the          *)
(* exception attached to it and its age (the number of packets fetched     *)
(* before it; a history value the RTL does not hold).  What the data would *)
(* decide -- a memory answer, a branch outcome, a register match, an       *)
(* eligible timer interrupt -- is an input of the step, restricted to what *)
(* the packets in the stages make possible.                                *)
(***************************************************************************)
EXTENDS Naturals

CONSTANTS
  Kinds,    \* the instruction classes a program may contain
  MaxAge    \* bound on the number of packets fetched

\* The classes the control logic tells apart: "ctl" is a branch or a jump,
\* "irqcsr" writes mstatus or mie, "csr" any other CSR instruction, and "sys"
\* an instruction ID turns into an exception (ECALL, EBREAK, illegal).
AllKinds ==
  {"alu", "mdu", "load", "store", "ctl", "csr", "irqcsr", "mret", "sys"}

ASSUME KindsAssumption  == Kinds \subseteq AllKinds
ASSUME MaxAgeAssumption == MaxAge \in Nat \ {0}

VARIABLES
  if_id, id_ex, ex_mem, mem_wb,  \* the pipeline registers
  trap_drain_q,                  \* a trap packet is on its way to MEM/WB
  fetched,                       \* history: packets captured by IF/ID so far
  retired,                       \* history: ages that retired in MEM/WB
  trapped,                       \* history: ages whose trap was committed
  squashed,                      \* history: ages an older event overruled
  lost,                          \* history: ages a reset removed
  accessed                       \* history: ages whose access reached the LSU

pipe    == <<if_id, id_ex, ex_mem, mem_wb>>
history == <<fetched, retired, trapped, squashed, lost, accessed>>
vars    == <<pipe, trap_drain_q, history>>

Ages == 0 .. MaxAge - 1

\* A flush writes '0: valid is clear and the payload is not meaningful.
Bubble == [valid |-> FALSE, age |-> 0, kind |-> "alu", exc |-> "none"]

\* A packet that carries an exception has lost its controls.
Instructions == [valid: {TRUE}, age: Ages, kind: AllKinds, exc: {"none"}]
TrapPackets  == [valid: {TRUE}, age: Ages, kind: {"alu"}, exc: {"sync", "irq"}]
Packets      == {Bubble} \cup Instructions \cup TrapPackets

Fault_Poison(p, exc) == [p EXCEPT !.exc = exc]        \* controls stay
Poison(p, exc) == [p EXCEPT !.kind = "alu", !.exc = exc]

Live(p) == p.valid /\ p.exc = "none"
Trap(p) == p.valid /\ p.exc # "none"

-----------------------------------------------------------------------------
(* The events the controller arbitrates.  An input says what the stages'   *)
(* own logic reports in this cycle.                                        *)

wb_trap       == Trap(mem_wb)
mem_is_memory == Live(ex_mem) /\ ex_mem.kind \in {"load", "store"}

\* (An operator named Fault_X is X with a plausible mistake; the checks of
\* the properties replace X by it.)
WritesIrqState(p) == Live(p) /\ p.kind \in {"irqcsr", "mret"}
Fault_irq_state_wait ==                               \* ID waits for itself
  WritesIrqState(if_id) \/ WritesIrqState(id_ex) \/ WritesIrqState(ex_mem)
irq_state_wait    == WritesIrqState(id_ex) \/ WritesIrqState(ex_mem)

id_exception == if_id.valid /\ (if_id.exc # "none" \/ if_id.kind = "sys")

LsuOutcomes == IF mem_is_memory THEN {"wait", "ok", "fault"} ELSE {"ok"}

\* A jump may be misaligned and a branch not taken; mepc is always aligned.
ExOutcomesOf(kind) ==
  CASE kind = "mdu"               -> {"ok", "busy"}
    [] kind = "ctl"               -> {"ok", "taken", "fault"}
    [] kind = "mret"              -> {"taken"}
    [] kind \in {"csr", "irqcsr"} -> {"ok", "fault"}
    [] OTHER                      -> {"ok"}

ExOutcomes == IF Live(id_ex) THEN ExOutcomesOf(id_ex.kind) ELSE {"ok"}

\* A load-use match needs a load in EX; a CSR conflict needs an older CSR
\* writer, or for minstret any older packet, in EX or MEM.
HazardOutcomes ==
  IF Live(if_id) /\ \/ Live(id_ex) /\ id_ex.kind = "load"
                    \/ /\ if_id.kind \in {"csr", "irqcsr", "mret"}
                       /\ Live(id_ex) \/ Live(ex_mem)
  THEN BOOLEAN ELSE {FALSE}

Inputs ==
  [lsu: LsuOutcomes, ex: ExOutcomes, irq: BOOLEAN, hazard: HazardOutcomes]

mem_wait(in)      == in.lsu = "wait"
mem_exception(in) == in.lsu = "fault"

ex_wait(in)          == in.ex = "busy"
ex_exception(in)     == in.ex = "fault"
control_redirect(in) == in.ex = "taken"

\* An eligible timer interrupt replaces the instruction in ID.
id_interrupt(in) ==
  /\ in.irq
  /\ ~trap_drain_q
  /\ ~irq_state_wait
  /\ if_id.valid
  /\ ~id_exception

\* The highest-priority event decides the action, oldest stage first.
Action(in) ==
  IF wb_trap                   THEN "WB_TRAP"
  ELSE IF mem_exception(in)    THEN "MEM_EXCEPTION"
  ELSE IF mem_wait(in)         THEN "MEM_WAIT"
  ELSE IF ex_exception(in)     THEN "EX_EXCEPTION"
  ELSE IF ex_wait(in)          THEN "EX_WAIT"
  ELSE IF trap_drain_q         THEN "TRAP_DRAIN"
  ELSE IF control_redirect(in) THEN "EX_REDIRECT"
  ELSE IF irq_state_wait       THEN "IRQ_STATE_WAIT"
  ELSE IF id_exception         THEN "ID_EXCEPTION"
  ELSE IF id_interrupt(in)     THEN "ID_INTERRUPT"
  ELSE IF in.hazard            THEN "ID_HAZARD"
  ELSE "ADVANCE"

-----------------------------------------------------------------------------
(* What each stage offers to the next register.                            *)

id_ex_d(in) ==
  IF ~if_id.valid            THEN Bubble
  ELSE IF id_interrupt(in)   THEN Poison(if_id, "irq")
  ELSE IF id_exception       THEN Poison(if_id, "sync")
  ELSE if_id

ex_mem_d(in) == IF ex_exception(in) THEN Poison(id_ex, "sync") ELSE id_ex

mem_wb_d(in) == IF mem_exception(in) THEN Poison(ex_mem, "sync") ELSE ex_mem

\* What IF may offer: nothing yet, an instruction or a faulting fetch.
NewPacket(kind, exc) ==
  [valid |-> TRUE, age |-> fetched, kind |-> kind, exc |-> exc]

fetch_packets ==
  {Bubble} \cup IF fetched = MaxAge THEN {}
                ELSE {NewPacket(kind, "none") : kind \in Kinds}
                       \cup {NewPacket("alu", "sync")}

-----------------------------------------------------------------------------
(* History of the packets.                                                 *)

InFlight == {p.age : p \in {q \in {if_id, id_ex, ex_mem, mem_wb} : q.valid}}

\* MEM/WB is the only retirement point and holds a packet for one cycle.
Commit ==
  /\ retired' = retired \cup (IF Live(mem_wb) THEN {mem_wb.age} ELSE {})
  /\ trapped' = trapped \cup (IF Trap(mem_wb) THEN {mem_wb.age} ELSE {})

\* The LSU takes a memory packet in its first cycle in MEM, unless killed.
Access ==
  accessed' = accessed \cup
                (IF mem_is_memory /\ ~wb_trap THEN {ex_mem.age} ELSE {})

\* Whatever was fetched after packet p is overruled.
SquashYounger(p) == squashed' = squashed \cup (p.age + 1 .. fetched - 1)

Keep == /\ Commit
        /\ Access
        /\ UNCHANGED <<fetched, squashed, lost>>

Overrule(p) == /\ Commit
               /\ Access
               /\ SquashYounger(p)
               /\ UNCHANGED <<fetched, lost>>

-----------------------------------------------------------------------------
(* The actions of the controller.                                          *)

Reset ==
  /\ if_id'  = Bubble
  /\ id_ex'  = Bubble
  /\ ex_mem' = Bubble
  /\ mem_wb' = Bubble
  /\ trap_drain_q' = FALSE
  /\ lost' = lost \cup InFlight
  /\ UNCHANGED <<fetched, retired, trapped, squashed, accessed>>

Fault_WbTrap(in) ==                                   \* drain not cleared
  /\ Action(in) = "WB_TRAP"
  /\ if_id'  = Bubble
  /\ id_ex'  = Bubble
  /\ ex_mem' = Bubble
  /\ mem_wb' = Bubble
  /\ UNCHANGED trap_drain_q
  /\ Overrule(mem_wb)

WbTrap(in) ==
  /\ Action(in) = "WB_TRAP"
  /\ if_id'  = Bubble
  /\ id_ex'  = Bubble
  /\ ex_mem' = Bubble
  /\ mem_wb' = Bubble
  /\ trap_drain_q' = FALSE
  /\ Overrule(mem_wb)

Fault_MemException(in) ==                             \* EX/MEM not flushed
  /\ Action(in) = "MEM_EXCEPTION"
  /\ if_id'  = Bubble
  /\ id_ex'  = Bubble
  /\ ex_mem' = ex_mem_d(in)
  /\ mem_wb' = mem_wb_d(in)
  /\ trap_drain_q' = TRUE
  /\ Overrule(ex_mem)

MemException(in) ==
  /\ Action(in) = "MEM_EXCEPTION"
  /\ if_id'  = Bubble
  /\ id_ex'  = Bubble
  /\ ex_mem' = Bubble
  /\ mem_wb' = mem_wb_d(in)
  /\ trap_drain_q' = TRUE
  /\ Overrule(ex_mem)

Fault_MemWait(in) ==                                  \* MEM/WB held
  /\ Action(in) = "MEM_WAIT"
  /\ UNCHANGED <<pipe, trap_drain_q>>
  /\ Keep

Fault_MemWait2(in) ==                                 \* EX/MEM not held
  /\ Action(in) = "MEM_WAIT"
  /\ id_ex'  = Bubble
  /\ ex_mem' = ex_mem_d(in)
  /\ mem_wb' = Bubble
  /\ UNCHANGED <<if_id, trap_drain_q>>
  /\ Keep

MemWait(in) ==
  /\ Action(in) = "MEM_WAIT"
  /\ mem_wb' = Bubble
  /\ UNCHANGED <<if_id, id_ex, ex_mem, trap_drain_q>>
  /\ Keep

ExException(in) ==
  /\ Action(in) = "EX_EXCEPTION"
  /\ if_id'  = Bubble
  /\ id_ex'  = Bubble
  /\ ex_mem' = ex_mem_d(in)
  /\ mem_wb' = mem_wb_d(in)
  /\ trap_drain_q' = TRUE
  /\ Overrule(id_ex)

ExWait(in) ==
  /\ Action(in) = "EX_WAIT"
  /\ ex_mem' = Bubble
  /\ mem_wb' = mem_wb_d(in)
  /\ UNCHANGED <<if_id, id_ex, trap_drain_q>>
  /\ Keep

TrapDrain(in) ==
  /\ Action(in) = "TRAP_DRAIN"
  /\ id_ex'  = id_ex_d(in)
  /\ ex_mem' = ex_mem_d(in)
  /\ mem_wb' = mem_wb_d(in)
  /\ UNCHANGED <<if_id, trap_drain_q>>
  /\ Keep

Fault_ExRedirect(in) ==                               \* ID/EX not flushed
  /\ Action(in) = "EX_REDIRECT"
  /\ if_id'  = Bubble
  /\ id_ex'  = id_ex_d(in)
  /\ ex_mem' = ex_mem_d(in)
  /\ mem_wb' = mem_wb_d(in)
  /\ UNCHANGED trap_drain_q
  /\ Overrule(id_ex)

ExRedirect(in) ==
  /\ Action(in) = "EX_REDIRECT"
  /\ if_id'  = Bubble
  /\ id_ex'  = Bubble
  /\ ex_mem' = ex_mem_d(in)
  /\ mem_wb' = mem_wb_d(in)
  /\ UNCHANGED trap_drain_q
  /\ Overrule(id_ex)

\* ID holds behind an older mstatus, mie or MRET writer, or an interlock.
Fault_HoldId(in) ==                                   \* no bubble in ID/EX
  /\ id_ex'  = id_ex_d(in)
  /\ ex_mem' = ex_mem_d(in)
  /\ mem_wb' = mem_wb_d(in)
  /\ UNCHANGED <<if_id, trap_drain_q>>
  /\ Keep

HoldId(in) ==
  /\ id_ex'  = Bubble
  /\ ex_mem' = ex_mem_d(in)
  /\ mem_wb' = mem_wb_d(in)
  /\ UNCHANGED <<if_id, trap_drain_q>>
  /\ Keep

IrqStateWait(in) == Action(in) = "IRQ_STATE_WAIT" /\ HoldId(in)
IdHazard(in)     == Action(in) = "ID_HAZARD"      /\ HoldId(in)

\* The ID offender, or the synthetic interrupt packet, moves to EX.
TrapFromId(in) ==
  /\ if_id'  = Bubble
  /\ id_ex'  = id_ex_d(in)
  /\ ex_mem' = ex_mem_d(in)
  /\ mem_wb' = mem_wb_d(in)
  /\ trap_drain_q' = TRUE
  /\ Overrule(if_id)

IdException(in) == Action(in) = "ID_EXCEPTION" /\ TrapFromId(in)
IdInterrupt(in) == Action(in) = "ID_INTERRUPT" /\ TrapFromId(in)

Advance(in) ==
  /\ Action(in) = "ADVANCE"
  /\ if_id' \in fetch_packets
  /\ id_ex'  = id_ex_d(in)
  /\ ex_mem' = ex_mem_d(in)
  /\ mem_wb' = mem_wb_d(in)
  /\ fetched' = IF if_id'.valid THEN fetched + 1 ELSE fetched
  /\ Commit
  /\ Access
  /\ UNCHANGED <<trap_drain_q, squashed, lost>>

Clock(in) ==
  \/ WbTrap(in)
  \/ MemException(in)
  \/ MemWait(in)
  \/ ExException(in)
  \/ ExWait(in)
  \/ TrapDrain(in)
  \/ ExRedirect(in)
  \/ IrqStateWait(in)
  \/ IdException(in)
  \/ IdInterrupt(in)
  \/ IdHazard(in)
  \/ Advance(in)

Init ==
  /\ if_id = Bubble /\ id_ex = Bubble /\ ex_mem = Bubble /\ mem_wb = Bubble
  /\ trap_drain_q = FALSE
  /\ fetched = 0
  /\ retired = {} /\ trapped = {} /\ squashed = {} /\ lost = {}
  /\ accessed = {}

Next == Reset \/ \E in \in Inputs : Clock(in)

\* The memory answers every access and the multiplier and divider finish, so
\* edges at which neither makes the pipeline wait keep coming.
Answered(in) == ~mem_wait(in) /\ ~ex_wait(in)
Fairness == WF_vars(\E in \in Inputs : Answered(in) /\ Clock(in))

Spec     == Init /\ [][Next]_vars
FairSpec == Spec /\ Fairness

-----------------------------------------------------------------------------
(* Properties.                                                             *)

TypeOK ==
  /\ if_id \in Packets /\ id_ex \in Packets
  /\ ex_mem \in Packets /\ mem_wb \in Packets
  /\ trap_drain_q \in BOOLEAN
  /\ fetched \in 0 .. MaxAge
  /\ retired \subseteq Ages /\ trapped \subseteq Ages
  /\ squashed \subseteq Ages /\ lost \subseteq Ages
  /\ accessed \subseteq Ages

\* The registers hold packets in program order, the oldest in MEM/WB.
Precedes(p, q) == p.valid /\ q.valid => p.age < q.age
ProgramOrder ==
  /\ Precedes(mem_wb, ex_mem) /\ Precedes(mem_wb, id_ex) /\ Precedes(mem_wb, if_id)
  /\ Precedes(ex_mem, id_ex) /\ Precedes(ex_mem, if_id)
  /\ Precedes(id_ex, if_id)

\* Every fetched packet has exactly one fate: it is in flight, retired,
\* trapped, overruled by an older event, or lost to a reset.  No hold or
\* bubble drops or duplicates one, and none completes twice.
Completed == retired \cup trapped
Removed   == squashed \cup lost
ExactlyOnce ==
  /\ 0 .. fetched - 1 = InFlight \cup Completed \cup Removed
  /\ InFlight \cap (Completed \cup Removed) = {}
  /\ Completed \cap Removed = {}
  /\ retired \cap trapped = {}
  /\ squashed \cap lost = {}

\* While a trap packet drains, nothing younger is in the pipeline: the
\* registers behind it are bubbles and so is the fetch register, whether the
\* packet comes from ID, EX or MEM.  Without a drain there is no trap packet
\* beyond ID.
DrainIsolation ==
  /\ trap_drain_q <=> Trap(id_ex) \/ Trap(ex_mem) \/ Trap(mem_wb)
  /\ trap_drain_q => ~if_id.valid
  /\ Trap(ex_mem) => ~id_ex.valid
  /\ Trap(mem_wb) => ~id_ex.valid /\ ~ex_mem.valid

\* Precise side effects: a packet an older redirect, fault or interrupt
\* overruled never had its load or store presented to the memory.
NoOverruledAccess == accessed \cap squashed = {}

\* What makes the two properties above inductive: disposed-of packets are
\* older than those in flight and an access belongs to the oldest of these.
HistoryOrder ==
  /\ accessed \subseteq 0 .. fetched - 1
  /\ \A b \in InFlight : /\ \A a \in Completed \cup lost : a < b
                        /\ \A a \in accessed : a <= b

\* A packet completes, by retiring or trapping, only when everything fetched
\* before it has met its fate.
InOrderCommit ==
  [][\A a \in Completed' \ Completed :
       0 .. a - 1 \subseteq Completed \cup Removed]_vars

\* A selected trap is committed (or a reset intervenes): the drain ends.
DrainEnds == trap_drain_q ~> ~trap_drain_q

\* Nothing stays in the pipeline for ever: no combination of interlocks,
\* waits and held stages blocks a packet once the units it needs answer.
EveryPacketLeaves ==
  \A a \in Ages : (a \in InFlight) ~> (a \notin InFlight)
=============================================================================
