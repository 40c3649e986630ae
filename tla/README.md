# A TLA+ model of the RV32IM core

The repository holds a five-stage in-order RV32IM core in SystemVerilog
(`src/rtl/core`), a small SoC around it (`src/rtl/soc`), an FPGA wrapper
(`src/rtl/fpga`) and the software that runs on it (`src/sw`). This directory
holds TLA+ modules translated from that code, TLC configurations that check them on small
instances, and TLAPS proofs of the main invariants for every value of the
constants. `PROJECT.json` lists components, runs, the source lines behind each
definition, the hazards of the code and the theorems.

## 1. Inventory of the system

State, operations and properties of each part; "hard" names what tests hardly reach.

| Part (source) | State | Operations | Talks to | Hard | Correct when |
|---|---|---|---|---|---|
| Pipeline controller and registers (`pipeline_ctrl.sv`, `rv32_core.sv` 561-608) | IF/ID, ID/EX, EX/MEM, MEM/WB, `trap_drain_q` | twelve actions in fixed priority, and reset | every stage: events in, enables and flushes out | events of several stages in one cycle; traps overtaken by older faults; waits that hold some registers and bubble the next | program order; one fate per packet; precise traps and accesses; no deadlock |
| Load/store unit (`lsu.sv`) | three-state machine, saved request and result, `request_sent_q`, `discard_q` | accept, send, wait, answer, respond, kill, reset | EX/MEM, `kill_i` = trap in WB, data port | kill or reset around an accepted request that cannot be withdrawn; answer in the acceptance cycle | own response only; at most one access; request stable; every access ends |
| Fetch stage (`if_stage.sv`) | request slot, next PC, pending redirect, one-packet skid buffer | launch, wait, answer, recycle, redirect, flush, reset | controller, instruction port | stale answers after several redirects; recycling of the slot in the answer cycle | an in-order stream of the right addresses, nothing lost, repeated or stale |
| Hazards, forwarding, operand refresh (`hazard_unit.sv`, `forwarding_unit.sv`, `rv32_core.sv` 392-404, 579-587) | none of their own; refresh writes ID/EX operands | interlock, forward, refresh | ID, EX, MEM, WB | a held consumer outlives its producer's forwarding slot | each instruction reads what the program order says |
| Decode, register file (`id_stage.sv`, `decoder.sv`, `imm_gen.sv`, `regfile.sv`) | 31 registers | decode, read, WB-to-ID bypass | IF/ID, WB | read and write in one cycle | as above |
| Execute (`ex_stage.sv`, `alu.sv`, `branch_unit.sv`) | none | result, redirect, fault, MDU handshake | ID/EX, MDU, CSR read | one MDU response held behind a wait in MEM | redirects and faults belong to the packet in EX |
| Multiplier, divider (`mul_unit.sv`, `div_unit.sv`) | pipeline / restoring loop | request, iterate, respond, kill | EX | kill and hold; corner operands | the result of the RISC-V definition, for its own request |
| CSR file (`csr_file.sv`) | mstatus, mie, mtvec, mepc, mcause, mtval, counters | read, write, trap, MRET, count | WB, ID (interrupt eligibility) | trap, MRET and a write compete; split 64-bit counters | precise trap state; no lost count |
| Interrupt arbitration (`rv32_core.sv` 300-343) | none | inject a packet in ID | CSR file, timer, controller | MTIP or mstatus changes around the injection | mepc is the first instruction not executed; taken eventually |
| Performance counters (`rv32_core.sv` 185-211) | six counters | count | controller | which event a cycle is charged to | counts what the documents say |
| Data interconnect (`rv32_mem_demux.sv`) | pending flag and owner | decode, issue, recycle, answer | LSU, four targets | slot recycled to another target; reset of ownership | each answer from the owner |
| TCM (`rv32_tcm.sv`) | memory, one response per port | read, write | fetch stage, interconnect | both ports in one cycle | a memory |
| Timer (`rv32_mtimer.sv`, `sw/bsp/rv32_soc.c`) | mtime, mtimecmp | tick, half writes, MTIP; software sequences | interconnect, CSR file | several bus accesses while the counter runs | a read returns one moment's time; no spurious interrupt |
| UART (`rv32_uart.sv`) | shifters, one receive slot, flags | send, receive, pop, clear | interconnect, pins | pop, overrun and clear in one cycle | each byte once or an overrun |
| GPIO (`rv32_gpio.sv`), mailbox (`soc_tcm_top.sv`) | output registers, synchroniser; first status | register writes; first status store | software; retirement trace | two statuses stored | the first status decides |
| Board support (`sw/bsp/rv32_soc.c`, `rv32_soc.h`) | none | timer, UART, GPIO and finish routines | devices, programs | preemption between two accesses | as the devices promise |
| Runtime (`sw/runtime/runtime.c`) | none | pass, fail, exit, trap; memory and string loops | programs, mailbox | a status word that drops bits of a code; ends of ranges | C definitions; a failure is never a pass |
| CoreMark port (`sw/coremark/core_portme.[ch]`) | start and stop counters, report | init, start, stop, print, finish | vendored benchmark, counters, runtime | 64-bit counters read by halves; messages classified by their text | measures the timed region; verdict follows the run |
| FreeRTOS demo (`sw/freertos`) | three tasks, their counts, the report | blink, echo, check; hooks; failure paths | vendored kernel, devices | preemption between any two accesses; faults against the pass | a pass is earned; faults are reported; the demo ends |
| FPGA wrapper, scripts, test benches, test programs, vendored code | - | - | - | - | outside the model, see section 7 |

A clock edge is the only kind of step in the RTL, and everything within a cycle
is combinational, so concurrency is between the units: what they report and
accept in the same cycle, and how they remember it afterwards. The interplay is:
the controller selects one action from the events of all stages; a flush, a
redirect or a trap is the fetch stage's `kill_event`, a trap in WB is the LSU's
`kill_i`; neither unit can take back a request that was offered, so both
hold it, mark it and discard the answer; while the LSU waits, the controller
holds the older half of the pipeline. Software adds a second kind of
concurrency: between two accesses of a routine the counters run on, a byte
arrives or the timer tick hands the hart to another task.

## 2. Modules

| Module | Models | Notes |
|---|---|---|
| `PipelineCtrl` | controller, pipeline registers, event logic of `rv32_core.sv` | parameters `Kinds`, `MaxAge` |
| `PipelineCtrlProofs` | proofs about `PipelineCtrl` | |
| `Lsu` | LSU, its owner EX/MEM, the data memory | parameters `MaxOps`, `AcceptInReset` |
| `DataBus` | interconnect and its targets behind `Lsu` | EXTENDS `Lsu`; parameters `Memories`, `Addressed` |
| `LsuProofs` | proofs about `Lsu` and `DataBus` | |
| `FetchStream` | abstract: what the fetch stage promises | no code counterpart |
| `IfStage` | fetch stage, IF/ID, controller commands, instruction memory | implements `FetchStream` |
| `IfStageProofs` | proofs about `IfStage` | |
| `FetchSquash` | `IfStage` with `perf_squash` | EXTENDS `IfStage` |
| `Isa` | abstract: the sequential machine; decoding, CSR and ALU operations as operators | parameters `W`, `NumRegs`, `InstretMod` |
| `Core` | `rv32_core.sv` with data: registers, operands, forwarding, CSRs, interrupts | INSTANCE of `PipelineCtrl` for the action, of `Isa` for what must retire |
| `CoreProofs` | proofs about `Core` | |
| `MCCore` | instruction sets for TLC | three runs |
| `SocTime` | machine timer with the routines that read and set it | parameters `HighSize`, `LowSize`, `MaxPass` |
| `SocTimeProofs` | proofs about `SocTime` | |
| `Bsp` | UART, GPIO pin, mailbox and their driver routines, as operators | no state of its own |
| `Demo` | FreeRTOS demonstration on `Bsp` | goals, period, `MaxBytes`, `Faults` |
| `DemoProofs` | proofs about `Demo` | |
| `Runtime` | loops of the library routines | any memory size and byte values |
| `RuntimeProofs` | proofs about `Runtime` | |
| `CoreMark` | CoreMark port on `Runtime` and `Bsp`'s mailbox | clock, sizes, possible runs |
| `CoreMarkProofs` | proofs about `CoreMark` | |

In the hardware modules and in `SocTime` one step is one rising edge; in the other software
modules it is one access to what the program shares, or one iteration of a loop. A record `in` holds the values of the
cycle's input wires; an operator of `in` is a combinational signal, named as in
the RTL where it has a name; an action is one branch of the sequential
code with everything that happens at that edge. `rst_i` may be asserted at any
edge. A variable marked as history has no counterpart in the RTL; it
records what properties speak of (which packet, which request) because the
hardware has no tags. An operator `Fault_X` is `X` with a plausible mistake; the
mutation checks replace `X` by it and expect the property it is listed with to fail.

**PipelineCtrl.** A packet is its instruction class, attached exception
and age. The twelve actions are the branches of `pipeline_ctrl.sv` 95-219, chosen by
the priority of lines 61-93; each states all four registers, the drain flag and the
history. What data would decide (memory answers, branch outcomes, register matches, a
pending interrupt) is an input, limited to what the packets in the stages
allow: only a memory packet waits or faults in MEM, only a jump, branch or CSR packet
faults in EX, a load-use stall needs a load in EX, and so on.

**Lsu.** An operation is an identifier, its command and whether it is misaligned.
The owner holds it until the response is captured and loses it to a reset or
to a trap in WB. The memory keeps the accepted requests; the contract (one
outstanding, a new acceptance allowed in the answer cycle, answers in order) is
`MemoryContract`, from `docs/architecture.md` and the protocol assertions in
`src/tb/assertions`. `AcceptInReset` says whether the memory may accept a request
in a reset cycle; `rv32_mem_demux.sv` never does.

**DataBus.** The memory of `Lsu` is either any that keeps its contract or the SoC's: the
demultiplexer's slot (`pending_q`, `pending_target_q`), its gating of requests, and one
response register per target, which answers in the cycle after acceptance. The UART may
refuse a store. An address is the target it decodes to. The LSU asks for nothing in the
cycle of an answer, so the demultiplexer's handover of the slot to a new request in that
cycle (its case `2'b11`), though written down, is never taken in this system.

**IfStage.** Addresses count instructions and wrap. The controller is
represented by the commands it can give (advance, hold, flush, redirect, trap,
reset) and the conditions under which it gives them: a redirect needs an instruction
in EX, and between the selection of a trap and its commit the front end neither
advances nor redirects. The memory marks a request whose fetch was cancelled
after acceptance, so that a stale answer can be told from a fresh one.

**FetchStream.** The controller's command at the last edge, the next address expected and
the IF/ID register. Each step belongs to one command: a reset restarts at the reset vector, a
redirect or a trap at exactly the target the controller gave, a flush stops the stream, a
hold keeps everything, and on an advance ID gets the packet of the expected address,
an answer to a request that was not cancelled, or nothing yet. There is no other restart, so a
target lost or an address skipped behind an empty IF/ID is a step the stream does not have.
`IfStage` implements it under the mapping `expect`, computed from the held packet, the
outstanding request and the next PC, with `command`, a history variable, for the command.

**Isa.** Program counter, registers and CSRs; one step executes an instruction,
raises its exception or takes the timer interrupt. A word is a number below
`W`, and so is an instruction address (a word taken as a target, as mepc or as
mtvec is aligned). One addition stands for the ALU and the address adder, one product for the eight
MDU operations; CSRRW and a reading CSRRS stand for the six CSR commands. MIE is bit 0 and
MPIE bit 1 of mstatus. What a load returns is arbitrary.

**Core.** The same four registers as in `PipelineCtrl`, now with instruction,
operands, result and store or CSR data; the register file (arbitrary at power-up,
written also in a reset cycle, as `regfile.sv` does), the CSR file's next state, the
MDU's handshake, the hazard and forwarding units and the operand refresh. `ClassOf` maps a
packet to the class the controller sees; `Ctrl!Action` and `Ctrl!id_interrupt` of
`PipelineCtrl` decide, so the arbitration is stated once. The other two
units appear by what they promise: fetch delivers any instruction for the address that is
next (`FetchStream`), the LSU answers or faults after any number of cycles (`Lsu`).
The program is whatever fetch delivers. The refinement mapping takes the
architectural program counter to be the address of the oldest packet in the pipeline,
or the next to be fetched when there is none.

**SocTime.** A 64-bit register is a record of its halves. A clock edge ticks or takes a store
to one half (a store to `mtime` suppresses that edge's tick, one to `mtimecmp` does not),
and the hart performs at most one access of `rv32_soc_mtime_read` or
`rv32_soc_mtimecmp_write`, or spends the clock. Other software may set the time between
two calls. `window` remembers the values the counter has had since the read began.

**Bsp.** Operators on a UART record (receive slot, overrun flag, transmitter busy), on a GPIO
record (output latch and output enable of pin 0) and on the mailbox, which keeps the first
status. Bytes are whole and named by the order of their arrival.

**Demo.** `cur` is the context on the hart (`main`, a task, the idle task or a trap handler),
`at` where each context is in its code: one label per access to shared state, so that
the tick may preempt between any two. The kernel is what the demo uses of it: `vTaskDelay`
blocks, the tick wakes and switches to a task of higher priority than the running one, and
interrupts are off in `main` and in handlers. Faults, at most one in a behaviour: a task
not created, the scheduler returning, a failed `configASSERT`, an exception, an unexpected
interrupt, a stack overflow, and a task that returns, which restarts the image at
address 0. What the model makes visible and the properties have to allow for:

* a failed `configASSERT` in a task runs `freertos_platform_fail` with interrupts on, so
  `check_task` may preempt it between its diagnostics and its status and report a pass;
  `TrapIsReported` therefore speaks of `main` and the handlers only;
* `check_task` may preempt `blink_task` between its toggle and its count, and the report's pin
  is then the parity of one blink more than its count (the test bench of the SoC compares
  them); `PassIsEarned` has the pin exactly so there, and equal to the parity elsewhere;
* after `rv32_soc_finish` in a task ticks go on; the mailbox keeps the first status;
* `freertos_platform_fail` drops the low bit of a code from the status; the report's
  `failure_code` keeps it.

**Runtime.** A call puts its arguments in `call`; one step is one iteration of the
routine's loop, and the reference definitions (`Copied`, `Compares`, `IsString`,
`Occurs`, ...) say what it must have done at its return. `text_contains` finds nothing in
an empty text, not even an empty token.

**CoreMark.** `read_counter` one CSR access per step while both counters run, other
instructions of the port and clocks that retire nothing between the reads, `start_time`
and `stop_time` around iterations of any length, calibration runs before the run that
counts, the messages `core_main.c` prints for good and bad outcomes, the report `ee_printf`
makes of them, and the verdict. The other programs on the runtime call its routines and
return from `main`; both may trap anywhere. Ticks are truncated to the width of
`CORE_TICKS`, so a run of 2^32 cycles or more is judged by its remainder: it can be
rejected, not wrongly accepted. `entered`, `inner` and `outer` are history: the
instructions are to be those between the call of `start_time` and the last read of
`stop_time`, the cycles those between the two reads of `minstret`, so reading the counters in
another order at either end breaks `MeasuresTheRegion`. For seeds it does not know the benchmark starts from -1
errors, so a run that is also too short prints that it is valid; the port still rejects it.

## 3. Runs and what they show

| Run | Instance | Shows |
|---|---|---|
| `pipeline_ctrl` | all nine classes, 4 packets | `ProgramOrder`, `ExactlyOnce`, `DrainIsolation`, `NoOverruledAccess`, `InOrderCommit`; `DrainEnds`, `EveryPacketLeaves` under fairness |
| `lsu` | `DataBus`, 3 operations on two targets | `PortContract`, `OwnResponse`, `PerformedOnce`, `BusyForOwner`, `EveryAccessEnds`, with any memory and with the SoC's; `SocKeepsContract`: the SoC's is one of them |
| `lsu_accept_in_reset` | 3 operations, memory accepts in reset | violation of `OwnResponse` (finding 1) |
| `if_stage` | 4 addresses | `PortContract` (one response owed, room for it, requests held), refinement `ImplementsStream` (each packet once, restarts only as commanded), `FetchArrives` |
| `fetch_squash` | 3 addresses, counters to 2 | violation of `SquashCounted` (finding 2) |
| `core_data` | 2 registers, words mod 3; add, mul, loads, store, branch, jalr | `ImplementsIsa` |
| `core_irq` | 1 register, words mod 2; mstatus, mie, MRET, ECALL, load, mul, jalr, any timer line | `ImplementsIsa`; `InterruptIsServed` under fairness |
| `core_csr` | 1 register, words mod 2, minstret mod 3; mepc, mtvec, minstret, illegal CSR write, misaligned branch | `ImplementsIsa`, `InputsJustified` |
| `soc_time` | halves of 2 and 9 values, read passes of up to 3 clocks | `ReadIsInstant`, `InterruptJustified`, `EveryCallReturns` |
| `demo` | goals 3 blinks, 1 echo, 4 ticks, 8 switches; 2 bytes, one fault of seven | `PassIsEarned`, `EchoIsFaithful`, `TrapIsReported`, `DemoEnds` |
| `demo_fault` | the same, a task returns | violation of `FaultIsReported` (finding 3) |
| `coremark` | memory of 4 bytes; counter halves of 8 values, 2 calibration runs | `RoutineCorrect`, `MeasuresTheRegion`, `VerdictIsRight` |

One passing run of each module but `CoreMark` also checks its `TypeOK`.

`ImplementsIsa` is an action property rather than an implied specification: the
retiring packet names the instruction and the loaded value (as the trace port of
`rv32_core.sv` 240-257 does), so a wrong value cannot be explained away as some other
instruction. Each step is a retirement (with the address and store data the memory saw), a trap entry,
a reset, or leaves the architectural state alone. `InputsJustified` is the contract
between the two pipeline modules: whatever the data-level stages report is an input
`PipelineCtrl` considers, so its theorems apply to the core's controller.

**Bounds.** Four packets fill the four registers: every pair of stages conflicts with
every other, and a trap in any of them can be followed by a restart. A packet entering behind a
full pipeline, the fifth, meets no register that is not met here, and the theorems of
section 5 hold for any number.
The LSU serves one operation at a time and remembers at most one
predecessor (held or drained); with three operations one is drained, one in
EX/MEM and one still follows. Of the four targets, three behave alike (always ready); one of
them and the UART make an owner and another. Nothing in the fetch stage compares
addresses, it only increments them; with four, the three that can be in
the stage at once (delivered, held, next) are distinct from a redirect target, and wraparound occurs.
The core runs split the instruction
set by kind of dependency, since the product of all is out of reach. One- and two-bit
values suffice to tell a stale or misrouted operand from the right one because loads put
any value in any register; three addresses tell a skipped, repeated and branched-to
instruction apart, and minstret modulo 3 a lost and a double count. Two registers give
both operand ports a match and a mismatch. Programs are unbounded in length.
Latencies, backpressure, kills and resets are unbounded in every run. When
the bound on operations or packets is reached the models go on stepping with
empty stages, so deadlock is checked. It is not in `fetch_squash`, whose counters stop at
`MaxCount`, and in `demo`, `demo_fault` and `coremark`, where programs halt.

In `soc_time` a low half of nine values leaves room for three passes of the read loop
between two carries; carries fall between any two loads, the high half wraps too, and the
theorems hold for any widths. Every pass shorter than a low half's period is covered
(2^32 clocks in the hardware).
`demo` uses the goals of `demo.c` for blinks, echoes, ticks and switches; counters
saturate where `check_task` no longer looks at them (the blinks keep their parity), the
blink period and the first text are two long, and two bytes fill the receive slot and
overrun it. In `coremark` counter halves of eight values make carries fall into and
between the reads, runs are too short, long enough and longer than a half; four bytes hold
two overlapping strings and every failed partial match, and the theorem on the
routines holds for any memory; a status word of 12 bits loses the top bit of an exit
code as the 32-bit one does.

**Fairness.** Safety is checked without it (the fair specification has the same
safety properties). The liveness runs assume:

* `PipelineCtrl`: edges at which neither MEM nor EX waits keep occurring. The LSU's
  wait ends by `EveryAccessEnds`; the divider's loop has a fixed length.
* `Lsu`: the clock runs; a memory accepts a request that stays offered and
  answers one it accepted (the targets of the SoC answer one cycle after
  acceptance; the UART's transmit register accepts when its shifter is free); the pipeline takes
  a response that stays valid, since MEM is held for nothing else
  (`rv32_core.sv` 442). Fairness never forces a kill or a reset.
* `IfStage`: the same for the instruction port; holds end, by
  `EveryPacketLeaves`. Fairness never forces a flush, redirect or reset, and
  `FetchArrives` lets them cancel the fetch.

* `Core`: edges keep coming at which the LSU does not wait, the MDU makes progress and
  fetch delivers when IF/ID can take a packet (the liveness results of `Lsu` and `IfStage`).
  `InterruptIsServed` assumes of the timer's line only that it stays high from some
  point on, and that no further reset comes.
* `SocTime`: the hart keeps executing the routine it is in. That the loop of the read ends
  follows from its being fast: three passes fit between two carries.
* `Demo`: the hart executes, the timer interrupts, the transmitter shifts. Nobody has to
  send a byte and nothing has to break; `DemoEnds` takes a byte, no fault, and a tick
  period long enough that the idle task is reached again and again as hypotheses, since
  `check_task` waits for all three.

## 4. Findings

1. **Reset hole in the LSU** (`lsu.sv` 158, run `lsu_accept_in_reset`). `issue_saved`
   is not gated by `rst_i`, so a held request is still offered in the first reset cycle.
   If the memory accepts it there, the reset branch does not notice: the unit is
   idle while a response is owed, and a later access completes with it. The
   documents promise that reset retains the bookkeeping to discard such a
   response (`docs/architecture.md` 497, `docs/pipeline-control.md` 206). The fetch stage
   gates the same path. The SoC's interconnect refuses requests during reset, so the
   repository's own system does not meet the case; all other LSU results assume
   such a memory.
2. **`perf_squash` counts no fetch packet** (`rv32_core.sv` 206, run `fetch_squash`).
   The counter adds `fetch_valid` in the cycle of an EX redirect, but that redirect is
   the fetch stage's kill, which forces `fetch_valid` to zero. The document says that
   discarded fetch packets are counted (`docs/pipeline-control.md` 352).

3. **A task that returns restarts the image** (`FreeRTOSConfig.h` 74-79, run
   `demo_fault`). No `configTASK_RETURN_ADDRESS` is defined, so the kernel's port gives
   tasks the return address 0, where the image starts: `_start` clears the statics, the demo
   runs again and can report a pass. `docs/software.md` 293 says that a task return
   terminates with a failing status. None of the demo's three tasks returns.

## 5. What is proved

All theorems are about `Spec`, without fairness, and hold for every value of the
constants allowed by the named assumptions in the modules.

**`PipelineCtrlProofs`** (any `Kinds`, any `MaxAge`). The invariants checked by TLC are
inductive together, once `HistoryOrder` is added: packets disposed of are older than
those in flight, and a memory access belongs to the oldest packet in flight. Without it,
nothing would exclude a state where a packet that has accessed memory is still
behind an older branch, so that a redirect could overrule it; with it, `NoOverruledAccess`
follows because whatever reaches MEM with nothing older to fault cannot be
overruled. The proof has one step for each action; two lemmas
(`KeepStep`, `OverruleStep`) treat the history of actions that keep and that
overrule younger packets. Theorems: `TypeCorrect`, `InProgramOrder`,
`SingleCompletion`, `PreciseDrain`, `PreciseAccesses`, and the action property
`CompletionOrder`.

**`LsuProofs`** (any `MaxOps`, `AcceptInReset = FALSE`). The inductive invariant adds three
parts to the checked properties. `Holding`: what the registers mean in each state
(a unit that is not draining serves the operation in EX/MEM; the request the memory holds
is the saved one; the saved result is the saved operation's). `Performed`: the
operation in EX/MEM has not been performed before its own request goes out, and the
one being drained has another number. `Past`: completed operations are neither in
EX/MEM nor about to be sent. Without `Performed` an operation could be sent twice, without
`Past` a completed one could be performed again. Lemmas treat the surroundings (bus, owner,
acceptances, capture) once for all actions, then one lemma per action gives the
registers' part. Theorems: `TypeCorrect`, `KeepsPortContract`, `ResponsesAreOwn`,
`AccessesAreOnce`, `ServesItsOwner`. The assumption on the memory is needed: finding 1 is
its counterexample.

For `DataBus`, any `MaxOps` and any assignment of targets to operations, the same module
adds `SlotInv`: while the slot is taken, the target it names is answering what the memory owes,
and no other target answers. Then the answer to whatever a reset makes the slot forget is given
in the reset cycle itself. The theorem `SocIsAMemory` discharges the assumption on the
memory for the SoC.

**`IfStageProofs`** (any number of addresses, any memory latency). `BusInv` says what the
memory owes: nothing, or the one request the registers wait for. `NextInv` says where
`next_pc_q` stands: behind a held packet, behind the live request once it is accepted, at
it until then; and that a selected trap leaves nothing to deliver. Without it the address
expected after a delivery would be unknown. The refinement goes by the controller's
command: a redirect or trap makes its target the next address wherever the request for it
is (`TargetIsNext`), a hold keeps the place (`HoldKeepsPlace`), an advance hands over the
expected packet or nothing (`AdvanceDelivers`, `NothingArrives`). Theorems: `TypeCorrect`,
`KeepsPortContract`, `ImplementsFetchStream`.

**`SocTimeProofs`** (any widths, any pass of the read loop shorter than a period of the low
half). `PassInv` says what a pass knows: since its first load the high half has advanced at
most once, and if it has, the low half has restarted and is below the age of the pass; if
it has not, the two loads are of one moment. Without the age, a second carry could bring the
high half back. `WriteInv` says how far the deadline has been replaced. Theorems:
`TypeCorrect`, `ReadsAreInstants`, `InterruptsAreJustified`.

**`RuntimeProofs`** (any memory size, any byte values, any legal arguments). One loop
invariant per routine: what has been copied or set up to offset `i`, how far two ranges or
strings agree, that no terminator lies behind, and for `text_contains` that no occurrence
begins before the candidate. `InString` and `StringEnd` relate these to where strings end.
Theorem: `RoutinesAreCorrect`.

**`CoreProofs`** (any word size, register file, set of instructions, behaviour of the timer's
line, reset and trap vectors; assumptions `SizeAssumption`, `ProgramAssumption`, `LineAssumption`,
`VectorAssumption`). The idea: the architectural state between two packets in flight is a
function of the pipeline. `regs` and `csr` are the state before MEM/WB; what MEM/WB leaves
(`regs_mem`, `csr_mem`) is the state before EX/MEM. The invariant says that each packet is right
about the state before it: `WbRight` and `MemRight` of what has been computed (result, address,
store data, CSR operand), `ExRight` of an operand in ID/EX (current unless a packet in front can
forward it, and a load in front that cannot has been waited for), `MduRight` of a response held
behind a wait, `CsrRight` of the CSR an instruction or an MRET relies on, `AddressOrder` of the
address of the successor, `TrapOrder`, `TrapRight` and `TimerRight` of traps. None of these is
inductive alone: a forwarded operand is right because the packet it comes from is, and that
packet is on the right path because the branch before it was resolved with right operands.
The refinement is then one step: what leaves MEM/WB is what `Isa` does in that state. Theorems:
`TypeCorrect`, `PipelineRight`, `InputsAreJustified`, `ImplementsArchitecture`.

**`DemoProofs`** (any goals, blink period, length of the first text, number of bytes and kinds of
fault). `Types` is the type invariant in groups (kernel, devices, counters, bytes), so that a step is
shown to keep only the groups it touches. `Running`: main and a handler keep the hart, and nothing but a trap preempts `check_task`
between its test and its verdict, since it has the highest priority and only a wait gives the
hart away. `Failures`: from a fault of main or of a handler until the mailbox is written nobody
else runs, so the report and the status are the fault's. `Blinks`: the pin is the parity of the
count, but for a toggle not yet counted. `Order`: the byte in the hand of `echo_task` came
after all that it sent, the one in the receive slot after that; so no byte is echoed twice and
the number sent is bounded by the number received. `Echoes` ties the count of echoes
to the bytes sent, `Accounted` each byte received since the errors were cleared to a place,
`Verdict` what `check_task` has established at each of its steps. `PassIsEarned` needs
all of these: the count in the report was taken while other tasks stood between two steps of
theirs. Theorems: `TypeCorrect`, `PassesAreEarned`, `EchoesAreFaithful`, `TrapsAreReported`.

**`CoreMarkProofs`** (any counter width, run lengths, other clocks, calibration runs and exit codes;
`CounterAssumption`, `WordAssumption`, `RunAssumption`, `CodeAssumption`). `ReaderInv` says what
`read_counter` holds: the high half of one moment `t` and the low half of a later one `u`; if the high half
read last still agrees, no carry fell between `t` and `u`, and the value is that of `u` (lemma
`Untorn`). `RegionInv` and `Measured` place the values read between the iterations they
enclose and the stretches they must lie in: the start of the cycles after the first read of
`minstret` is done, their end before the last pass of the second begins. `ReportInv`: the report and the messages still to be
printed together say what the run deserves; neither alone does, since `ee_printf` takes the
messages one by one. `LibraryInv` lets the routines' theorem carry over to the programs that
call them. Theorems: `TimesAreMeasured`, `VerdictsAreRight`, `RoutinesStayCorrect`.

Only model-checked: liveness (`DrainEnds`, `EveryPacketLeaves`, `EveryAccessEnds`, `FetchArrives`,
`InterruptIsServed`, `EveryCallReturns`, `DemoEnds`), because fairness is defined by ENABLED,
which is out of the prover's reach. Every safety property of a passing run is a theorem.

## 6. Plan

In order of importance. Modules to be proved about use no RECURSIVE operators.

1. `MulDiv`: handshake with kill, and the restoring loop at small width against
   the mathematical definition.
2. `CsrFile`: the registers `Core` leaves out (mcause, mtval, mscratch, mcycle) and writes to
   one half of a split counter.
3. `Uart`: both directions at four clocks per bit, with false starts and framing errors,
   against the whole-byte receiver of `Bsp`.

## 7. Not modelled

The decoder, immediate generator and ALU are stateless bit functions that the
instruction tests cover; byte lanes and sign extension in the LSU likewise. The contents of the TCM and its
instruction port appear as any memory that keeps the port contract. The FPGA
wrapper is clocking and pins. Of the devices, GPIO input, set and clear have no caller, and
the UART's bit timing and framing are planned. Of the demo, exceptions before the scheduler
runs and the report's copies of mtval, mstatus and mie are left out: nothing reads them but a
person. The kernel, the CoreMark sources and riscv-tests are vendored and appear by what
the repository's code uses of them; the test programs promise nothing of their own. Test
benches and assertions were read as statements of intent. X-propagation, timing and the
behaviour between clock edges are outside a cycle-level model.

## 8. Running

    tlc -config PipelineCtrl.cfg PipelineCtrl     # and likewise each run
    tlapm PipelineCtrlProofs.tla                  # and likewise each *Proofs module
