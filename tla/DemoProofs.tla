----------------------------- MODULE DemoProofs -----------------------------
(***************************************************************************)
(* Proofs about the FreeRTOS demonstration, for any goals, period, length  *)
(* of the first text, number of bytes and kinds of fault.                  *)
(***************************************************************************)
EXTENDS Demo, TLAPS

USE GoalAssumption, FaultAssumption

-----------------------------------------------------------------------------
(* The inductive invariant.                                                *)

Failing == {"fail", "post_fail", "halted"}

\* Where each context can be.
Places ==
  [main: {"report", "devices", "create", "schedule", "started"} \cup Failing,
   trap: {"none"} \cup Failing,
   blink: {"toggle", "count", "delay"} \cup Failing,
   echo: {"text", "poll", "getc", "putc", "byte", "count", "delay"}
           \cup Failing,
   check: {"test", "tick", "fill", "pass", "delay"} \cup Failing]

Reports ==
  [tick: 0 .. TickGoal, hooks: 0 .. TickGoal, switches: 0 .. SwitchGoal,
   blinks: 0 .. BlinkGoal + 1, echoes: 0 .. MaxBytes, echoed: 0 .. MaxBytes,
   gpio: {0, 1}, mcause: {"none", "exception", "interrupt"},
   failure_code: {0} \cup {Code[f] : f \in DOMAIN Code}]

Uarts == [valid: BOOLEAN, data: 0 .. MaxBytes, overrun: BOOLEAN,
          busy: BOOLEAN]

\* The types of what the kernel keeps, of the devices, of the demo's counts
\* and of the bytes; and where each context is.
KernelTypes ==
  /\ cur \in Contexts \cup {"idle"}
  /\ delay \in [Tasks -> 0 .. BlinkPeriod]
  /\ tick_hook_count \in 0 .. TickGoal
  /\ context_switch_count \in 0 .. SwitchGoal

DeviceTypes ==
  /\ uart \in Uarts
  /\ gpio \in [out: {0, 1}, oe: {0, 1}]
  /\ mailbox \in {0, PASS} \cup {Status(Code[f]) : f \in DOMAIN Code}

CountTypes ==
  /\ blink_count \in 0 .. BlinkGoal + 1
  /\ echo_count \in Nat
  /\ echoed_byte \in 0 .. MaxBytes

ByteTypes ==
  /\ byte \in 0 .. MaxBytes /\ text \in 0 .. ReadyLen
  /\ arrived \in 0 .. MaxBytes /\ forgiven \in 0 .. MaxBytes
  /\ sent \in Seq(1 .. MaxBytes)

Types ==
  /\ KernelTypes /\ DeviceTypes /\ CountTypes /\ ByteTypes
  /\ at \in Places /\ report \in Reports
  /\ fault \in Faults \cup {"none"}

\* Main and a trap handler keep the hart; while main runs no task has
\* started; nobody preempts check_task between its test and its verdict but
\* a trap.
Running ==
  /\ at["main"] # "started" <=> cur = "main"
  /\ at["trap"] # "none" <=> cur = "trap"
  /\ cur = "main" => \A t \in Tasks : at[t] = Start.at[t]
  /\ at["check"] \in {"tick", "fill", "pass"} => cur \in {"check", "trap"}

Causes == [main |-> {"create", "scheduler"}, trap |-> Traps]

\* Who fails, from which cause, and how far its report has come.  That a
\* failing main or handler alone writes report and mailbox from the fault on
\* is what makes the verdict its own.
Failures ==
  /\ \A t \in Tasks : at[t] \in {"fail", "post_fail"} => fault = "assert"
  /\ \A c \in {"main", "trap"} :
       /\ at[c] \in Failing <=> fault \in Causes[c]
       /\ at[c] \in {"post_fail", "halted"} =>
            report.failure_code = Code[fault]
       /\ at[c] = "halted" => mailbox = Status(Code[fault])
       /\ at[c] \in {"fail", "post_fail"} => mailbox = 0
  /\ fault \in {"exception", "interrupt"} => report.mcause = fault

\* The pin shows the parity of the blinks but for a toggle not yet counted.
Blinks ==
  /\ cur = "main" => blink_count = 0
  /\ at["main"] \notin {"report", "devices"} =>
       /\ at["blink"] \in {"toggle", "delay"} => gpio.out = blink_count % 2
       /\ at["blink"] = "count" => gpio.out = 1 - (blink_count % 2)

\* Bytes echoed, in order of arrival; the byte in hand is behind them, the
\* byte in the receive slot behind that.
Order ==
  /\ \A i \in DOMAIN sent : i <= sent[i] /\ sent[i] <= arrived
  /\ \A i, j \in DOMAIN sent : i < j => sent[i] < sent[j]
  /\ at["echo"] \in {"text", "poll", "getc", "delay"} => byte = 0
  /\ at["echo"] \in {"putc", "byte", "count"} => byte # 0
  /\ at["echo"] = "putc" => \A i \in DOMAIN sent : sent[i] < byte
  /\ at["echo"] \in {"byte", "count"} =>
       sent # <<>> /\ byte = sent[Len(sent)]
  /\ byte <= arrived /\ uart.data <= arrived
  /\ uart.valid <=> uart.data # 0
  /\ uart.valid =>
       byte < uart.data /\ \A i \in DOMAIN sent : sent[i] < uart.data
  /\ at["echo"] = "text" => text # 0

\* The count of echoes is behind the bytes sent by the byte in hand.
Echoes ==
  /\ echo_count <= Len(sent)
  /\ at["echo"] \in {"byte", "count"} => echo_count < Len(sent)
  /\ echo_count > 0 => echoed_byte # 0
  /\ at["echo"] = "count" => echoed_byte # 0
  /\ echoed_byte # 0 => \E i \in DOMAIN sent : sent[i] = echoed_byte

\* No byte since the errors were cleared has vanished without a trace.
Accounted ==
  \A b \in forgiven + 1 .. arrived :
    \/ \E i \in DOMAIN sent : sent[i] = b
    \/ b \in {byte, uart.data}
    \/ uart.overrun

\* What a pass asserts of the report.
Earned ==
  /\ report.failure_code = 0
  /\ report.blinks >= BlinkGoal /\ report.hooks >= TickGoal
  /\ report.switches >= SwitchGoal
  /\ report.echoes >= EchoGoal /\ report.echoes <= Len(sent)
  /\ \E i \in DOMAIN sent : sent[i] = report.echoed
  /\ at["blink"] \in {"toggle", "delay"} => report.gpio = report.blinks % 2
  /\ at["blink"] = "count" => report.gpio = 1 - (report.blinks % 2)

\* The way of check_task from its test to its verdict, and that it keeps the
\* hart afterwards.
Verdict ==
  /\ at["check"] \in {"tick", "fill"} => GoalsMet
  /\ at["check"] = "pass" /\ cur = "check" => Earned
  /\ mailbox = PASS => cur = "check" /\ at["check"] = "halted" /\ Earned

Inv == Types /\ Running /\ Failures /\ Blinks /\ Order /\ Echoes
         /\ Accounted /\ Verdict

-----------------------------------------------------------------------------
(* What the operators of the model return.                                 *)

\* The status of a failure is neither that of a pass nor an empty mailbox.
LEMMA StatusFacts ==
  /\ DOMAIN Code = {"create", "scheduler", "assert", "overflow", "exception",
                    "interrupt"}
  /\ \A f \in DOMAIN Code : Status(Code[f]) \in Nat \ {0, PASS}
BY DEF Code, Status, PASS

\* The device operators keep their records' types.
LEMMA DeviceFacts ==
  ASSUME NEW u \in Uarts
  PROVE  /\ \A b \in 0 .. MaxBytes : UartReceive(u, b) \in Uarts
         /\ uart_clear_errors(u) \in Uarts
         /\ uart_putc(u) \in Uarts
         /\ UartSent(u) \in Uarts
         /\ uart_pop(u) \in Uarts
         /\ uart_rxdata(u) \in 0 .. MaxBytes
<1>1. ASSUME NEW v \in BOOLEAN, NEW o \in BOOLEAN, NEW y \in BOOLEAN,
             NEW b \in 0 .. MaxBytes
      PROVE  [u EXCEPT !.valid = v, !.data = b] \in Uarts
             /\ [u EXCEPT !.overrun = o] \in Uarts
             /\ [u EXCEPT !.busy = y] \in Uarts
  BY DEF Uarts
<1>2. 0 \in 0 .. MaxBytes /\ u.data \in 0 .. MaxBytes
  BY DEF Uarts
<1> QED BY <1>1, <1>2 DEF UartReceive, uart_clear_errors, uart_putc,
                          UartSent, uart_pop, uart_rxdata

\* What the device operators do to the receive slot.
LEMMA SlotFacts ==
  ASSUME NEW u \in Uarts
  PROVE  /\ \A v \in {uart_clear_errors(u), uart_putc(u), UartSent(u)} :
              v.valid = u.valid /\ v.data = u.data
         /\ uart_putc(u).overrun = u.overrun
         /\ UartSent(u).overrun = u.overrun
         /\ ~uart_pop(u).valid /\ uart_pop(u).data = 0
         /\ uart_pop(u).overrun = u.overrun
         /\ \A b :
              IF u.valid
              THEN /\ UartReceive(u, b).valid /\ UartReceive(u, b).overrun
                   /\ UartReceive(u, b).data = u.data
              ELSE /\ UartReceive(u, b).valid
                   /\ UartReceive(u, b).data = b
                   /\ UartReceive(u, b).overrun = u.overrun
BY DEF Uarts, UartReceive, uart_clear_errors, uart_putc, UartSent, uart_pop

\* The kernel runs a task or the idle task.
LEMMA HighestFacts ==
  ASSUME NEW d
  PROVE  Highest(d) \in Tasks \cup {"idle"}
<1>1. CASE Ready(d) = {}
  BY <1>1 DEF Highest
<1>2. CASE Ready(d) # {}
  <2>1. \E t \in Ready(d) : \A u \in Ready(d) : Priority[t] >= Priority[u]
    BY <1>2 DEF Ready, Tasks, Priority
  <2> QED BY <1>2, <2>1 DEF Highest, Ready
<1> QED BY <1>1, <1>2

\* The start is a legal place for every context.
LEMMA StartFacts ==
  /\ Start.at \in Places
  /\ Start.delay \in [Tasks -> 0 .. BlinkPeriod]
BY DEF Start, Places

\* A context goes to one place and the others stay.
LEMMA GoFacts ==
  ASSUME Types, NEW c \in Contexts, NEW label, Go(c, label)
  PROVE  /\ at'[c] = label
         /\ \A d \in Contexts \ {c} : at'[d] = at[d]
         /\ label \in Failing => at' \in Places
BY DEF Types, Places, Go, Contexts, Tasks, Failing

\* The bytes sent are a sequence of bytes.
LEMMA SentFacts ==
  ASSUME Types
  PROVE  /\ Len(sent) \in Nat /\ DOMAIN sent = 1 .. Len(sent)
         /\ \A i \in DOMAIN sent : sent[i] \in 1 .. MaxBytes
         /\ \A i \in DOMAIN sent : sent[i] \in Nat
         /\ sent # <<>> => Len(sent) \in DOMAIN sent
<1>1. sent \in Seq(1 .. MaxBytes)
  BY DEF Types, ByteTypes
<1>2. Len(sent) \in Nat /\ DOMAIN sent = 1 .. Len(sent)
  BY <1>1
<1>3. \A i \in DOMAIN sent : sent[i] \in 1 .. MaxBytes
  BY <1>1
<1>4. sent # <<>> => Len(sent) \in DOMAIN sent
  BY <1>1
<1> QED BY <1>2, <1>3, <1>4

\* There is room in the types for all that is echoed, for no byte is echoed
\* twice.
LEMMA SentFits ==
  ASSUME Types, Order
  PROVE  Len(sent) \in 0 .. MaxBytes
<1>1. CASE sent = <<>>
  BY <1>1
<1>2. CASE sent # <<>>
  <2>1. Len(sent) \in DOMAIN sent
    BY <1>2, SentFacts
  <2>2. sent[Len(sent)] \in 1 .. MaxBytes
    BY <2>1, SentFacts
  <2>3. Len(sent) <= sent[Len(sent)]
    BY <2>1 DEF Order
  <2> QED BY <2>2, <2>3, SentFacts
<1> QED BY <1>1, <1>2

\* A context that fails has a cause with a code.
LEMMA FailingFacts ==
  ASSUME Failures, NEW c \in Contexts, at[c] \in {"fail", "post_fail"}
  PROVE  fault \in DOMAIN Code
BY StatusFacts DEF Failures, Contexts, Tasks, Causes, Traps, Failing

-----------------------------------------------------------------------------
(* The types, step by step.                                                *)

\* What a step leaves alone keeps its type.
LEMMA TypesKept ==
  ASSUME Types
  PROVE  /\ UNCHANGED <<cur, delay, tick_hook_count, context_switch_count>>
              => KernelTypes'
         /\ UNCHANGED <<uart, gpio, mailbox>> => DeviceTypes'
         /\ UNCHANGED <<blink_count, echo_count, echoed_byte>> => CountTypes'
         /\ UNCHANGED <<byte, text, arrived, forgiven, sent>> => ByteTypes'
<1>1. UNCHANGED <<cur, delay, tick_hook_count, context_switch_count>>
        => KernelTypes'
  BY DEF Types, KernelTypes
<1>2. UNCHANGED <<uart, gpio, mailbox>> => DeviceTypes'
  BY DEF Types, DeviceTypes
<1>3. UNCHANGED <<blink_count, echo_count, echoed_byte>> => CountTypes'
  BY DEF Types, CountTypes
<1>4. UNCHANGED <<byte, text, arrived, forgiven, sent>> => ByteTypes'
  BY DEF Types, ByteTypes
<1> QED BY <1>1, <1>2, <1>3, <1>4

\* The UART changes alone.
LEMMA UartTypes ==
  ASSUME Types, uart' \in Uarts, UNCHANGED <<gpio, mailbox>>
  PROVE  DeviceTypes'
BY DEF Types, DeviceTypes

\* A task that waits gives the hart to the ready task of highest priority.
LEMMA DelayTypes ==
  ASSUME Types, NEW t \in Tasks, NEW ticks \in 0 .. BlinkPeriod,
         vTaskDelay(t, ticks), tick_hook_count' = tick_hook_count
  PROVE  KernelTypes'
<1>1. delay' \in [Tasks -> 0 .. BlinkPeriod]
  BY DEF Types, KernelTypes, vTaskDelay
<1>2. cur' \in Contexts \cup {"idle"}
  BY HighestFacts DEF vTaskDelay, Contexts
<1>3. context_switch_count' \in 0 .. SwitchGoal
  BY DEF Types, KernelTypes, vTaskDelay, freertos_trace_task_switched_in, UpTo
<1>4. tick_hook_count' \in 0 .. TickGoal
  BY DEF Types, KernelTypes
<1> QED BY <1>1, <1>2, <1>3, <1>4 DEF KernelTypes

\* A step of main keeps the types.
LEMMA MainTypes ==
  ASSUME Types, ClearReport \/ InitDevices \/ CreateTasks \/ StartScheduler
  PROVE  Types'
<1> at \in Places /\ report \in Reports /\ fault \in Faults \cup {"none"}
  BY DEF Types
<1> USE TypesKept DEF hardware, counts, locals, kernel, history
<1>1. CASE ClearReport
  <2>1. report' \in Reports
    BY <1>1 DEF ClearReport, NoReport, Reports
  <2>2. at' \in Places
    BY <1>1 DEF ClearReport, Main, Go, Places
  <2> QED BY <1>1, <2>1, <2>2 DEF ClearReport, Types
<1>2. CASE InitDevices
  <2>1. gpio \in [out: {0, 1}, oe: {0, 1}]
    BY DEF Types, DeviceTypes
  <2>2. gpio' \in [out: {0, 1}, oe: {0, 1}]
    BY <1>2, <2>1 DEF InitDevices, gpio_write, gpio_set_output_enable
  <2>3. uart' \in Uarts
    BY <1>2, DeviceFacts DEF Types, DeviceTypes, InitDevices
  <2>4. DeviceTypes'
    BY <1>2, <2>2, <2>3 DEF Types, DeviceTypes, InitDevices
  <2>5. ByteTypes'
    BY <1>2 DEF Types, ByteTypes, InitDevices
  <2>6. at' \in Places
    BY <1>2 DEF InitDevices, Main, Go, Places
  <2> QED BY <1>2, <2>4, <2>5, <2>6 DEF InitDevices, Types
<1>3. CASE CreateTasks
  <2>1. at' \in Places
    BY <1>3 DEF CreateTasks, Main, Go, Places
  <2> QED BY <1>3, <2>1 DEF CreateTasks, Types
<1>4. CASE StartScheduler
  <2>1. at' \in Places
    BY <1>4 DEF StartScheduler, Main, Go, Places
  <2>2. cur' \in Contexts \cup {"idle"}
    BY <1>4, HighestFacts DEF StartScheduler, Contexts
  <2>3. context_switch_count' \in 0 .. SwitchGoal
    BY <1>4 DEF Types, KernelTypes, StartScheduler,
                freertos_trace_task_switched_in, UpTo
  <2>4. KernelTypes'
    BY <1>4, <2>2, <2>3 DEF Types, KernelTypes, StartScheduler
  <2> QED BY <1>4, <2>1, <2>4 DEF StartScheduler, Types
<1> QED BY <1>1, <1>2, <1>3, <1>4

\* A step of blink_task or echo_task keeps the types.
LEMMA TaskTypes ==
  ASSUME Types, Order,
         \/ Toggle \/ CountBlink \/ Sleep("blink", "toggle", BlinkPeriod)
         \/ WriteText \/ PollStatus \/ GetByte \/ PutByte \/ KeepByte
         \/ CountEcho \/ Sleep("echo", "poll", 1)
  PROVE  Types'
<1> at \in Places /\ report \in Reports /\ fault \in Faults \cup {"none"}
  BY DEF Types
<1> USE TypesKept DEF hardware, counts, locals, kernel, history
<1>1. CASE Toggle
  <2>1. at' \in Places
    BY <1>1 DEF Toggle, Task, Go, Places
  <2>2. gpio \in [out: {0, 1}, oe: {0, 1}]
    BY DEF Types, DeviceTypes
  <2>3. gpio.out \in {0, 1} /\ 1 - gpio.out \in {0, 1}
    BY <2>2
  <2>4. gpio' \in [out: {0, 1}, oe: {0, 1}]
    BY <1>1, <2>2, <2>3 DEF Toggle, gpio_toggle
  <2>5. DeviceTypes'
    BY <1>1, <2>4 DEF Types, DeviceTypes, Toggle
  <2> QED BY <1>1, <2>1, <2>5 DEF Toggle, Types
<1>2. CASE CountBlink
  <2>1. at' \in Places
    BY <1>2 DEF CountBlink, Task, Go, Places
  <2>2. CountTypes'
    BY <1>2 DEF Types, CountTypes, CountBlink, NextBlink
  <2> QED BY <1>2, <2>1, <2>2 DEF CountBlink, Types
<1>3. CASE Sleep("blink", "toggle", BlinkPeriod)
  <2>1. at' \in Places
    BY <1>3 DEF Sleep, Task, Go, Places
  <2>2. "blink" \in Tasks /\ BlinkPeriod \in 0 .. BlinkPeriod
    BY DEF Tasks
  <2>3. KernelTypes'
    BY <1>3, <2>2, DelayTypes DEF Sleep
  <2> QED BY <1>3, <2>1, <2>3 DEF Sleep, Types
<1>4. CASE WriteText
  <2>1. at' \in Places
    BY <1>4 DEF WriteText, Task, Go, Places
  <2>2. uart' \in Uarts
    BY <1>4, DeviceFacts DEF Types, DeviceTypes, WriteText
  <2>3. text # 0 /\ text \in 0 .. ReadyLen
    BY <1>4 DEF WriteText, Task, Order, Types, ByteTypes
  <2>4. text' \in 0 .. ReadyLen
    BY <1>4, <2>3 DEF WriteText
  <2>5. ByteTypes'
    BY <1>4, <2>4 DEF Types, ByteTypes, WriteText
  <2> QED BY <1>4, <2>1, <2>2, <2>5, UartTypes DEF WriteText, Types
<1>5. CASE PollStatus
  <2>1. at' \in Places
    BY <1>5 DEF PollStatus, Task, Go, Places
  <2> QED BY <1>5, <2>1 DEF PollStatus, Types
<1>6. CASE GetByte
  <2>1. at' \in Places
    BY <1>6 DEF GetByte, Task, Go, Places
  <2>2. uart' \in Uarts /\ byte' \in 0 .. MaxBytes
    BY <1>6, DeviceFacts DEF Types, DeviceTypes, GetByte
  <2>3. ByteTypes'
    BY <1>6, <2>2 DEF Types, ByteTypes, GetByte
  <2> QED BY <1>6, <2>1, <2>2, <2>3, UartTypes DEF GetByte, Types
<1>7. CASE PutByte
  <2>1. at' \in Places
    BY <1>7 DEF PutByte, Task, Go, Places
  <2>2. uart' \in Uarts
    BY <1>7, DeviceFacts DEF Types, DeviceTypes, PutByte
  <2>3. byte \in 1 .. MaxBytes /\ sent \in Seq(1 .. MaxBytes)
    BY <1>7 DEF PutByte, Task, Order, Types, ByteTypes
  <2>4. sent' \in Seq(1 .. MaxBytes)
    BY <1>7, <2>3 DEF PutByte
  <2>5. ByteTypes'
    BY <1>7, <2>4 DEF Types, ByteTypes, PutByte
  <2> QED BY <1>7, <2>1, <2>2, <2>5, UartTypes DEF PutByte, Types
<1>8. CASE KeepByte
  <2>1. at' \in Places
    BY <1>8 DEF KeepByte, Task, Go, Places
  <2>2. CountTypes'
    BY <1>8 DEF Types, CountTypes, ByteTypes, KeepByte
  <2> QED BY <1>8, <2>1, <2>2 DEF KeepByte, Types
<1>9. CASE CountEcho
  <2>1. at' \in Places
    BY <1>9 DEF CountEcho, Task, Go, Places
  <2>2. CountTypes' /\ ByteTypes'
    BY <1>9 DEF Types, CountTypes, ByteTypes, CountEcho
  <2> QED BY <1>9, <2>1, <2>2 DEF CountEcho, Types
<1>10. CASE Sleep("echo", "poll", 1)
  <2>1. at' \in Places
    BY <1>10 DEF Sleep, Task, Go, Places
  <2>2. "echo" \in Tasks /\ 1 \in 0 .. BlinkPeriod
    BY DEF Tasks
  <2>3. KernelTypes'
    BY <1>10, <2>2, DelayTypes DEF Sleep
  <2> QED BY <1>10, <2>1, <2>3 DEF Sleep, Types
<1> QED BY <1>1, <1>2, <1>3, <1>4, <1>5, <1>6, <1>7, <1>8, <1>9, <1>10

\* A step of check_task or of a failing context keeps the types.
LEMMA ReportTypes ==
  ASSUME Types, Failures, Order, Echoes,
         \/ Check \/ ReportTick \/ ReportProgress \/ Pass
         \/ Sleep("check", "test", 1)
         \/ \E c \in Contexts : ReportFailure(c) \/ Fail(c)
  PROVE  Types'
<1> at \in Places /\ report \in Reports /\ fault \in Faults \cup {"none"}
  BY DEF Types
<1> USE TypesKept DEF hardware, counts, locals, kernel, history
<1>1. CASE Check
  <2>1. at' \in Places
    BY <1>1 DEF Check, Task, Go, Places
  <2> QED BY <1>1, <2>1 DEF Check, Types
<1>2. CASE ReportTick
  <2>1. at' \in Places
    BY <1>2 DEF ReportTick, Task, Go, Places
  <2>2. tick_hook_count \in 0 .. TickGoal
    BY DEF Types, KernelTypes
  <2>3. report' \in Reports
    BY <1>2, <2>2 DEF ReportTick, Reports
  <2> QED BY <1>2, <2>1, <2>3 DEF ReportTick, Types
<1>3. CASE ReportProgress
  <2>1. at' \in Places
    BY <1>3 DEF ReportProgress, Task, Go, Places
  <2>2. tick_hook_count \in 0 .. TickGoal /\ gpio.out \in {0, 1}
        /\ context_switch_count \in 0 .. SwitchGoal
    BY DEF Types, KernelTypes, DeviceTypes
  <2>3. blink_count \in 0 .. BlinkGoal + 1 /\ echoed_byte \in 0 .. MaxBytes
        /\ echo_count \in Nat
    BY DEF Types, CountTypes
  <2>4. Len(sent) \in 0 .. MaxBytes
    BY SentFits
  <2>5. echo_count \in 0 .. MaxBytes
    BY <2>3, <2>4 DEF Echoes
  <2>6. report' \in Reports
    BY <1>3, <2>2, <2>3, <2>5 DEF ReportProgress, Reports
  <2> QED BY <1>3, <2>1, <2>6 DEF ReportProgress, Types
<1>4. CASE Pass
  <2>1. at' \in Places
    BY <1>4 DEF Pass, finish, Go, Places, Failing
  <2>2. DeviceTypes'
    BY <1>4 DEF Types, DeviceTypes, Pass, finish, Mailed
  <2> QED BY <1>4, <2>1, <2>2 DEF Pass, finish, Types
<1>5. CASE Sleep("check", "test", 1)
  <2>1. at' \in Places
    BY <1>5 DEF Sleep, Task, Go, Places
  <2>2. "check" \in Tasks /\ 1 \in 0 .. BlinkPeriod
    BY DEF Tasks
  <2>3. KernelTypes'
    BY <1>5, <2>2, DelayTypes DEF Sleep
  <2> QED BY <1>5, <2>1, <2>3 DEF Sleep, Types
<1>6. ASSUME NEW c \in Contexts, ReportFailure(c)
      PROVE  Types'
  <2>1. fault \in DOMAIN Code
    BY <1>6, FailingFacts DEF ReportFailure
  <2>2. at' \in Places
    BY <1>6, GoFacts DEF ReportFailure, Failing
  <2>3. tick_hook_count \in 0 .. TickGoal
        /\ context_switch_count \in 0 .. SwitchGoal
    BY DEF Types, KernelTypes
  <2>4. report' \in Reports
    BY <1>6, <2>1, <2>3 DEF ReportFailure, Reports
  <2> QED BY <1>6, <2>2, <2>4 DEF ReportFailure, Types
<1>7. ASSUME NEW c \in Contexts, Fail(c)
      PROVE  Types'
  <2>1. fault \in DOMAIN Code
    BY <1>7, FailingFacts DEF Fail
  <2>2. at' \in Places
    BY <1>7, GoFacts DEF Fail, finish, Failing
  <2>3. mailbox' \in {0, PASS} \cup {Status(Code[f]) : f \in DOMAIN Code}
    BY <1>7, <2>1 DEF Types, DeviceTypes, Fail, finish, Mailed
  <2>4. DeviceTypes'
    BY <1>7, <2>3 DEF Types, DeviceTypes, Fail, finish
  <2> QED BY <1>7, <2>2, <2>4 DEF Fail, finish, Types
<1> QED BY <1>1, <1>2, <1>3, <1>4, <1>5, <1>6, <1>7

\* The tick, an arriving byte, the end of a transmission and a fault keep
\* the types.
LEMMA OtherTypes ==
  ASSUME Types, Tick \/ Receive \/ TransmitDone \/ Break
  PROVE  Types'
<1> at \in Places /\ report \in Reports /\ fault \in Faults \cup {"none"}
  BY DEF Types
<1> USE TypesKept DEF hardware, counts, locals, kernel, history
<1>1. CASE Tick
  <2>1. delay' \in [Tasks -> 0 .. BlinkPeriod]
    BY <1>1 DEF Tick, Types, KernelTypes
  <2>2. cur \in Contexts \cup {"idle"}
    BY DEF Types, KernelTypes
  <2>3. cur' \in Contexts \cup {"idle"}
    BY <1>1, <2>2, HighestFacts DEF Tick, Contexts
  <2>4. tick_hook_count' \in 0 .. TickGoal
    BY <1>1 DEF Tick, vApplicationTickHook, UpTo, Types, KernelTypes
  <2>5. context_switch_count' \in 0 .. SwitchGoal
    BY <1>1 DEF Tick, freertos_trace_task_switched_in, UpTo, Types,
                KernelTypes
  <2>6. KernelTypes'
    BY <2>1, <2>3, <2>4, <2>5 DEF KernelTypes
  <2> QED BY <1>1, <2>6 DEF Tick, Types
<1>2. CASE Receive
  <2>1. arrived' \in 0 .. MaxBytes
    BY <1>2 DEF Receive, Types, ByteTypes
  <2>2. uart' \in Uarts
    BY <1>2, <2>1, DeviceFacts DEF Receive, Types, DeviceTypes
  <2>3. ByteTypes'
    BY <1>2, <2>1 DEF Receive, Types, ByteTypes
  <2> QED BY <1>2, <2>2, <2>3, UartTypes DEF Receive, Types
<1>3. CASE TransmitDone
  <2>1. uart' \in Uarts
    BY <1>3, DeviceFacts DEF TransmitDone, Types, DeviceTypes
  <2> QED BY <1>3, <2>1, UartTypes DEF TransmitDone, Types
<1>4. CASE MainFails("create", "create")
  <2>1. at' \in Places
    BY <1>4 DEF MainFails, Main, Go, Places, Failing
  <2> QED BY <1>4, <2>1 DEF MainFails, Fails, Types
<1>5. CASE MainFails("scheduler", "schedule")
  <2>1. at' \in Places
    BY <1>5 DEF MainFails, Main, Go, Places, Failing
  <2> QED BY <1>5, <2>1 DEF MainFails, Fails, Types
<1>6. ASSUME NEW t \in Tasks, AssertFails(t)
      PROVE  Types'
  <2>1. at' \in Places
    BY <1>6, GoFacts DEF AssertFails, Contexts, Failing
  <2> QED BY <1>6, <2>1 DEF AssertFails, Fails, Types
<1>7. ASSUME NEW t \in Tasks, TaskReturns(t)
      PROVE  Types'
  <2>1. at' \in Places /\ delay' \in [Tasks -> 0 .. BlinkPeriod]
    BY <1>7, StartFacts DEF TaskReturns
  <2>2. KernelTypes'
    BY <1>7, <2>1 DEF KernelTypes, TaskReturns, Contexts
  <2>3. CountTypes'
    BY <1>7 DEF CountTypes, TaskReturns
  <2>4. sent' \in Seq(1 .. MaxBytes)
    BY <1>7 DEF TaskReturns
  <2>5. ByteTypes'
    BY <1>7, <2>4 DEF Types, ByteTypes, TaskReturns
  <2> QED BY <1>7, <2>1, <2>2, <2>3, <2>5 DEF TaskReturns, Fails, Types
<1>8. ASSUME NEW f \in Traps, TakeTrap(f)
      PROVE  Types'
  <2>1. at' \in Places
    BY <1>8, GoFacts DEF TakeTrap, Contexts, Failing
  <2>2. report' \in Reports
    BY <1>8 DEF TakeTrap, Reports, Traps
  <2>3. KernelTypes'
    BY <1>8 DEF Types, KernelTypes, TakeTrap, Contexts
  <2> QED BY <1>8, <2>1, <2>2, <2>3 DEF TakeTrap, Fails, Types
<1> QED BY <1>1, <1>2, <1>3, <1>4, <1>5, <1>6, <1>7, <1>8 DEF Break

-----------------------------------------------------------------------------
(* Who runs, who fails, and what the pin shows.                            *)

\* A step keeps what is said of the context on the hart.
LEMMA RunningStep ==
  ASSUME Types, Running, Next
  PROVE  Running'
<1> USE DEF Running, Contexts, Tasks
<1>1. CASE ClearReport \/ InitDevices \/ CreateTasks
  BY <1>1, GoFacts DEF ClearReport, InitDevices, CreateTasks, Main
<1>2. CASE StartScheduler
  BY <1>2, GoFacts, HighestFacts DEF StartScheduler, Main, Start
<1>3. CASE Toggle \/ CountBlink
  BY <1>3, GoFacts DEF Toggle, CountBlink, Task
<1>4. CASE \/ WriteText \/ PollStatus \/ GetByte \/ PutByte \/ KeepByte
           \/ CountEcho
  BY <1>4, GoFacts DEF WriteText, PollStatus, GetByte, PutByte, KeepByte,
                       CountEcho, Task
<1>5. CASE Check \/ ReportTick \/ ReportProgress \/ Pass
  BY <1>5, GoFacts DEF Check, ReportTick, ReportProgress, Pass, finish, Task
<1>6. CASE \/ Sleep("blink", "toggle", BlinkPeriod) \/ Sleep("echo", "poll", 1)
           \/ Sleep("check", "test", 1)
  BY <1>6, GoFacts, HighestFacts DEF Sleep, vTaskDelay, Task
<1>7. ASSUME NEW c \in Contexts, ReportFailure(c) \/ Fail(c) PROVE Running'
  BY <1>7, GoFacts DEF ReportFailure, Fail, finish
<1>8. CASE Tick
  <2>1. at' = at
    BY <1>8 DEF Tick
  <2>2. cur \in Tasks \cup {"idle"} /\ cur' \in Tasks \cup {"idle"}
    BY <1>8, HighestFacts DEF Tick, InterruptsOn
  <2>3. cur = "check" => cur' = "check"
    BY <1>8 DEF Tick, Ready, Priority
  <2> QED BY <2>1, <2>2, <2>3
<1>9. CASE Receive \/ TransmitDone
  BY <1>9 DEF Receive, TransmitDone
<1>10. CASE MainFails("create", "create") \/ MainFails("scheduler", "schedule")
  BY <1>10, GoFacts DEF MainFails, Main
<1>11. ASSUME NEW t \in Tasks, AssertFails(t) \/ TaskReturns(t) PROVE Running'
  BY <1>11, GoFacts DEF AssertFails, TaskReturns, Start
<1>12. ASSUME NEW f \in Traps, TakeTrap(f) PROVE Running'
  BY <1>12, GoFacts DEF TakeTrap, InterruptsOn
<1> QED BY <1>1, <1>2, <1>3, <1>4, <1>5, <1>6, <1>7, <1>8, <1>9, <1>10,
           <1>11, <1>12 DEF Next, Hart, Break

\* A step keeps what is said of failures: the trap and main are never
\* interrupted, so their report and status stand.
LEMMA FailuresStep ==
  ASSUME Types, Running, Failures, Next
  PROVE  Failures'
<1> USE DEF Failures, Causes, Failing, Traps, Contexts, Tasks
<1>1. CASE ClearReport \/ InitDevices \/ CreateTasks \/ StartScheduler
  BY <1>1, GoFacts DEF Running, ClearReport, InitDevices, CreateTasks,
                       StartScheduler, Main, history
<1>2. CASE Toggle \/ CountBlink \/ Sleep("blink", "toggle", BlinkPeriod)
  BY <1>2, GoFacts DEF Toggle, CountBlink, Sleep, Task, hardware, history
<1>3. CASE \/ WriteText \/ PollStatus \/ GetByte \/ PutByte \/ KeepByte
           \/ CountEcho \/ Sleep("echo", "poll", 1)
  BY <1>3, GoFacts DEF WriteText, PollStatus, GetByte, PutByte, KeepByte,
                       CountEcho, Sleep, Task, hardware, history
<1>4. CASE Check \/ ReportTick \/ ReportProgress \/ Sleep("check", "test", 1)
  BY <1>4, GoFacts DEF Running, Check, ReportTick, ReportProgress, Sleep,
                       Task, hardware, history
<1>5. CASE Pass
  BY <1>5, GoFacts DEF Running, Pass, finish, history
<1>6. ASSUME NEW c \in Contexts, ReportFailure(c) PROVE Failures'
  <2>1. /\ report'.failure_code = Code[fault]
        /\ report'.mcause = report.mcause
    BY <1>6 DEF Types, Reports, ReportFailure
  <2> QED BY <1>6, <2>1, GoFacts DEF Running, ReportFailure, hardware, history
<1>7. ASSUME NEW c \in Contexts, Fail(c) PROVE Failures'
  BY <1>7, GoFacts DEF Running, Fail, finish, Mailed, history
<1>8. CASE Tick \/ Receive \/ TransmitDone
  BY <1>8 DEF Tick, Receive, TransmitDone, hardware, history
<1>9. CASE MainFails("create", "create") \/ MainFails("scheduler", "schedule")
  BY <1>9, GoFacts DEF MainFails, Main, Fails, hardware
<1>10. ASSUME NEW t \in Tasks, AssertFails(t) PROVE Failures'
  BY <1>10, GoFacts DEF AssertFails, Fails, hardware
<1>11. ASSUME NEW t \in Tasks, TaskReturns(t) PROVE Failures'
  BY <1>11 DEF TaskReturns, Fails, Start, hardware
<1>12. ASSUME NEW f \in Traps, TakeTrap(f) PROVE Failures'
  <2>1. f \in {"exception", "interrupt"} => report'.mcause = f
    BY <1>12 DEF Types, Reports, TakeTrap
  <2> QED BY <1>12, <2>1, GoFacts DEF TakeTrap, Fails, hardware
<1> QED BY <1>1, <1>2, <1>3, <1>4, <1>5, <1>6, <1>7, <1>8, <1>9, <1>10,
           <1>11, <1>12 DEF Next, Hart, Break

\* A step keeps the pin and the count of blinks together, through the
\* saturation of the count as well.
LEMMA BlinksStep ==
  ASSUME Types, Running, Blinks, Next
  PROVE  Blinks'
<1> USE DEF Blinks, Contexts, Tasks
<1>1. CASE ClearReport
  BY <1>1, GoFacts DEF ClearReport, Main, counts
<1>2. CASE InitDevices
  <2>1. at'["blink"] = "toggle" /\ at["blink"] = "toggle"
    BY <1>2, GoFacts DEF InitDevices, Main, Running, Start
  <2>2. at'["main"] = "create"
    BY <1>2, GoFacts DEF InitDevices, Main
  <2>3. gpio'.out = 0
    BY <1>2
    DEF Types, DeviceTypes, InitDevices, gpio_write, gpio_set_output_enable
  <2>4. blink_count' = 0
    BY <1>2 DEF InitDevices, counts, Main
  <2> QED BY <2>1, <2>2, <2>3, <2>4
<1>3. CASE CreateTasks \/ StartScheduler
  BY <1>3, GoFacts, HighestFacts
     DEF CreateTasks, StartScheduler, Main, hardware, counts
<1>4. CASE Toggle
  <2>1. gpio'.out = 1 - gpio.out
    BY <1>4 DEF Types, DeviceTypes, Toggle, gpio_toggle
  <2>2. blink_count \in Nat /\ gpio.out \in {0, 1}
    BY DEF Types, CountTypes, DeviceTypes
  <2> QED BY <1>4, <2>1, <2>2, GoFacts DEF Toggle, Task, counts
<1>5. CASE CountBlink
  <2>1. \A n \in Nat : (n + 1) % 2 = 1 - (n % 2)
    OBVIOUS
  <2>2. ASSUME blink_count > BlinkGoal
        PROVE  blink_count' % 2 = 1 - (blink_count % 2)
    <3>1. blink_count = BlinkGoal + 1 /\ blink_count' = BlinkGoal
      BY <1>5, <2>2 DEF Types, CountTypes, CountBlink, NextBlink
    <3> QED BY <2>1, <3>1
  <2>3. ASSUME ~(blink_count > BlinkGoal)
        PROVE  blink_count' % 2 = 1 - (blink_count % 2)
    BY <1>5, <2>1, <2>3 DEF Types, CountTypes, CountBlink, NextBlink
  <2>4. blink_count' % 2 = 1 - (blink_count % 2)
    BY <2>2, <2>3
  <2> QED BY <1>5, <2>4, GoFacts DEF CountBlink, Task, hardware
<1>6. CASE \/ Sleep("blink", "toggle", BlinkPeriod) \/ Sleep("echo", "poll", 1)
           \/ Sleep("check", "test", 1)
  BY <1>6, GoFacts, HighestFacts DEF Sleep, vTaskDelay, Task, hardware, counts
<1>7. CASE \/ WriteText \/ PollStatus \/ GetByte \/ PutByte \/ KeepByte
           \/ CountEcho
  BY <1>7, GoFacts DEF WriteText, PollStatus, GetByte, PutByte, KeepByte,
                       CountEcho, Task, hardware, counts
<1>8. CASE Check \/ ReportTick \/ ReportProgress \/ Pass
  BY <1>8, GoFacts DEF Check, ReportTick, ReportProgress, Pass, finish, Task,
                       hardware, counts
<1>9. ASSUME NEW c \in Contexts, ReportFailure(c) \/ Fail(c) PROVE Blinks'
  BY <1>9, GoFacts DEF ReportFailure, Fail, finish, hardware, counts
<1>10. CASE Tick \/ Receive \/ TransmitDone
  BY <1>10, HighestFacts
     DEF Tick, InterruptsOn, Receive, TransmitDone, hardware, counts
<1>11. CASE MainFails("create", "create") \/ MainFails("scheduler", "schedule")
  BY <1>11, GoFacts DEF MainFails, Main, hardware, counts
<1>12. ASSUME NEW t \in Tasks, AssertFails(t) \/ TaskReturns(t) PROVE Blinks'
  BY <1>12, GoFacts DEF AssertFails, TaskReturns, Start, hardware, counts
<1>13. ASSUME NEW f \in Traps, TakeTrap(f) PROVE Blinks'
  BY <1>13, GoFacts DEF TakeTrap, hardware, counts
<1> QED BY <1>1, <1>2, <1>3, <1>4, <1>5, <1>6, <1>7, <1>8, <1>9, <1>10,
           <1>11, <1>12, <1>13 DEF Next, Hart, Break

-----------------------------------------------------------------------------
(* The bytes.                                                              *)

\* A byte put is appended to those sent, which it is behind.
LEMMA PutFacts ==
  ASSUME Types, Order, PutByte
  PROVE  /\ DOMAIN sent' = 1 .. Len(sent) + 1 /\ Len(sent') = Len(sent) + 1
         /\ Len(sent) \in Nat /\ DOMAIN sent = 1 .. Len(sent)
         /\ \A i \in DOMAIN sent : sent'[i] = sent[i] /\ sent[i] < byte
         /\ sent'[Len(sent) + 1] = byte
         /\ byte \in 1 .. arrived /\ byte' = byte
<1>1. sent \in Seq(1 .. MaxBytes) /\ byte \in 1 .. MaxBytes
  BY DEF Types, ByteTypes, Order, PutByte, Task
<1>2. sent' = Append(sent, byte)
  BY DEF PutByte
<1>3. /\ DOMAIN sent' = 1 .. Len(sent) + 1 /\ Len(sent') = Len(sent) + 1
      /\ Len(sent) \in Nat /\ DOMAIN sent = 1 .. Len(sent)
      /\ \A i \in DOMAIN sent : sent'[i] = sent[i]
      /\ sent'[Len(sent) + 1] = byte
  BY <1>1, <1>2
<1>4. \A i \in DOMAIN sent : sent[i] < byte
  BY DEF Order, PutByte, Task
<1>5. byte \in 1 .. arrived /\ byte' = byte
  BY <1>1 DEF Types, ByteTypes, Order, PutByte, locals
<1> QED BY <1>3, <1>4, <1>5

\* A step keeps the bytes in order.
LEMMA OrderStep ==
  ASSUME Types, Order, Next
  PROVE  Order'
<1> USE DEF Order, Contexts, Tasks, locals, history
<1> uart \in Uarts
  BY DEF Types, DeviceTypes
<1>1. CASE ClearReport \/ CreateTasks \/ StartScheduler
  BY <1>1, GoFacts DEF ClearReport, CreateTasks, StartScheduler, Main, hardware
<1>2. CASE InitDevices
  <2>1. uart'.valid = uart.valid /\ uart'.data = uart.data
    BY <1>2, SlotFacts DEF InitDevices
  <2>2. at'["echo"] = at["echo"]
    BY <1>2, GoFacts DEF InitDevices, Main
  <2> QED BY <1>2, <2>1, <2>2 DEF InitDevices
<1>3. CASE Toggle \/ CountBlink \/ Sleep("blink", "toggle", BlinkPeriod)
  BY <1>3, GoFacts DEF Toggle, CountBlink, Sleep, Task, hardware
<1>4. CASE WriteText
  <2>1. uart'.valid = uart.valid /\ uart'.data = uart.data
    BY <1>4, SlotFacts DEF WriteText
  <2>2. /\ at["echo"] = "text"
        /\ at'["echo"] = IF text = 1 THEN "poll" ELSE "text"
    BY <1>4, GoFacts DEF WriteText, Task, TextEnds
  <2>3. text' = text - 1 /\ text \in Nat
    BY <1>4 DEF WriteText, Types, ByteTypes
  <2> QED BY <1>4, <2>1, <2>2, <2>3 DEF WriteText
<1>5. CASE PollStatus \/ KeepByte \/ Sleep("echo", "poll", 1)
  BY <1>5, GoFacts DEF PollStatus, KeepByte, Sleep, Task, hardware
<1>6. CASE GetByte
  <2>1. ~uart'.valid /\ uart'.data = 0
    BY <1>6, SlotFacts DEF GetByte
  <2>2. byte' = uart.data
    BY <1>6 DEF GetByte, uart_rxdata
  <2>3. at'["echo"] = IF byte' = 0 THEN "delay" ELSE "putc"
    BY <1>6, GoFacts DEF GetByte, Task
  <2>4. arrived \in Nat
    BY DEF Types, ByteTypes
  <2> QED BY <1>6, <2>1, <2>2, <2>3, <2>4 DEF GetByte
<1>7. CASE PutByte
  <2>1. uart'.valid = uart.valid /\ uart'.data = uart.data
    BY <1>7, SlotFacts DEF PutByte
  <2>2. at["echo"] = "putc" /\ at'["echo"] = "byte"
    BY <1>7, GoFacts DEF PutByte, Task
  <2>3. arrived' = arrived /\ text' = text
    BY <1>7 DEF PutByte
  <2>4. \A i \in DOMAIN sent' : i <= sent'[i] /\ sent'[i] <= arrived
    <3>1. Len(sent) + 1 <= byte
      <4>1. CASE Len(sent) = 0
        BY <1>7, <4>1, PutFacts
      <4>2. CASE Len(sent) # 0
        <5>1. Len(sent) \in DOMAIN sent
          BY <1>7, <4>2, PutFacts
        <5>2. Len(sent) <= sent[Len(sent)] /\ sent[Len(sent)] < byte
          BY <1>7, <5>1, PutFacts
        <5>3. sent[Len(sent)] \in Nat
          BY <5>1, SentFacts
        <5> QED BY <1>7, <5>2, <5>3, PutFacts
      <4> QED BY <4>1, <4>2
    <3>2. \A i \in DOMAIN sent' : i \in DOMAIN sent \/ i = Len(sent) + 1
      BY <1>7, PutFacts
    <3> QED BY <1>7, <3>1, <3>2, PutFacts
  <2>5. \A i, j \in DOMAIN sent' : i < j => sent'[i] < sent'[j]
    <3>1. \A i \in DOMAIN sent' : i \in DOMAIN sent \/ i = Len(sent) + 1
      BY <1>7, PutFacts
    <3> QED BY <1>7, <3>1, PutFacts
  <2>6. sent' # <<>> /\ byte' = sent'[Len(sent')]
    BY <1>7, PutFacts
  <2>7. uart.valid => \A i \in DOMAIN sent' : sent'[i] < uart.data
    <3>1. \A i \in DOMAIN sent' : i \in DOMAIN sent \/ i = Len(sent) + 1
      BY <1>7, PutFacts
    <3> QED BY <1>7, <3>1, PutFacts
  <2> QED BY <1>7, <2>1, <2>2, <2>3, <2>4, <2>5, <2>6, <2>7, PutFacts
<1>8. CASE CountEcho
  <2>1. uart.valid => 0 < uart.data
    BY DEF Uarts
  <2>2. at'["echo"] = "delay" /\ byte' = 0
    BY <1>8, GoFacts DEF CountEcho, Task
  <2>3. arrived \in Nat
    BY DEF Types, ByteTypes
  <2> QED BY <1>8, <2>1, <2>2, <2>3 DEF CountEcho, hardware
<1>9. CASE \/ Check \/ ReportTick \/ ReportProgress \/ Pass
           \/ Sleep("check", "test", 1)
  BY <1>9, GoFacts DEF Check, ReportTick, ReportProgress, Pass, finish, Sleep,
                       Task, hardware
<1>10. ASSUME NEW c \in Contexts, ReportFailure(c) \/ Fail(c) PROVE Order'
  BY <1>10, GoFacts DEF ReportFailure, Fail, finish, hardware
<1>11. CASE Tick
  BY <1>11 DEF Tick, hardware
<1>12. CASE Receive
  <2>1. IF uart.valid THEN uart'.valid /\ uart'.data = uart.data
        ELSE uart'.valid /\ uart'.data = arrived'
    BY <1>12, SlotFacts DEF Receive
  <2>2. arrived' = arrived + 1 /\ arrived \in Nat /\ byte \in Nat
    BY <1>12 DEF Receive, Types, ByteTypes
  <2>3. \A i \in DOMAIN sent : sent[i] \in Nat
    BY SentFacts
  <2>4. uart.data \in Nat
    BY DEF Uarts
  <2> QED BY <1>12, <2>1, <2>2, <2>3, <2>4 DEF Receive
<1>13. CASE TransmitDone
  <2>1. uart'.valid = uart.valid /\ uart'.data = uart.data
    BY <1>13, SlotFacts DEF TransmitDone
  <2> QED BY <1>13, <2>1 DEF TransmitDone
<1>14. CASE MainFails("create", "create") \/ MainFails("scheduler", "schedule")
  BY <1>14, GoFacts DEF MainFails, Main, hardware
<1>15. ASSUME NEW t \in Tasks, AssertFails(t) PROVE Order'
  BY <1>15, GoFacts DEF AssertFails, hardware
<1>16. ASSUME NEW t \in Tasks, TaskReturns(t) PROVE Order'
  <2>1. at'["echo"] = "text" /\ text' # 0 /\ byte' = 0 /\ sent' = <<>>
    BY <1>16 DEF TaskReturns, Start
  <2>2. arrived' = arrived /\ uart' = uart /\ arrived \in Nat
    BY <1>16 DEF TaskReturns, hardware, Types, ByteTypes
  <2>3. uart.valid => 0 < uart.data
    BY DEF Uarts
  <2> QED BY <2>1, <2>2, <2>3
<1>17. ASSUME NEW f \in Traps, TakeTrap(f) PROVE Order'
  BY <1>17, GoFacts DEF TakeTrap, hardware
<1> QED BY <1>1, <1>2, <1>3, <1>4, <1>5, <1>6, <1>7, <1>8, <1>9, <1>10,
           <1>11, <1>12, <1>13, <1>14, <1>15, <1>16, <1>17
        DEF Next, Hart, Break

\* A step keeps the count of echoes behind the bytes sent.
LEMMA EchoesStep ==
  ASSUME Types, Order, Echoes, Next
  PROVE  Echoes'
<1> USE DEF Echoes, Contexts, Tasks, counts, history
<1> echo_count \in Nat
  BY DEF Types, CountTypes
<1>1. CASE ClearReport \/ InitDevices \/ CreateTasks \/ StartScheduler
  BY <1>1, GoFacts DEF ClearReport, InitDevices, CreateTasks, StartScheduler,
                       Main
<1>2. CASE Toggle \/ CountBlink \/ Sleep("blink", "toggle", BlinkPeriod)
  BY <1>2, GoFacts DEF Toggle, CountBlink, Sleep, Task
<1>3. CASE WriteText \/ PollStatus \/ GetByte \/ Sleep("echo", "poll", 1)
  BY <1>3, GoFacts DEF WriteText, PollStatus, GetByte, Sleep, Task
<1>4. CASE PutByte
  <2>1. at["echo"] = "putc" /\ at'["echo"] = "byte"
    BY <1>4, GoFacts DEF PutByte, Task
  <2>2. echo_count' = echo_count /\ echoed_byte' = echoed_byte
    BY <1>4 DEF PutByte
  <2>3. Len(sent') = Len(sent) + 1 /\ Len(sent) \in Nat
    BY <1>4, PutFacts
  <2>4. \A i \in DOMAIN sent : i \in DOMAIN sent' /\ sent'[i] = sent[i]
    BY <1>4, PutFacts
  <2> QED BY <2>1, <2>2, <2>3, <2>4
<1>5. CASE KeepByte
  <2>1. at["echo"] = "byte" /\ at'["echo"] = "count"
    BY <1>5, GoFacts DEF KeepByte, Task
  <2>2. byte # 0 /\ sent # <<>> /\ byte = sent[Len(sent)]
    BY <2>1 DEF Order
  <2>3. Len(sent) \in DOMAIN sent
    BY <2>2, SentFacts
  <2> QED BY <1>5, <2>1, <2>2, <2>3 DEF KeepByte
<1>6. CASE CountEcho
  <2>1. at["echo"] = "count" /\ at'["echo"] = "delay"
    BY <1>6, GoFacts DEF CountEcho, Task
  <2>2. echo_count' <= Len(sent)
    <3>1. Len(sent) \in Nat
      BY SentFacts
    <3> QED BY <1>6, <2>1, <3>1 DEF CountEcho
  <2> QED BY <1>6, <2>1, <2>2 DEF CountEcho
<1>7. CASE \/ Check \/ ReportTick \/ ReportProgress \/ Pass
           \/ Sleep("check", "test", 1)
  BY <1>7, GoFacts DEF Check, ReportTick, ReportProgress, Pass, finish, Sleep,
                       Task
<1>8. ASSUME NEW c \in Contexts, ReportFailure(c) \/ Fail(c) PROVE Echoes'
  BY <1>8, GoFacts DEF ReportFailure, Fail, finish
<1>9. CASE Tick \/ Receive \/ TransmitDone
  BY <1>9 DEF Tick, Receive, TransmitDone
<1>10. CASE MainFails("create", "create") \/ MainFails("scheduler", "schedule")
  BY <1>10, GoFacts DEF MainFails, Main
<1>11. ASSUME NEW t \in Tasks, AssertFails(t) PROVE Echoes'
  BY <1>11, GoFacts DEF AssertFails
<1>12. ASSUME NEW t \in Tasks, TaskReturns(t) PROVE Echoes'
  BY <1>12 DEF TaskReturns, Start
<1>13. ASSUME NEW f \in Traps, TakeTrap(f) PROVE Echoes'
  BY <1>13, GoFacts DEF TakeTrap
<1> QED BY <1>1, <1>2, <1>3, <1>4, <1>5, <1>6, <1>7, <1>8, <1>9, <1>10,
           <1>11, <1>12, <1>13 DEF Next, Hart, Break

\* A step keeps account of every byte: a byte leaves the slot into the hand
\* of echo_task, and its hand only when sent.
LEMMA AccountedStep ==
  ASSUME Types, Order, Accounted, Next
  PROVE  Accounted'
<1> USE DEF Accounted, Contexts, Tasks, locals, history
<1> uart \in Uarts
  BY DEF Types, DeviceTypes
<1> arrived \in Nat /\ forgiven \in Nat
  BY DEF Types, ByteTypes
<1>1. CASE ClearReport \/ CreateTasks \/ StartScheduler
  BY <1>1 DEF ClearReport, CreateTasks, StartScheduler, hardware
<1>2. CASE InitDevices
  BY <1>2 DEF InitDevices
<1>3. CASE Toggle \/ CountBlink \/ Sleep("blink", "toggle", BlinkPeriod)
  BY <1>3 DEF Toggle, CountBlink, Sleep, hardware
<1>4. CASE WriteText \/ TransmitDone
  <2>1. uart'.data = uart.data /\ uart'.overrun = uart.overrun
    BY <1>4, SlotFacts DEF WriteText, TransmitDone
  <2> QED BY <1>4, <2>1 DEF WriteText, TransmitDone
<1>5. CASE PollStatus \/ KeepByte \/ Sleep("echo", "poll", 1)
  BY <1>5 DEF PollStatus, KeepByte, Sleep, hardware
<1>6. CASE GetByte
  <2>1. at["echo"] = "getc"
    BY <1>6 DEF GetByte, Task
  <2>2. byte = 0
    BY <2>1 DEF Order
  <2>3. uart'.overrun = uart.overrun
    BY <1>6, SlotFacts DEF GetByte
  <2>4. byte' = uart.data
    BY <1>6 DEF GetByte, uart_rxdata, Order
  <2> QED BY <1>6, <2>2, <2>3, <2>4 DEF GetByte
<1>7. CASE PutByte
  <2>1. uart'.data = uart.data /\ uart'.overrun = uart.overrun
    BY <1>7, SlotFacts DEF PutByte
  <2>2. arrived' = arrived /\ forgiven' = forgiven
    BY <1>7 DEF PutByte
  <2>3. \A i \in DOMAIN sent : i \in DOMAIN sent' /\ sent'[i] = sent[i]
    BY <1>7, PutFacts
  <2>4. byte' = byte
    BY <1>7, PutFacts
  <2> QED BY <2>1, <2>2, <2>3, <2>4
<1>8. CASE CountEcho
  <2>1. byte = sent[Len(sent)] /\ Len(sent) \in DOMAIN sent
    BY <1>8, SentFacts DEF CountEcho, Task, Order
  <2>2. sent' = sent /\ arrived' = arrived /\ forgiven' = forgiven
    BY <1>8 DEF CountEcho
  <2>3. uart' = uart
    BY <1>8 DEF CountEcho, hardware
  <2> QED BY <2>1, <2>2, <2>3
<1>9. CASE \/ Check \/ ReportTick \/ ReportProgress \/ Pass
           \/ Sleep("check", "test", 1)
  BY <1>9 DEF Check, ReportTick, ReportProgress, Pass, finish, Sleep, hardware
<1>10. ASSUME NEW c \in Contexts, ReportFailure(c) \/ Fail(c) PROVE Accounted'
  BY <1>10 DEF ReportFailure, Fail, finish, hardware
<1>11. CASE Tick
  BY <1>11 DEF Tick, hardware
<1>12. CASE Receive
  <2>1. \/ uart'.overrun
        \/ /\ ~uart.valid /\ uart'.data = arrived'
           /\ uart'.overrun = uart.overrun
    BY <1>12, SlotFacts DEF Receive
  <2>2. CASE uart'.overrun
    BY <2>2
  <2>3. CASE /\ ~uart.valid /\ uart'.data = arrived'
             /\ uart'.overrun = uart.overrun
    <3>1. uart.data = 0
      BY <2>3 DEF Order
    <3>2. arrived' = arrived + 1 /\ UNCHANGED <<sent, byte, forgiven>>
      BY <1>12 DEF Receive
    <3>3. \A b \in forgiven' + 1 .. arrived' :
            b = arrived' \/ (b \in forgiven + 1 .. arrived /\ b # uart.data)
      BY <3>1, <3>2
    <3> QED BY <2>3, <3>2, <3>3
  <2> QED BY <2>1, <2>2, <2>3
<1>13. CASE MainFails("create", "create") \/ MainFails("scheduler", "schedule")
  BY <1>13 DEF MainFails, hardware
<1>14. ASSUME NEW t \in Tasks, AssertFails(t) PROVE Accounted'
  BY <1>14 DEF AssertFails, hardware
<1>15. ASSUME NEW t \in Tasks, TaskReturns(t) PROVE Accounted'
  BY <1>15 DEF TaskReturns
<1>16. ASSUME NEW f \in Traps, TakeTrap(f) PROVE Accounted'
  BY <1>16 DEF TakeTrap, hardware
<1> QED BY <1>1, <1>2, <1>3, <1>4, <1>5, <1>6, <1>7, <1>8, <1>9, <1>10,
           <1>11, <1>12, <1>13, <1>14, <1>15, <1>16 DEF Next, Hart, Break

-----------------------------------------------------------------------------
(* The verdict.                                                            *)

\* After a pass only the tick, an arriving byte and the transmitter step, and
\* none of them takes the hart from check_task.
LEMMA PassStands ==
  ASSUME Types, Verdict, Next, mailbox = PASS
  PROVE  /\ mailbox' = PASS /\ cur' = "check" /\ at' = at
         /\ report' = report /\ sent' = sent
         /\ UNCHANGED <<blink_count, echo_count>>
<1> cur = "check" /\ at["check"] = "halted" /\ mailbox # 0
  BY DEF Verdict, PASS
<1> USE DEF Contexts, Tasks, hardware, counts, history
<1>1. ~Hart
  BY DEF Hart, ClearReport, InitDevices, CreateTasks, StartScheduler, Main,
         Toggle, CountBlink, WriteText, PollStatus, GetByte, PutByte,
         KeepByte, CountEcho, Sleep, Check, ReportTick, ReportProgress, Task,
         Pass, ReportFailure, Fail
<1>2. ~Break
  BY DEF Break, MainFails, AssertFails, TaskReturns, TakeTrap, Fails
<1>3. CASE Tick
  BY <1>3 DEF Tick, Ready, Priority
<1>4. CASE Receive \/ TransmitDone
  BY <1>4 DEF Receive, TransmitDone
<1> QED BY <1>1, <1>2, <1>3, <1>4 DEF Next

\* What the report says once check_task has filled it in.
LEMMA ReportIsEarned ==
  ASSUME Types, Running, Blinks, Echoes, Verdict, ReportProgress
  PROVE  Earned'
<1>1. cur = "check" /\ at["check"] = "fill" /\ at'["blink"] = at["blink"]
  BY GoFacts DEF ReportProgress, Task, Contexts, Tasks
<1>2. /\ report'.failure_code = 0 /\ report'.hooks = tick_hook_count
      /\ report'.switches = context_switch_count
      /\ report'.blinks = blink_count /\ report'.echoes = echo_count
      /\ report'.echoed = echoed_byte /\ report'.gpio = gpio.out
  BY DEF ReportProgress, Types, Reports
<1>3. GoalsMet
  BY <1>1 DEF Verdict
<1>4. /\ at["blink"] \in {"toggle", "delay"} => gpio.out = blink_count % 2
      /\ at["blink"] = "count" => gpio.out = 1 - (blink_count % 2)
  BY <1>1 DEF Running, Blinks
<1>5. echoed_byte # 0 /\ echo_count <= Len(sent)
  BY <1>3 DEF GoalsMet, Echoes, Types, CountTypes, ByteTypes
<1>6. \E i \in DOMAIN sent : sent[i] = echoed_byte
  BY <1>5 DEF Echoes
<1>7. sent' = sent
  BY DEF ReportProgress, history
<1> QED BY <1>1, <1>2, <1>3, <1>4, <1>5, <1>6, <1>7 DEF Earned, GoalsMet

\* A step keeps what check_task knows on its way to the verdict.
LEMMA VerdictStep ==
  ASSUME Types, Running, Failures, Blinks, Echoes, Verdict, Next
  PROVE  Verdict'
<1>1. CASE mailbox = PASS
  <2>1. Earned'
    BY <1>1, PassStands DEF Verdict, Earned
  <2> QED BY <1>1, <2>1, PassStands DEF Verdict
<1>2. CASE mailbox # PASS
  <2> USE DEF Contexts, Tasks, hardware
  <2>1. SUFFICES /\ at'["check"] \in {"tick", "fill"} => GoalsMet'
                 /\ at'["check"] = "pass" /\ cur' = "check" => Earned'
                 /\ mailbox' = PASS =>
                      cur' = "check" /\ at'["check"] = "halted" /\ Earned'
    BY DEF Verdict
  <2>2. CASE ClearReport \/ InitDevices \/ CreateTasks \/ StartScheduler
    <3>1. at'["check"] = "test" /\ mailbox' = mailbox
      BY <2>2, GoFacts DEF ClearReport, InitDevices, CreateTasks,
                           StartScheduler, Main, Running, Start
    <3> QED BY <1>2, <3>1
  <2>3. CASE \/ Toggle \/ CountBlink \/ WriteText \/ PollStatus \/ GetByte
             \/ PutByte \/ KeepByte \/ CountEcho
             \/ Sleep("blink", "toggle", BlinkPeriod)
             \/ Sleep("echo", "poll", 1)
    <3>1. cur \in {"blink", "echo"} /\ at'["check"] = at["check"]
      BY <2>3, GoFacts DEF Toggle, CountBlink, WriteText, PollStatus, GetByte,
                           PutByte, KeepByte, CountEcho, Sleep, Task
    <3>2. at'["check"] \notin {"tick", "fill", "pass"}
      BY <3>1 DEF Running
    <3>3. mailbox' = mailbox
      BY <2>3 DEF Toggle, CountBlink, WriteText, PollStatus, GetByte, PutByte,
                  KeepByte, CountEcho, Sleep
    <3> QED BY <1>2, <3>2, <3>3
  <2>4. CASE Check
    <3>1. mailbox' = mailbox /\ at'["check"] \in {"tick", "delay"}
      BY <2>4, GoFacts DEF Check, Task
    <3>2. at'["check"] = "tick" => GoalsMet'
      BY <2>4, GoFacts DEF Check, Task, GoalsMet, counts, kernel
    <3> QED BY <1>2, <3>1, <3>2
  <2>5. CASE Sleep("check", "test", 1)
    <3>1. mailbox' = mailbox /\ at'["check"] = "test"
      BY <2>5, GoFacts DEF Sleep, Task
    <3> QED BY <1>2, <3>1
  <2>6. CASE ReportTick
    <3>1. mailbox' = mailbox /\ at["check"] = "tick" /\ at'["check"] = "fill"
      BY <2>6, GoFacts DEF ReportTick, Task
    <3>2. GoalsMet'
      BY <2>6, <3>1 DEF Verdict, ReportTick, GoalsMet, counts, kernel
    <3> QED BY <1>2, <3>1, <3>2
  <2>7. CASE ReportProgress
    <3>1. mailbox' = mailbox /\ at'["check"] = "pass"
      BY <2>7, GoFacts DEF ReportProgress, Task
    <3> QED BY <1>2, <2>7, <3>1, ReportIsEarned
  <2>8. CASE Pass
    <3>1. cur = "check" /\ cur' = cur /\ at["check"] = "pass"
      BY <2>8 DEF Pass, finish
    <3>2. at'["check"] = "halted" /\ at'["blink"] = at["blink"]
      BY <2>8, GoFacts DEF Pass, finish
    <3>3. report' = report /\ sent' = sent
      BY <2>8 DEF Pass, finish, history
    <3>4. Earned'
      BY <3>1, <3>2, <3>3 DEF Verdict, Earned
    <3> QED BY <3>1, <3>2, <3>4
  <2>9. ASSUME NEW c \in Contexts, ReportFailure(c) \/ Fail(c)
        PROVE  Verdict'
    <3>1. mailbox' # PASS
      <4>1. CASE ReportFailure(c)
        BY <1>2, <4>1 DEF ReportFailure
      <4>2. CASE Fail(c)
        <5>1. fault \in DOMAIN Code
          BY <4>2, FailingFacts DEF Fail
        <5> QED BY <1>2, <4>2, <5>1, StatusFacts DEF Fail, finish, Mailed
      <4> QED BY <2>9, <4>1, <4>2
    <3>2. cur = c /\ cur' = cur
      BY <2>9 DEF ReportFailure, Fail, finish
    <3>3. CASE c = "check"
      <4>1. at'["check"] \in {"post_fail", "halted"}
        BY <2>9, <3>3, GoFacts DEF ReportFailure, Fail, finish
      <4> QED BY <3>1, <4>1 DEF Verdict
    <3>4. CASE c # "check"
      <4>1. at'["check"] = at["check"]
        BY <2>9, <3>4, GoFacts DEF ReportFailure, Fail, finish
      <4>2. GoalsMet => GoalsMet'
        BY <2>9 DEF ReportFailure, Fail, finish, GoalsMet, counts, kernel
      <4> QED BY <3>1, <3>2, <3>4, <4>1, <4>2 DEF Verdict
    <3> QED BY <3>3, <3>4
  <2>10. CASE Tick
    <3>1. at' = at /\ report' = report /\ mailbox' = mailbox /\ sent' = sent
      BY <2>10 DEF Tick, history
    <3>2. GoalsMet => GoalsMet'
      BY <2>10 DEF Tick, vApplicationTickHook, UpTo, GoalsMet, counts,
                   freertos_trace_task_switched_in, Types, KernelTypes
    <3>3. at["check"] = "pass" => cur = "check"
      BY <2>10 DEF Running, Tick, InterruptsOn
    <3> QED BY <1>2, <3>1, <3>2, <3>3 DEF Verdict, Earned
  <2>11. CASE Receive \/ TransmitDone
    <3>1. /\ at' = at /\ cur' = cur /\ report' = report /\ mailbox' = mailbox
          /\ sent' = sent
      BY <2>11 DEF Receive, TransmitDone, history
    <3>2. GoalsMet => GoalsMet'
      BY <2>11 DEF Receive, TransmitDone, GoalsMet, counts, kernel
    <3> QED BY <1>2, <3>1, <3>2 DEF Verdict, Earned
  <2>12. CASE \/ MainFails("create", "create")
              \/ MainFails("scheduler", "schedule")
    <3>1. at'["check"] = "test" /\ mailbox' = mailbox
      BY <2>12, GoFacts DEF MainFails, Main, Running, Start
    <3> QED BY <1>2, <3>1
  <2>13. ASSUME NEW t \in Tasks, AssertFails(t) PROVE Verdict'
    <3>1. cur = t /\ cur' = cur /\ report' = report /\ mailbox' = mailbox
      BY <2>13 DEF AssertFails
    <3>2. at'["check"] \notin {"tick", "fill", "pass"}
      BY <2>13, <3>1, GoFacts DEF AssertFails, Running
    <3> QED BY <1>2, <3>1, <3>2 DEF Verdict
  <2>14. ASSUME NEW t \in Tasks, TaskReturns(t) PROVE Verdict'
    <3>1. at'["check"] = "test" /\ mailbox' = mailbox
      BY <2>14 DEF TaskReturns, Start
    <3> QED BY <1>2, <3>1 DEF Verdict
  <2>15. ASSUME NEW f \in Traps, TakeTrap(f) PROVE Verdict'
    <3>1. cur' = "trap" /\ at'["check"] = at["check"] /\ mailbox' = mailbox
      BY <2>15, GoFacts DEF TakeTrap
    <3>2. GoalsMet => GoalsMet'
      BY <2>15 DEF TakeTrap, GoalsMet, counts, kernel
    <3> QED BY <1>2, <3>1, <3>2 DEF Verdict
  <2>16. (\E t \in Tasks : AssertFails(t) \/ TaskReturns(t)) => Verdict'
    BY <2>13, <2>14
  <2>17. (\E c \in Contexts : ReportFailure(c) \/ Fail(c)) => Verdict'
    BY <2>9
  <2>18. (\E f \in Traps : TakeTrap(f)) => Verdict'
    BY <2>15
  <2> QED BY <2>2, <2>3, <2>4, <2>5, <2>6, <2>7, <2>8, <2>10, <2>11, <2>12,
             <2>16, <2>17, <2>18 DEF Next, Hart, Break, Verdict
<1> QED BY <1>1, <1>2

-----------------------------------------------------------------------------
(* The theorems.                                                           *)

\* The first state of the demo.
LEMMA InitInv ==
  ASSUME Init
  PROVE  Inv
<1> USE DEF Init, Start
<1>1. Types
  <2>1. at \in Places /\ delay \in [Tasks -> 0 .. BlinkPeriod]
    BY StartFacts
  <2>2. uart \in Uarts /\ gpio \in [out: {0, 1}, oe: {0, 1}]
    BY DEF UartReset, GpioReset, Uarts
  <2>3. report \in Reports
    BY DEF NoReport, Reports
  <2> QED BY <2>1, <2>2, <2>3
          DEF Types, KernelTypes, DeviceTypes, CountTypes, ByteTypes, Contexts
<1>2. Running /\ Blinks
  BY DEF Running, Blinks, Tasks, GpioReset
<1>3. Failures
  BY DEF Failures, Tasks, Causes, Traps, Failing
<1>4. Order /\ Echoes /\ Accounted
  BY DEF Order, Echoes, Accounted, UartReset
<1>5. Verdict
  BY DEF Verdict, PASS
<1> QED BY <1>1, <1>2, <1>3, <1>4, <1>5 DEF Inv

\* Every step keeps the invariant.
LEMMA StepInv ==
  ASSUME Inv, [Next]_vars
  PROVE  Inv'
<1> /\ Types /\ Running /\ Failures /\ Blinks /\ Order /\ Echoes
    /\ Accounted /\ Verdict
  BY DEF Inv
<1>1. CASE Next
  <2>1. Types'
    BY <1>1, MainTypes, TaskTypes, ReportTypes, OtherTypes DEF Next, Hart
  <2> QED BY <1>1, <2>1, RunningStep, FailuresStep, BlinksStep, OrderStep,
             EchoesStep, AccountedStep, VerdictStep DEF Inv
<1>2. CASE UNCHANGED vars
  <2> USE <1>2 DEF vars, hardware, counts, locals, kernel, history
  <2>1. Types'
    BY DEF Types, KernelTypes, DeviceTypes, CountTypes, ByteTypes
  <2>2. Running' /\ Failures' /\ Blinks'
    BY DEF Running, Failures, Blinks
  <2>3. Order' /\ Echoes' /\ Accounted'
    BY DEF Order, Echoes, Accounted
  <2>4. Verdict'
    BY DEF Verdict, Earned, GoalsMet
  <2> QED BY <2>1, <2>2, <2>3, <2>4 DEF Inv
<1> QED BY <1>1, <1>2

\* The invariant holds in every reachable state.
LEMMA InvariantHolds == Spec => []Inv
<1>1. Init => Inv
  BY InitInv
<1>2. Inv /\ [Next]_vars => Inv'
  BY StepInv
<1> QED BY <1>1, <1>2, PTL DEF Spec

\* The contexts, devices, counts and the report keep their types.
THEOREM TypeCorrect == Spec => []TypeOK
<1>1. Inv => TypeOK
  <2> SUFFICES ASSUME Types, Order, Echoes PROVE TypeOK
    BY DEF Inv
  <2>1. DOMAIN at = Contexts
    BY DEF Types, Places, Contexts, Tasks
  <2>2. DOMAIN uart = DOMAIN UartReset /\ uart.data \in 0 .. MaxBytes
    BY DEF Types, DeviceTypes, Uarts, UartReset
  <2>3. DOMAIN report = DOMAIN NoReport
    BY DEF Types, Reports, NoReport
  <2>4. echo_count \in 0 .. MaxBytes
    BY SentFits DEF Types, CountTypes, Echoes
  <2> QED BY <2>1, <2>2, <2>3, <2>4
          DEF Types, KernelTypes, DeviceTypes, CountTypes, ByteTypes, TypeOK
<1> QED BY <1>1, InvariantHolds, PTL

\* A passing verdict is backed by progress that was made, however the tick
\* interleaves the tasks and whatever fault occurs.
THEOREM PassesAreEarned == Spec => []PassIsEarned
<1>1. Inv => PassIsEarned
  BY DEF Inv, Verdict, Earned, PassIsEarned
<1> QED BY <1>1, InvariantHolds, PTL

\* Bytes are echoed in order and none twice; none is lost unnoticed.
THEOREM EchoesAreFaithful == Spec => []EchoIsFaithful
<1>1. Inv => EchoIsFaithful
  BY DEF Inv, Order, Accounted, EchoIsFaithful
<1> QED BY <1>1, InvariantHolds, PTL

\* A fault found by main or a trap handler decides the run.
THEOREM TrapsAreReported == Spec => []TrapIsReported
<1>1. Inv => TrapIsReported
  BY DEF Inv, Failures, Causes, Failing, TrapIsReported, Traps
<1> QED BY <1>1, InvariantHolds, PTL
=============================================================================
