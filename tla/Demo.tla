-------------------------------- MODULE Demo --------------------------------
(***************************************************************************)
(* The FreeRTOS demonstration (sw/freertos/demo.c, platform.c): three      *)
(* tasks of fixed priority that a timer tick may preempt between any two   *)
(* accesses to what they share, bytes arriving at the UART meanwhile, and  *)
(* the routes to the one word that decides the run, the status in the      *)
(* completion mailbox.                                                     *)
(*                                                                         *)
(* The kernel is vendored and modelled as the demo uses it: vTaskDelay     *)
(* blocks the caller, the tick wakes tasks, the ready task of highest      *)
(* priority runs.  Scheduling decisions are single steps, because the      *)
(* kernel takes them with interrupts or the scheduler off.                 *)
(***************************************************************************)
EXTENDS Bsp, Sequences

CONSTANTS
  BlinkGoal, EchoGoal, TickGoal, SwitchGoal, \* progress check_task waits for
  BlinkPeriod,   \* ticks between two blinks
  ReadyLen,      \* characters of the text echo_task sends first
  MaxBytes,      \* bound: bytes that arrive at the UART
  Faults         \* kinds of fault; a behaviour has at most one

ASSUME GoalAssumption ==
  /\ {BlinkGoal, EchoGoal, TickGoal, SwitchGoal} \subseteq Nat \ {0}
  /\ {BlinkPeriod, ReadyLen} \subseteq Nat \ {0}
  /\ MaxBytes \in Nat

Traps == {"exception", "interrupt", "overflow"}
AllFaults == Traps \cup {"create", "scheduler", "assert", "task_return"}

ASSUME FaultAssumption == Faults \subseteq AllFaults

VARIABLES
  cur,             \* the context on the hart: main, a task or a trap handler
  at,              \* where each context is in its code
  delay,           \* ticks until a blocked task is ready again
  uart, gpio, mailbox,
  blink_count, echo_count, echoed_byte,  \* statics of demo.c
  byte, text,      \* locals of echo_task and uart_write_text
  tick_hook_count, context_switch_count, \* statics of platform.c
  report,          \* freertos_demo_report
  arrived,         \* history: bytes received
  sent,            \* history: bytes echoed since the start, in order
  forgiven,        \* history: bytes received before errors were last cleared
  fault            \* history: the fault that has happened

hardware == <<uart, gpio, mailbox>>
counts == <<blink_count, echo_count, echoed_byte>>
locals == <<byte, text>>
kernel == <<tick_hook_count, context_switch_count>>
history == <<arrived, sent, forgiven, fault>>
vars == <<cur, at, delay, hardware, counts, locals, kernel, report, history>>

Tasks == {"blink", "echo", "check"}
Contexts == Tasks \cup {"main", "trap"}

\* Priorities of the tasks as created, and of the kernel's idle task.
Priority == [blink |-> 1, echo |-> 2, check |-> 3, idle |-> 0]

\* Counters saturate where the demo no longer looks at them; the blinks keep
\* their parity.
UpTo(n, limit) == IF n < limit THEN n + 1 ELSE limit
NextBlink == IF blink_count > BlinkGoal THEN BlinkGoal ELSE blink_count + 1

NoReport == [tick |-> 0, hooks |-> 0, switches |-> 0, blinks |-> 0,
             echoes |-> 0, echoed |-> 0, gpio |-> 0,
             mcause |-> "none", failure_code |-> 0]

-----------------------------------------------------------------------------
(* The kernel, as far as the demo depends on it.                           *)

Ready(d) == {t \in Tasks : d[t] = 0}
Highest(d) ==
  IF Ready(d) = {} THEN "idle"
  ELSE CHOOSE t \in Ready(d) : \A u \in Ready(d) : Priority[t] >= Priority[u]

\* Tasks run with interrupts on; main and the trap handler do not.
InterruptsOn == cur \in Tasks \cup {"idle"}

\* vTaskSwitchContext calls traceTASK_SWITCHED_IN however it decides.
freertos_trace_task_switched_in ==
  context_switch_count' = UpTo(context_switch_count, SwitchGoal)

vTaskDelay(t, ticks) ==
  /\ delay' = [delay EXCEPT ![t] = ticks]
  /\ cur' = Highest(delay')
  /\ freertos_trace_task_switched_in

vApplicationTickHook == tick_hook_count' = UpTo(tick_hook_count, TickGoal)

\* The timer interrupt; it switches only to a task it wakes.
Tick ==
  /\ InterruptsOn
  /\ vApplicationTickHook
  /\ delay' = [t \in Tasks |-> IF delay[t] > 0 THEN delay[t] - 1 ELSE 0]
  /\ LET woken == {t \in Ready(delay') : delay[t] > 0
                                         /\ Priority[t] > Priority[cur]}
     IN IF woken = {} THEN UNCHANGED <<cur, context_switch_count>>
        ELSE cur' = Highest(delay') /\ freertos_trace_task_switched_in
  /\ UNCHANGED <<at, hardware, counts, locals, report, history>>

-----------------------------------------------------------------------------
(* The devices' own steps.                                                 *)

Receive ==
  /\ arrived < MaxBytes
  /\ arrived' = arrived + 1
  /\ uart' = UartReceive(uart, arrived')
  /\ UNCHANGED <<cur, at, delay, gpio, mailbox, counts, locals, kernel,
                 report, sent, forgiven, fault>>

TransmitDone ==
  /\ uart.busy
  /\ uart' = UartSent(uart)
  /\ UNCHANGED <<cur, at, delay, gpio, mailbox, counts, locals, kernel,
                 report, history>>

-----------------------------------------------------------------------------
(* freertos_platform_fail: diagnostics, then the status.                   *)

Code == [create |-> \h4001, scheduler |-> \h4002, assert |-> \h1000,
         overflow |-> \h2001, exception |-> \h3002, interrupt |-> \h310b]

\* (code << 1) | 3, and never the status of a pass.
Status(code) ==
  LET status == 4 * (code \div 2) + 3
  IN IF status = PASS THEN 3 ELSE status

Go(c, label) == at' = [at EXCEPT ![c] = label]

ReportFailure(c) ==
  /\ cur = c /\ at[c] = "fail"
  /\ report' = [report EXCEPT !.hooks = tick_hook_count,
                              !.switches = context_switch_count,
                              !.failure_code = Code[fault]]
  /\ Go(c, "post_fail")
  /\ UNCHANGED <<cur, delay, hardware, counts, locals, kernel, history>>

\* rv32_soc_finish: the store, then a loop with interrupts as they were.
finish(c, status) ==
  /\ mailbox' = Mailed(mailbox, status)
  /\ Go(c, "halted")
  /\ UNCHANGED <<cur, delay, uart, gpio, counts, locals, kernel, report,
                 history>>

Fail(c) == cur = c /\ at[c] = "post_fail" /\ finish(c, Status(Code[fault]))

-----------------------------------------------------------------------------
(* main, with interrupts off until the scheduler runs.                     *)

Main(label, next) == cur = "main" /\ at.main = label /\ Go("main", next)

ClearReport ==
  /\ Main("report", "devices")
  /\ report' = NoReport
  /\ UNCHANGED <<cur, delay, hardware, counts, locals, kernel, history>>

InitDevices ==
  /\ Main("devices", "create")
  /\ gpio' = gpio_set_output_enable(gpio_write(gpio, 0), 1)
  /\ uart' = uart_clear_errors(uart)
  /\ forgiven' = arrived
  /\ UNCHANGED <<cur, delay, mailbox, counts, locals, kernel, report,
                 arrived, sent, fault>>

CreateTasks ==
  /\ Main("create", "schedule")
  /\ UNCHANGED <<cur, delay, hardware, counts, locals, kernel, report, history>>

\* vTaskStartScheduler: the task of highest priority runs first, counted as
\* a switch.
StartScheduler ==
  /\ Main("schedule", "started")
  /\ cur' = Highest(delay)
  /\ freertos_trace_task_switched_in
  /\ UNCHANGED <<delay, hardware, counts, locals, tick_hook_count, report,
                 history>>

-----------------------------------------------------------------------------
(* The tasks, one step per access to what they share.                      *)

Task(t, label, next) == cur = t /\ at[t] = label /\ Go(t, next)
Sleep(t, next, ticks) ==
  /\ Task(t, "delay", next)
  /\ vTaskDelay(t, ticks)
  /\ UNCHANGED <<hardware, counts, locals, tick_hook_count, report, history>>

Toggle ==
  /\ Task("blink", "toggle", "count")
  /\ gpio' = gpio_toggle(gpio)
  /\ UNCHANGED <<cur, delay, uart, mailbox, counts, locals, kernel, report,
                 history>>

CountBlink ==
  /\ Task("blink", "count", "delay")
  /\ blink_count' = NextBlink
  /\ UNCHANGED <<cur, delay, hardware, echo_count, echoed_byte, locals,
                 kernel, report, history>>

Fault_TextEnds == text = 0                    \* one character too many
TextEnds == text = 1
WriteText ==
  /\ Task("echo", "text", IF TextEnds THEN "poll" ELSE "text")
  /\ uart_can_put(uart)
  /\ uart' = uart_putc(uart)
  /\ text' = text - 1
  /\ UNCHANGED <<cur, delay, gpio, mailbox, counts, byte, kernel, report,
                 history>>

\* rv32_soc_uart_try_getc: the status, then the data unless it is empty.
PollStatus ==
  /\ Task("echo", "poll",
          IF uart_status(uart).rx_valid THEN "getc" ELSE "delay")
  /\ UNCHANGED <<cur, delay, hardware, counts, locals, kernel, report, history>>

GetByte ==
  /\ Task("echo", "getc", IF uart_rxdata(uart) = 0 THEN "delay" ELSE "putc")
  /\ byte' = uart_rxdata(uart)
  /\ uart' = uart_pop(uart)
  /\ UNCHANGED <<cur, delay, gpio, mailbox, counts, text, kernel, report,
                 history>>

PutByte ==
  /\ Task("echo", "putc", "byte")
  /\ uart_can_put(uart)
  /\ uart' = uart_putc(uart)
  /\ sent' = Append(sent, byte)
  /\ UNCHANGED <<cur, delay, gpio, mailbox, counts, locals, kernel, report,
                 arrived, forgiven, fault>>

Fault_KeepByte ==                             \* the count is left out
  /\ Task("echo", "byte", "delay")
  /\ echoed_byte' = byte
  /\ UNCHANGED <<cur, delay, hardware, blink_count, echo_count, locals,
                 kernel, report, history>>
KeepByte ==
  /\ Task("echo", "byte", "count")
  /\ echoed_byte' = byte
  /\ UNCHANGED <<cur, delay, hardware, blink_count, echo_count, locals,
                 kernel, report, history>>

CountEcho ==
  /\ Task("echo", "count", "delay")
  /\ echo_count' = echo_count + 1
  /\ byte' = 0
  /\ UNCHANGED <<cur, delay, hardware, blink_count, echoed_byte, text,
                 kernel, report, history>>

Fault_GoalsMet ==                             \* the echoes are left out
  /\ blink_count >= BlinkGoal
  /\ tick_hook_count >= TickGoal
  /\ context_switch_count >= SwitchGoal
GoalsMet == /\ blink_count >= BlinkGoal
            /\ echo_count >= EchoGoal
            /\ tick_hook_count >= TickGoal
            /\ context_switch_count >= SwitchGoal

Check ==
  /\ Task("check", "test", IF GoalsMet THEN "tick" ELSE "delay")
  /\ UNCHANGED <<cur, delay, hardware, counts, locals, kernel, report, history>>

\* The kernel's tick count and the hook's are read at two moments.
ReportTick ==
  /\ Task("check", "tick", "fill")
  /\ report' = [report EXCEPT !.tick = tick_hook_count]
  /\ UNCHANGED <<cur, delay, hardware, counts, locals, kernel, history>>

ReportProgress ==
  /\ Task("check", "fill", "pass")
  /\ report' = [report EXCEPT !.hooks = tick_hook_count,
                              !.switches = context_switch_count,
                              !.blinks = blink_count, !.echoes = echo_count,
                              !.echoed = echoed_byte, !.gpio = gpio.out,
                              !.failure_code = 0]
  /\ UNCHANGED <<cur, delay, hardware, counts, locals, kernel, history>>

Pass == cur = "check" /\ at.check = "pass" /\ finish("check", PASS)

-----------------------------------------------------------------------------
(* Faults.                                                                 *)

\* (What happens after the verdict no longer changes it.)
Fails(f) == /\ f \in Faults /\ fault = "none" /\ mailbox = 0
            /\ fault' = f

\* xTaskCreateStatic gives no handle, or vTaskStartScheduler returns.
MainFails(f, label) ==
  /\ Main(label, "fail")
  /\ Fails(f)
  /\ UNCHANGED <<cur, delay, hardware, counts, locals, kernel, report,
                 arrived, sent, forgiven>>

\* A configASSERT fails in a task.
AssertFails(t) ==
  /\ cur = t /\ at[t] \notin {"fail", "post_fail", "halted"}
  /\ Go(t, "fail")
  /\ Fails("assert")
  /\ UNCHANGED <<cur, delay, hardware, counts, locals, kernel, report,
                 arrived, sent, forgiven>>

Fault_TakeTrap(f) ==       \* handled in the task, with interrupts on again
  /\ cur \in Tasks
  /\ Fails(f)
  /\ Go(cur, "fail")
  /\ UNCHANGED <<cur, delay, hardware, counts, locals, kernel, report,
                 arrived, sent, forgiven>>

\* An unexpected exception or interrupt, or a stack found overflown by the
\* kernel: the handler runs with interrupts off.
TakeTrap(f) ==
  /\ InterruptsOn
  /\ Fails(f)
  /\ cur' = "trap" /\ Go("trap", "fail")
  /\ report' = [report EXCEPT
                  !.mcause = IF f = "overflow" THEN @ ELSE f]
  /\ UNCHANGED <<delay, hardware, counts, locals, kernel,
                 arrived, sent, forgiven>>

Start ==
  [at |-> [main |-> "report", trap |-> "none",
           blink |-> "toggle", echo |-> "text", check |-> "test"],
   delay |-> [t \in Tasks |-> 0]]

\* A task returns: with configTASK_RETURN_ADDRESS left undefined it returns
\* to address 0, where the image starts.  _start clears the statics; the
\* devices keep their state, and the byte echo_task held is gone.
TaskReturns(t) ==
  /\ cur = t
  /\ Fails("task_return")
  /\ cur' = "main" /\ at' = Start.at /\ delay' = Start.delay
  /\ blink_count' = 0 /\ echo_count' = 0 /\ echoed_byte' = 0
  /\ byte' = 0 /\ text' = ReadyLen
  /\ tick_hook_count' = 0 /\ context_switch_count' = 0
  /\ forgiven' = arrived /\ sent' = <<>>
  /\ UNCHANGED <<hardware, report, arrived>>

-----------------------------------------------------------------------------

Init ==
  /\ cur = "main" /\ at = Start.at /\ delay = Start.delay
  /\ uart = UartReset /\ gpio = GpioReset /\ mailbox = 0
  /\ blink_count = 0 /\ echo_count = 0 /\ echoed_byte = 0
  /\ byte = 0 /\ text = ReadyLen
  /\ tick_hook_count = 0 /\ context_switch_count = 0
  /\ report = NoReport
  /\ arrived = 0 /\ sent = <<>> /\ forgiven = 0 /\ fault = "none"

Hart ==
  \/ ClearReport \/ InitDevices \/ CreateTasks \/ StartScheduler
  \/ Toggle \/ CountBlink \/ Sleep("blink", "toggle", BlinkPeriod)
  \/ WriteText \/ PollStatus \/ GetByte \/ PutByte \/ KeepByte \/ CountEcho
  \/ Sleep("echo", "poll", 1)
  \/ Check \/ ReportTick \/ ReportProgress \/ Pass \/ Sleep("check", "test", 1)
  \/ \E c \in Contexts : ReportFailure(c) \/ Fail(c)

Break ==
  \/ MainFails("create", "create") \/ MainFails("scheduler", "schedule")
  \/ \E t \in Tasks : AssertFails(t) \/ TaskReturns(t)
  \/ \E f \in Traps : TakeTrap(f)

Next == Hart \/ Tick \/ Receive \/ TransmitDone \/ Break

\* The hart executes, the timer interrupts and the transmitter shifts;
\* nobody has to send a byte and nothing has to break.
Spec == Init /\ [][Next]_vars
             /\ WF_vars(Hart) /\ WF_vars(Tick) /\ WF_vars(TransmitDone)

-----------------------------------------------------------------------------
(* Properties.                                                             *)

TypeOK ==
  /\ cur \in Contexts \cup {"idle"}
  /\ DOMAIN at = Contexts /\ delay \in [Tasks -> 0 .. BlinkPeriod]
  /\ DOMAIN uart = DOMAIN UartReset /\ uart.data \in 0 .. MaxBytes
  /\ gpio \in [out: {0, 1}, oe: {0, 1}]
  /\ mailbox \in {0, PASS} \cup {Status(Code[f]) : f \in DOMAIN Code}
  /\ blink_count \in 0 .. BlinkGoal + 1 /\ echo_count \in 0 .. MaxBytes
  /\ {echoed_byte, byte, arrived, forgiven} \subseteq 0 .. MaxBytes
  /\ text \in 0 .. ReadyLen
  /\ tick_hook_count \in 0 .. TickGoal
  /\ context_switch_count \in 0 .. SwitchGoal
  /\ DOMAIN report = DOMAIN NoReport
  /\ fault \in Faults \cup {"none"}

\* A passing verdict is backed by a report of progress that was made: every
\* counted echo was transmitted, the byte reported was echoed, and the pin
\* shows the blinks counted, exactly one more when check_task has preempted
\* blink_task between its toggle and its count.
PassIsEarned ==
  mailbox = PASS =>
    /\ report.failure_code = 0
    /\ report.blinks >= BlinkGoal /\ report.hooks >= TickGoal
    /\ report.switches >= SwitchGoal
    /\ report.echoes >= EchoGoal /\ report.echoes <= Len(sent)
    /\ \E i \in DOMAIN sent : sent[i] = report.echoed
    /\ at.blink \in {"toggle", "delay"} => report.gpio = report.blinks % 2
    /\ at.blink = "count" => report.gpio = 1 - (report.blinks % 2)

\* Bytes are echoed in the order of their arrival and none twice; one that
\* came after the errors were cleared is echoed, on its way, or lost with
\* the overrun flag to tell.
EchoIsFaithful ==
  /\ \A i, j \in DOMAIN sent : i < j => sent[i] < sent[j]
  /\ \A b \in forgiven + 1 .. arrived :
       \/ \E i \in DOMAIN sent : sent[i] = b
       \/ b \in {byte, uart.data}
       \/ uart.overrun

\* A fault that main or a trap handler finds decides the run: with
\* interrupts off no task can report a pass between it and the mailbox.
TrapIsReported ==
  (fault \in Traps \cup {"create", "scheduler"} /\ mailbox # 0) =>
    /\ mailbox = Status(Code[fault])
    /\ report.failure_code = Code[fault]
    /\ fault \in {"exception", "interrupt"} => report.mcause = fault

\* docs/software.md, 5.3: unexpected exceptions and interrupts,
\* configASSERT, task return and stack overflow all terminate with a failing
\* mailbox status.
FaultIsReported == mailbox = PASS => fault = "none"

\* The demonstration passes if nothing breaks, a byte arrives, and the tasks'
\* work fits between two ticks often enough to reach the idle task; a fault
\* that main or a handler finds ends it.
DemoEnds ==
  /\ (/\ [](fault = "none") /\ <>(arrived > 0)
      /\ []<>(cur = "idle" \/ mailbox # 0)) => <>(mailbox = PASS)
  /\ fault \in Traps \cup {"create", "scheduler"} ~> mailbox # 0
=============================================================================
