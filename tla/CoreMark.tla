------------------------------ MODULE CoreMark ------------------------------
(***************************************************************************)
(* The CoreMark port (sw/coremark/core_portme.c) on the bare-metal runtime *)
(* (sw/runtime/runtime.c): reading the 64-bit counters around the timed    *)
(* region by halves while they run, collecting what the vendored benchmark *)
(* prints in a report, and deciding the run from that report.              *)
(*                                                                         *)
(* core_main.c is vendored and modelled by the calls it makes: the timed   *)
(* runs, and the messages it prints.  A program that only calls library    *)
(* routines and exits is the other use of the runtime.                     *)
(***************************************************************************)
EXTENDS Runtime, Bsp, Sequences, FiniteSets

CONSTANTS
  LowSize,       \* values of a counter's low half, and of a CORE_TICKS
  WordSize,      \* values of a status word
  ClockHz,       \* COREMARK_CLOCK_HZ
  MinSecs,       \* seconds core_main.c wants a run to take
  RunTimes,      \* cycles the benchmark's iterations may take
  MaxOthers,     \* bound: clocks besides counter reads and the iterations
  MaxPasses,     \* bound: runs to calibrate the number of iterations
  ExitCodes,     \* what main may return
  Causes         \* mcause of a trap

ASSUME CounterAssumption == {LowSize, ClockHz} \subseteq Nat \ {0}
ASSUME WordAssumption == WordSize \in Nat /\ WordSize > 2047
ASSUME RunAssumption == RunTimes \subseteq Nat /\ MinSecs \in Nat
ASSUME CodeAssumption ==
  (ExitCodes \cup Causes) \subseteq 0 .. WordSize - 1

VARIABLES
  pc, part,      \* where the program is, and where in read_counter
  mcycle, minstret,                    \* the counters
  others, passes,                      \* bounded
  high_before, low,                    \* locals of read_counter
  start_cycle, stop_cycle, start_instret, stop_instret,
  report,        \* coremark_report
  seed, bad,     \* the seeds of the run, and the checksums that came out wrong
  queue,         \* messages core_main.c is yet to print
  mailbox,
  entered, inner, outer,  \* history: the stretches of time measured
  ending         \* history: how the program ended

counters == <<mcycle, minstret, others>>
statics == <<start_cycle, stop_cycle, start_instret, stop_instret>>
reader == <<part, high_before, low>>
outcome == <<seed, bad, queue>>
history == <<entered, inner, outer, ending>>
vars == <<pc, passes, counters, statics, reader, report, outcome, mailbox,
          history, routine>>

Count == [cycles |-> mcycle, instructions |-> minstret]
NoCount == [cycles |-> 0, instructions |-> 0]

NoReport == [run_type |-> "none", cycles_lo |-> 0, cycles_hi |-> 0,
             instructions_lo |-> 0, instructions_hi |-> 0,
             iterations |-> 0, seedcrc |-> "none", crclist |-> "none",
             crcmatrix |-> "none", crcstate |-> "none", crcfinal |-> "none",
             valid |-> 0, errors |-> 0]

-----------------------------------------------------------------------------
(* The end of a program (runtime.c).                                       *)

Status(code) ==
  LET status == ((2 * code) % WordSize) + 1
  IN IF status = PASS THEN 3 ELSE status

\* The memory is not looked at once the library routines are done with.
Forget == /\ mem' = [a \in Addrs |-> 0] /\ before' = mem'
          /\ call' = NoCall /\ text' = 0 /\ i' = 0 /\ result' = 0

Finish(status, how) ==
  /\ mailbox' = Mailed(mailbox, status)
  /\ pc' = "halted" /\ ending' = how
  /\ Forget
  /\ UNCHANGED <<passes, counters, statics, reader, report, outcome,
                 entered, inner, outer>>

bm_pass(how) == Finish(PASS, how)
bm_fail(code, how) == Finish(Status(code), how)

\* main of another program returns.
bm_exit(status) ==
  /\ pc = "boot" /\ result # Running
  /\ IF status = 0 THEN bm_pass([by |-> "exit", code |-> status])
     ELSE bm_fail(status, [by |-> "exit", code |-> status])

bm_trap_handler(cause) ==
  /\ pc # "halted"
  /\ bm_fail(256 + (cause % 32), [by |-> "trap", code |-> cause])

LibraryCall ==
  /\ pc = "boot"
  /\ RoutineNext
  /\ UNCHANGED <<pc, passes, counters, statics, reader, report, outcome,
                 mailbox, history>>

-----------------------------------------------------------------------------
(* Time: a counter read retires, or a clock of something else passes.      *)

Retire == /\ mcycle' = mcycle + 1 /\ minstret' = minstret + 1
          /\ UNCHANGED others

Timed == {"start_instret", "start_cycle", "iterate", "stop_cycle",
          "stop_instret"}

\* A clock retires nothing, or another instruction of the port.
OtherClock ==
  /\ pc \in Timed /\ others < MaxOthers
  /\ mcycle' = mcycle + 1 /\ others' = others + 1
  /\ minstret' \in {minstret, minstret + 1}
  /\ UNCHANGED <<pc, passes, statics, reader, report, outcome,
                 mailbox, history, routine>>

-----------------------------------------------------------------------------
(* read_counter: the high half, the low half, the high half again.         *)
(*                                                                         *)
(* The stretch measured of the instructions is that from the call of       *)
(* start_time to the end of stop_time; the stretch measured of the cycles  *)
(* is to lie between the two reads of minstret, so that no instruction is  *)
(* counted less than its cycles are.  entered and outer say so.            *)

Counter == IF pc \in {"start_instret", "stop_instret"} THEN minstret ELSE mcycle
Hi(n) == n \div LowSize
Lo(n) == n % LowSize

ReadingCounter == pc \in Timed \ {"iterate"}

ReadHigh ==
  /\ ReadingCounter /\ part = "high"
  /\ Retire
  /\ high_before' = Hi(Counter) /\ part' = "low"
  /\ outer' = IF pc = "stop_instret"
              THEN [cycles |-> mcycle - entered.cycles, instructions |-> 0]
              ELSE outer
  /\ UNCHANGED <<pc, passes, low, statics, report, outcome, mailbox, entered,
                 inner, ending, routine>>

ReadLow ==
  /\ ReadingCounter /\ part = "low"
  /\ Retire
  /\ low' = Lo(Counter) /\ part' = "again"
  /\ UNCHANGED <<pc, passes, high_before, statics, report, outcome, mailbox,
                 history, routine>>

Fault_Agrees == TRUE                        \* the third read is left out
Agrees == Hi(Counter) = high_before

ReadAgain ==
  /\ ReadingCounter /\ part = "again"
  /\ Retire
  /\ part' = "high" /\ high_before' = 0 /\ low' = 0
  /\ IF Agrees THEN LET value == high_before * LowSize + low IN
       \/ /\ pc = "start_instret" /\ pc' = "start_cycle"
          /\ start_instret' = value
          /\ entered' = [Count' EXCEPT !.instructions = entered.instructions]
          /\ UNCHANGED <<start_cycle, stop_cycle, stop_instret, inner, outer,
                         ending>>
       \/ /\ pc = "start_cycle" /\ pc' = "iterate"
          /\ start_cycle' = value
          /\ UNCHANGED <<start_instret, stop_cycle, stop_instret, history>>
       \/ /\ pc = "stop_cycle" /\ pc' = "stop_instret"
          /\ stop_cycle' = value
          /\ UNCHANGED <<start_instret, start_cycle, stop_instret, history>>
       \/ /\ pc = "stop_instret" /\ pc' = "measured"
          /\ stop_instret' = value
          /\ outer' = [cycles |-> outer.cycles,
                       instructions |-> minstret' - entered.instructions]
          /\ UNCHANGED <<start_instret, start_cycle, stop_cycle, entered,
                         inner, ending>>
     ELSE UNCHANGED <<pc, statics, history>>
  /\ UNCHANGED <<passes, report, outcome, mailbox, routine>>

-----------------------------------------------------------------------------
(* The timed runs of core_main.c, around start_time and stop_time.         *)

\* The sizes of the types core_portme.h declares, and the checks of them by
\* the port and by the benchmark.
TypeSize == [ee_u8 |-> 1, ee_s16 |-> 2, ee_u16 |-> 2, ee_s32 |-> 4,
             ee_u32 |-> 4, ee_ptr_int |-> 4]
NeededSize == [ee_u8 |-> 1, ee_s16 |-> 2, ee_u16 |-> 2, ee_s32 |-> 4,
               ee_u32 |-> 4, ee_ptr_int |-> 4]
WrongTypes == {t \in DOMAIN TypeSize : TypeSize[t] # NeededSize[t]}
TypesFit == WrongTypes = {}
check_data_types == Cardinality(WrongTypes)

\* main starts: the report is cleared.  The counters have counted since
\* reset, and the number of iterations is given or to be calibrated.
portable_init(run_type) ==
  /\ pc = "boot" /\ result # Running
  /\ pc' = "run"
  /\ report' = [NoReport EXCEPT !.run_type = run_type,
                                !.errors = IF TypesFit THEN 0 ELSE 1]
  /\ mcycle' \in 0 .. LowSize - 1 /\ minstret' \in 0 .. mcycle'
  /\ passes' \in {0, MaxPasses}
  /\ Forget
  /\ UNCHANGED <<others, statics, reader, outcome, mailbox, history>>

\* A run to calibrate the number of iterations, or the one that counts: the
\* calls are the same.  passes is 0 once the number is known.
StartRun ==
  /\ pc = "run"
  /\ pc' = "start_instret"
  /\ entered' = Count
  /\ UNCHANGED <<passes, counters, statics, reader, report, outcome, mailbox,
                 inner, outer, ending, routine>>

Iterate(cycles) ==
  /\ pc = "iterate"
  /\ pc' = "stop_cycle"
  /\ inner' = [cycles |-> cycles, instructions |-> (cycles + 1) \div 2]
  /\ mcycle' = mcycle + cycles
  /\ minstret' = minstret + inner'.instructions
  /\ UNCHANGED <<passes, others, statics, reader, report, outcome, mailbox,
                 entered, outer, ending, routine>>

Cycles == stop_cycle - start_cycle
Instructions == stop_instret - start_instret

\* The end of stop_time.
ReportTimes ==
  /\ pc = "measured"
  /\ pc' = "judge"
  /\ report' = [report EXCEPT
       !.cycles_lo = Lo(Cycles), !.cycles_hi = Hi(Cycles),
       !.instructions_lo = Lo(Instructions),
       !.instructions_hi = Hi(Instructions)]
  /\ UNCHANGED <<passes, counters, statics, reader, outcome, mailbox, history,
                 routine>>

\* CORE_TICKS has the width of a counter's half.
get_time == Cycles % LowSize
time_in_secs(ticks) == ticks \div ClockHz

\* Calibration repeats until a run takes a second.
Calibrate ==
  /\ pc = "judge" /\ passes > 0
  /\ pc' = "run"
  /\ IF time_in_secs(get_time) >= 1 THEN passes' = 0
     ELSE passes > 1 /\ passes' = passes - 1
  /\ UNCHANGED <<counters, statics, reader, report, outcome, mailbox, history,
                 routine>>

-----------------------------------------------------------------------------
(* What core_main.c prints, and the report ee_printf makes of it.          *)

Message(fmt, arg) == [fmt |-> fmt, arg |-> arg]
Algorithms == {"crclist", "crcmatrix", "crcstate"}
Checksum(a, wrong) == IF a \in wrong THEN "wrong" ELSE "right"
When(p, m) == IF p THEN <<m>> ELSE <<>>

\* The benchmark compares checksums only for seeds it knows; for others it
\* starts from -1 errors, so that one other error makes none.
Short == time_in_secs(get_time) < MinSecs
Errors(seeds, wrong) ==
  (IF seeds # "unknown" THEN Cardinality(wrong) ELSE -1)
  + check_data_types + (IF Short THEN 1 ELSE 0)

\* check_data_types names every wrong type and then asks to mend them.
TypeErrors ==
  IF TypesFit THEN <<>>
  ELSE [k \in 1 .. check_data_types + 1 |-> Message("ERROR", 0)]

\* What core_main.c prints of a run with these seeds and wrong checksums.
Prints(seeds, wrong) ==
  LET known == seeds # "unknown"
      errors == Errors(seeds, wrong)
      error == Message("ERROR", 0)
  IN When(known, Message("parameters", 0))
     \o When(known /\ "crclist" \in wrong, error)
     \o When(known /\ "crcmatrix" \in wrong, error)
     \o When(known /\ "crcstate" \in wrong, error)
     \o TypeErrors
     \o <<Message("Total ticks", get_time)>>
     \o When(Short, error)
     \o <<Message("Iterations", 1), Message("seedcrc", seeds),
          Message("crclist", Checksum("crclist", wrong)),
          Message("crcmatrix", Checksum("crcmatrix", wrong)),
          Message("crcstate", Checksum("crcstate", wrong)),
          Message("crcfinal", "any")>>
     \o When(errors = 0, Message("Correct operation", 0))
     \o When(errors > 0, Message("Errors detected", 0))
     \o When(errors < 0, Message("Cannot validate", 0))

Seeds == {"expected", "other", "unknown"}
Outcomes == {{}, {"crclist"}, Algorithms}

Judge ==
  /\ pc = "judge" /\ passes = 0
  /\ pc' = "print"
  /\ seed' \in Seeds /\ bad' \in Outcomes
  /\ queue' = Prints(seed', bad')
  /\ UNCHANGED <<passes, counters, statics, reader, report, mailbox, history,
                 routine>>

Bad == {"ERROR", "Errors detected", "Cannot validate"}

ee_printf(m) ==
  report' =
    [report EXCEPT
       !.cycles_lo  = IF m.fmt = "Total ticks" THEN m.arg ELSE @,
       !.iterations = IF m.fmt = "Iterations" THEN m.arg ELSE @,
       !.seedcrc    = IF m.fmt = "seedcrc" THEN m.arg ELSE @,
       !.crclist    = IF m.fmt = "crclist" THEN m.arg ELSE @,
       !.crcmatrix  = IF m.fmt = "crcmatrix" THEN m.arg ELSE @,
       !.crcstate   = IF m.fmt = "crcstate" THEN m.arg ELSE @,
       !.crcfinal   = IF m.fmt = "crcfinal" THEN m.arg ELSE @,
       !.errors     = IF m.fmt \in Bad THEN @ + 1 ELSE @,
       !.valid      = IF m.fmt = "Correct operation" THEN 1 ELSE @]

PrintNext ==
  /\ pc = "print" /\ queue # <<>>
  /\ ee_printf(Head(queue))
  /\ queue' = Tail(queue)
  /\ UNCHANGED <<pc, passes, counters, statics, reader, seed, bad, mailbox,
                 history, routine>>

Fault_Accepted == report.valid = 1 /\ report.errors = 0
Accepted == report.valid = 1 /\ report.errors = 0 /\ report.seedcrc = "expected"

portable_fini ==
  /\ pc = "print" /\ queue = <<>>
  /\ IF Accepted THEN bm_pass([by |-> "fini", code |-> 0])
     ELSE bm_fail(512 + (report.errors % 256), [by |-> "fini", code |-> 0])

-----------------------------------------------------------------------------

Init ==
  /\ pc = "boot" /\ part = "high"
  /\ mcycle = 0 /\ minstret = 0 /\ others = 0 /\ passes = 0
  /\ high_before = 0 /\ low = 0
  /\ start_cycle = 0 /\ stop_cycle = 0
  /\ start_instret = 0 /\ stop_instret = 0
  /\ report = NoReport
  /\ seed = "none" /\ bad = {} /\ queue = <<>>
  /\ mailbox = 0
  /\ entered = NoCount /\ inner = NoCount /\ outer = NoCount
  /\ ending = [by |-> "none", code |-> 0]
  /\ RoutineInit

Next ==
  \/ LibraryCall
  \/ \E s \in ExitCodes : bm_exit(s)
  \/ \E c \in Causes : bm_trap_handler(c)
  \/ \E t \in {"performance", "validation"} : portable_init(t)
  \/ StartRun \/ ReadHigh \/ ReadLow \/ ReadAgain \/ OtherClock
  \/ \E k \in RunTimes : Iterate(k)
  \/ ReportTimes \/ Calibrate \/ Judge \/ PrintNext \/ portable_fini

Spec == Init /\ [][Next]_vars

-----------------------------------------------------------------------------
(* Properties.                                                             *)

\* The cycles of the report hold all of the iterations and nothing outside the
\* two reads of minstret; its instructions hold all of the iterations and
\* nothing before start_time was called or after stop_time read minstret: no
\* read is torn by a carry, the counters are read in the order that puts the
\* cycles inside the instructions, and no start is left over from a
\* calibration.
MeasuresTheRegion ==
  pc = "judge" =>
    LET cycles == report.cycles_hi * LowSize + report.cycles_lo
        instructions == report.instructions_hi * LowSize
                        + report.instructions_lo
    IN /\ inner.cycles <= cycles /\ cycles <= outer.cycles
       /\ inner.instructions <= instructions
       /\ instructions <= outer.instructions

\* A program passes only if it should: the benchmark with the seeds of its
\* run type, no wrong checksum and a long enough run, or main returning 0;
\* and it fails only for a reason, whatever the status word loses of it.
VerdictIsRight ==
  LET long == outer.cycles >= MinSecs * ClockHz
      sound == seed = "expected" /\ bad = {}
  IN /\ mailbox = PASS =>
          \/ ending = [by |-> "exit", code |-> 0]
          \/ ending.by = "fini" /\ sound /\ long
     /\ mailbox \notin {0, PASS} =>
          \/ ending.by = "exit" /\ ending.code # 0
          \/ ending.by = "trap"
          \/ ending.by = "fini"
             /\ ~(sound /\ time_in_secs(get_time) >= MinSecs)
=============================================================================
