------------------------------ MODULE SocTime ------------------------------
(***************************************************************************)
(* The machine timer (rtl/soc/rv32_mtimer.sv) and the two board-support    *)
(* routines that use it (sw/bsp/rv32_soc.c).  The timer holds two 64-bit   *)
(* registers the bus reaches only by halves, and counts while software is  *)
(* between two accesses.  One step is one rising clock edge: the timer     *)
(* counts or takes a store, and software performs at most one access.      *)
(*                                                                         *)
(* A 64-bit value is the record of its halves, [hi, lo]; the two sizes are *)
(* 2^32 in the hardware.                                                   *)
(***************************************************************************)
EXTENDS Integers

CONSTANTS
  HighSize, LowSize, \* how many values the high and the low half have
  MaxPass            \* bound: clocks one pass of the read loop may take

ASSUME SizeAssumption == /\ HighSize \in Nat /\ HighSize > 1
                         /\ LowSize \in Nat /\ LowSize > 1
ASSUME PassAssumption == MaxPass \in Nat /\ MaxPass > 1 /\ MaxPass < LowSize

VARIABLES
  mtime, mtimecmp,      \* mtime_q, mtimecmp_q
  pc,                   \* the routine software is in, by its next access
  high_before, low,     \* locals of rv32_soc_mtime_read
  result,               \* what it returned last
  compare_value,        \* argument of the last rv32_soc_mtimecmp_write
  replaced,             \* history: the deadline that write replaces
  window,               \* history: the values of mtime since the read began
  age                   \* clocks since this pass of the read loop began

timer == <<mtime, mtimecmp>>
reader == <<high_before, low, result, window, age>>
writer == <<compare_value, replaced>>
vars  == <<timer, pc, reader, writer>>

Highs == 0 .. HighSize - 1
Lows  == 0 .. LowSize - 1
Times == [hi: Highs, lo: Lows]
NoTime == [hi |-> -1, lo |-> -1]

MaxTime == [hi |-> HighSize - 1, lo |-> LowSize - 1]

AtLeast(t, u) == t.hi > u.hi \/ (t.hi = u.hi /\ t.lo >= u.lo)

-----------------------------------------------------------------------------
(* The timer.                                                              *)

mtip_o == AtLeast(mtime, mtimecmp)

\* (An operator named Fault_X is X with a plausible mistake; the checks of
\* the properties replace X by it.)
Fault_NextHigh(h) == h + 1                    \* no wraparound
NextHigh(h) == IF h = HighSize - 1 THEN 0 ELSE h + 1

\* mtime_q + 1, modulo 2^64.
Ticked(t) == IF t.lo = LowSize - 1 THEN [hi |-> NextHigh(t.hi), lo |-> 0]
             ELSE [t EXCEPT !.lo = t.lo + 1]

\* A clock edge with no store to the timer, or with a store to one half: a
\* store to mtime suppresses the tick, a store to mtimecmp does not.
Tick == mtime' = Ticked(mtime) /\ UNCHANGED mtimecmp
StoreMtime(half, v) ==
  mtime' = [mtime EXCEPT ![half] = v] /\ UNCHANGED mtimecmp
StoreCompare(half, v) ==
  mtimecmp' = [mtimecmp EXCEPT ![half] = v] /\ mtime' = Ticked(mtime)

-----------------------------------------------------------------------------
(* rv32_soc_mtime_read: high, low, high again until the highs agree.  The  *)
(* loads sample the register before the edge's tick.                       *)

Reading == pc \in {"high", "low", "again"}
Writing == pc \in {"max", "new_high", "new_low"}

\* The routines' code and bus accesses take some clocks; from its first load
\* to its last a pass of the read loop takes at most MaxPass of them.
InTime == age < IF pc = "again" THEN MaxPass ELSE MaxPass - 1

CallRead ==
  /\ pc = "idle"
  /\ Tick
  /\ pc' = "high" /\ age' = 0
  /\ result' = NoTime /\ window' = {mtime'}
  /\ UNCHANGED <<high_before, low, writer>>

ReadHigh ==
  /\ pc = "high"
  /\ Tick
  /\ high_before' = mtime.hi
  /\ pc' = "low" /\ age' = 1
  /\ window' = window \cup {mtime'}
  /\ UNCHANGED <<low, result, writer>>

ReadLow ==
  /\ pc = "low"
  /\ Tick
  /\ low' = mtime.lo
  /\ pc' = "again" /\ age' = age + 1
  /\ window' = window \cup {mtime'}
  /\ UNCHANGED <<high_before, result, writer>>

\* The locals are dead after the return and between two passes.
Fault_Agrees == TRUE                          \* the third load is left out
Fault_Agrees2 == mtime.lo = low               \* the wrong half is compared
Agrees == mtime.hi = high_before
ReadAgain ==
  /\ pc = "again"
  /\ Tick
  /\ IF Agrees
     THEN /\ result' = [hi |-> high_before, lo |-> low]
          /\ pc' = "idle"
     ELSE result' = result /\ pc' = "high"
  /\ high_before' = 0 /\ low' = 0 /\ age' = 0
  /\ window' = window \cup {mtime'}
  /\ UNCHANGED writer

-----------------------------------------------------------------------------
(* rv32_soc_mtimecmp_write: low half to its maximum, the new high half,    *)
(* the new low half.                                                       *)

CallWrite(v) ==
  /\ pc = "idle"
  /\ Tick
  /\ pc' = "max"
  /\ compare_value' = v /\ replaced' = mtimecmp
  /\ result' = NoTime /\ window' = {}
  /\ UNCHANGED <<high_before, low, age>>

Fault_WriteMax == 0                           \* cleared, not set to the maximum
WriteMax == LowSize - 1

WriteLowMax ==
  /\ pc = "max"
  /\ StoreCompare("lo", WriteMax)
  /\ pc' = "new_high"
  /\ UNCHANGED <<reader, writer>>

WriteHigh ==
  /\ pc = "new_high"
  /\ StoreCompare("hi", compare_value.hi)
  /\ pc' = "new_low"
  /\ UNCHANGED <<reader, writer>>

WriteLow ==
  /\ pc = "new_low"
  /\ StoreCompare("lo", compare_value.lo)
  /\ pc' = "idle"
  /\ replaced' = compare_value
  /\ UNCHANGED <<reader, compare_value>>

-----------------------------------------------------------------------------

\* A clock in which software makes no access to the timer.
Elapse ==
  /\ Reading => InTime
  /\ Tick
  /\ age' = IF Reading THEN age + 1 ELSE age
  /\ window' = IF Reading THEN window \cup {mtime'} ELSE window
  /\ UNCHANGED <<pc, high_before, low, result, writer>>

\* Other software sets the time, one half at a time.
SetTime(half, v) ==
  /\ pc = "idle"
  /\ StoreMtime(half, v)
  /\ UNCHANGED <<pc, reader, writer>>

Init ==
  /\ mtime = [hi |-> 0, lo |-> 0] /\ mtimecmp = MaxTime
  /\ pc = "idle"
  /\ high_before = 0 /\ low = 0 /\ age = 0
  /\ result = NoTime /\ window = {}
  /\ compare_value = MaxTime /\ replaced = MaxTime

\* rst_i resets the timer and restarts the software, wherever it is.
Reset ==
  /\ mtime' = [hi |-> 0, lo |-> 0] /\ mtimecmp' = MaxTime
  /\ pc' = "idle"
  /\ high_before' = 0 /\ low' = 0 /\ age' = 0
  /\ result' = NoTime /\ window' = {}
  /\ compare_value' = MaxTime /\ replaced' = MaxTime

Step == \/ ReadHigh \/ ReadLow \/ ReadAgain
        \/ WriteLowMax \/ WriteHigh \/ WriteLow

Next == \/ Step
        \/ CallRead
        \/ \E v \in Times : CallWrite(v)
        \/ \E v \in Highs : SetTime("hi", v)
        \/ \E v \in Lows : SetTime("lo", v)
        \/ Elapse
        \/ Reset

\* The hart keeps executing the routine it is in.
Spec == Init /\ [][Next]_vars /\ WF_vars(Step)

-----------------------------------------------------------------------------
(* Properties.                                                             *)

TypeOK ==
  /\ mtime \in Times /\ mtimecmp \in Times
  /\ pc \in {"idle", "high", "low", "again", "max", "new_high", "new_low"}
  /\ high_before \in Highs /\ low \in Lows
  /\ result \in Times \cup {NoTime}
  /\ compare_value \in Times /\ replaced \in Times
  /\ window \subseteq Times
  /\ age \in 0 .. MaxPass

\* A read returns a value the counter had at one moment between the call and
\* the return, though its two halves are loaded at different times and a
\* carry may fall between any two loads.
ReadIsInstant == result # NoTime => result \in window

\* While a deadline is replaced half by half, the interrupt line is high only
\* if the old or the new deadline has been reached; once the routine is
\* done, exactly when the new one has.
InterruptJustified ==
  IF Writing
  THEN mtip_o => AtLeast(mtime, compare_value) \/ AtLeast(mtime, replaced)
  ELSE mtip_o <=> AtLeast(mtime, compare_value)

\* The read loop ends although the counter runs, and so does every write.
EveryCallReturns == pc # "idle" ~> pc = "idle"
=============================================================================
