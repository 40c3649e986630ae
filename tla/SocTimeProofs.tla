--------------------------- MODULE SocTimeProofs ---------------------------
(***************************************************************************)
(* Proofs about SocTime, for registers of any width: types, reads that     *)
(* return a moment's value, and an interrupt line that a deadline being    *)
(* replaced by halves never raises by itself.                              *)
(***************************************************************************)
EXTENDS SocTime, TLAPS

\* A pass of the read loop is shorter than a low half's period: since its
\* first load the high half has advanced at most once, and then the low half
\* has started again; and if it has not, the two loads are of one moment.
PassInv ==
  /\ Reading => mtime \in window /\ result = NoTime
  /\ pc \in {"high", "low"} => age < MaxPass
  /\ pc \in {"low", "again"} =>
       \/ mtime.hi = high_before
       \/ mtime.hi = NextHigh(high_before) /\ mtime.lo < age
  /\ (pc = "again" /\ mtime.hi = high_before) =>
       [hi |-> high_before, lo |-> low] \in window

\* How far the deadline has been replaced.
WriteInv ==
  /\ ~Writing => mtimecmp = compare_value
  /\ pc = "max" => mtimecmp = replaced
  /\ pc = "new_high" => mtimecmp = [hi |-> replaced.hi, lo |-> LowSize - 1]
  /\ pc = "new_low" => mtimecmp = [hi |-> compare_value.hi, lo |-> LowSize - 1]

-----------------------------------------------------------------------------

\* A tick leaves the time a time, and moves the high half on at a carry only.
LEMMA TickedType ==
  ASSUME NEW t \in Times
  PROVE  /\ Ticked(t) \in Times
         /\ t.lo = LowSize - 1 =>
              Ticked(t).hi = NextHigh(t.hi) /\ Ticked(t).lo = 0
         /\ t.lo # LowSize - 1 =>
              Ticked(t).hi = t.hi /\ Ticked(t).lo = t.lo + 1
BY SizeAssumption DEF Ticked, Times, Highs, Lows, NextHigh

\* The high half never ticks to itself.
LEMMA NextHighDiffers ==
  ASSUME NEW h \in Highs
  PROVE  NextHigh(h) \in Highs /\ NextHigh(h) # h
BY SizeAssumption DEF NextHigh, Highs

\* A store to a half leaves a time a time.
LEMMA StoreType ==
  ASSUME NEW t \in Times
  PROVE  /\ \A v \in Highs : [t EXCEPT !["hi"] = v] = [hi |-> v, lo |-> t.lo]
         /\ \A v \in Lows : [t EXCEPT !["lo"] = v] = [hi |-> t.hi, lo |-> v]
         /\ \A v \in Highs : [t EXCEPT !["hi"] = v] \in Times
         /\ \A v \in Lows : [t EXCEPT !["lo"] = v] \in Times
BY DEF Times

\* The reset values of the registers are times.
LEMMA Constants ==
  /\ MaxTime \in Times /\ [hi |-> 0, lo |-> 0] \in Times
  /\ 0 \in Highs /\ 0 \in Lows /\ LowSize - 1 \in Lows
  /\ 0 \in 0 .. MaxPass /\ 1 \in 0 .. MaxPass
BY SizeAssumption, PassAssumption DEF MaxTime, Times, Highs, Lows

-----------------------------------------------------------------------------

IInv == TypeOK /\ PassInv /\ WriteInv /\ ReadIsInstant

\* The invariant holds after reset, which Init and Reset share.
LEMMA InitStep == Init => IInv
BY Constants, PassAssumption
   DEF Init, IInv, TypeOK, PassInv, WriteInv, ReadIsInstant, Reading, Writing

LEMMA ResetStep == Reset => IInv'
BY Constants, PassAssumption
   DEF Reset, IInv, TypeOK, PassInv, WriteInv, ReadIsInstant, Reading, Writing

\* A clock of the routine, of other software, or of neither.
LEMMA NextStep ==
  ASSUME IInv, [Next]_vars
  PROVE  IInv'
<1> USE DEF IInv, TypeOK, PassInv, WriteInv, ReadIsInstant, Reading, Writing
<1>t. /\ Ticked(mtime) \in Times
      /\ mtime.lo = LowSize - 1 =>
           Ticked(mtime).hi = NextHigh(mtime.hi) /\ Ticked(mtime).lo = 0
      /\ mtime.lo # LowSize - 1 =>
           Ticked(mtime).hi = mtime.hi /\ Ticked(mtime).lo = mtime.lo + 1
  BY TickedType
<1>h. /\ mtime.hi \in Highs /\ mtime.lo \in Lows
      /\ compare_value.hi \in Highs /\ compare_value.lo \in Lows
  BY DEF Times
<1>c. age \in Int /\ age >= 0 /\ MaxPass \in Int /\ LowSize \in Int /\ MaxPass < LowSize
  BY SizeAssumption, PassAssumption
<1>1. CASE ReadHigh
  <2>1. mtime' = Ticked(mtime) /\ high_before' = mtime.hi /\ age' = 1
    BY <1>1 DEF ReadHigh, Tick
  <2>2. \/ mtime'.hi = high_before'
        \/ mtime'.hi = NextHigh(high_before') /\ mtime'.lo < age'
    BY <2>1, <1>t
  <2> QED BY <1>1, <2>1, <2>2, <1>t, <1>h, <1>c, Constants, PassAssumption
             DEF ReadHigh, Tick, writer
<1>2. CASE ReadLow
  <2>1. mtime' = Ticked(mtime) /\ low' = mtime.lo /\ age' = age + 1
        /\ high_before' = high_before /\ window' = window \cup {mtime'}
    BY <1>2 DEF ReadLow, Tick
  <2>2. PICK h \in Highs : h = high_before /\ NextHigh(h) # h
    BY NextHighDiffers
  <2>3. \/ mtime'.hi = high_before'
        \/ mtime'.hi = NextHigh(high_before') /\ mtime'.lo < age'
    BY <2>1, <1>2, <1>t, <1>h, <1>c DEF ReadLow, Lows
  <2>4. mtime'.hi = high_before' => mtime.hi = high_before
    BY <2>1, <2>2, <1>2, <1>t, <1>h, <1>c DEF ReadLow, Lows
  <2>5. mtime = [hi |-> mtime.hi, lo |-> mtime.lo]
    BY DEF Times
  <2>6. mtime'.hi = high_before' =>
          [hi |-> high_before', lo |-> low'] \in window'
    BY <2>1, <2>4, <2>5, <1>2 DEF ReadLow
  <2> QED BY <1>2, <2>1, <2>3, <2>6, <1>t, <1>h, <1>c
             DEF ReadLow, Tick, writer
<1>3. CASE ReadAgain
  BY <1>3, <1>t, <1>h, <1>c, Constants, PassAssumption
     DEF ReadAgain, Agrees, Tick, writer, Times
<1>4. CASE WriteLowMax
  BY <1>4, <1>t, <1>h, <1>c, Constants, StoreType
     DEF WriteLowMax, StoreCompare, WriteMax, reader, writer
<1>5. CASE WriteHigh
  <2>1. mtimecmp' = [hi |-> compare_value.hi, lo |-> mtimecmp.lo]
        /\ mtime' = Ticked(mtime) /\ pc' = "new_low"
        /\ UNCHANGED <<reader, writer>>
    BY <1>5, <1>h, StoreType DEF WriteHigh, StoreCompare
  <2>2. mtimecmp.lo = LowSize - 1 /\ mtimecmp' \in Times
    BY <1>5, <2>1, <1>h, Constants DEF WriteHigh, Times
  <2> QED BY <2>1, <2>2, <1>5, <1>t DEF WriteHigh, reader, writer
<1>6. CASE WriteLow
  <2>1. compare_value = [hi |-> compare_value.hi, lo |-> compare_value.lo]
    BY DEF Times
  <2>2. mtimecmp' = [hi |-> mtimecmp.hi, lo |-> compare_value.lo]
        /\ mtime' = Ticked(mtime) /\ pc' = "idle"
        /\ UNCHANGED <<reader, compare_value>>
    BY <1>6, <1>h, StoreType DEF WriteLow, StoreCompare
  <2>3. mtimecmp' = compare_value
    BY <2>1, <2>2, <1>6 DEF WriteLow
  <2> QED BY <1>6, <2>2, <2>3, <1>t DEF WriteLow, reader
<1>7. CASE CallRead
  BY <1>7, <1>t, <1>c, Constants, PassAssumption
     DEF CallRead, Tick, writer
<1>8. ASSUME NEW v \in Times, CallWrite(v) PROVE IInv'
  BY <1>8, <1>t, <1>c DEF CallWrite, Tick
<1>9. ASSUME NEW v \in Highs, SetTime("hi", v) PROVE IInv'
  BY <1>9, <1>c, StoreType DEF SetTime, StoreMtime, reader, writer
<1>10. ASSUME NEW v \in Lows, SetTime("lo", v) PROVE IInv'
  BY <1>10, <1>c, StoreType DEF SetTime, StoreMtime, reader, writer
<1>11. CASE Elapse
  <2>1. mtime' = Ticked(mtime) /\ mtimecmp' = mtimecmp
        /\ UNCHANGED <<pc, high_before, low, result, writer>>
    BY <1>11 DEF Elapse, Tick
  <2>2. CASE pc \in {"low", "again"}
    <3>1. /\ age' = age + 1 /\ window' = window \cup {mtime'}
          /\ age < MaxPass
          /\ pc = "low" => age' < MaxPass
      BY <1>11, <2>2, <1>c DEF Elapse, InTime
    <3>2. \/ mtime'.hi = high_before'
          \/ mtime'.hi = NextHigh(high_before') /\ mtime'.lo < age'
      <4>1. mtime.lo \in Int /\ mtime.lo >= 0 /\ LowSize > 1
        BY <1>h, SizeAssumption DEF Lows
      <4>2. CASE mtime.hi = high_before
        BY <2>1, <3>1, <4>1, <4>2, <1>t, <1>c
      <4>3. CASE mtime.hi = NextHigh(high_before) /\ mtime.lo < age
        BY <2>1, <3>1, <4>1, <4>3, <1>t, <1>c
      <4> QED BY <4>2, <4>3, <2>2
    <3>3. PICK h \in Highs : h = high_before /\ NextHigh(h) # h
      BY NextHighDiffers
    <3>4. mtime'.hi = high_before' => mtime.hi = high_before
      BY <2>1, <2>2, <3>1, <3>3, <1>t, <1>h, <1>c DEF Lows
    <3>5. PassInv'
      BY <2>1, <2>2, <3>1, <3>2, <3>4
    <3> QED BY <2>1, <2>2, <3>1, <3>5, <1>t, <1>c DEF writer
  <2>3. CASE pc = "high"
    BY <1>11, <2>1, <2>3, <1>t, <1>c DEF Elapse, InTime, writer
  <2>4. CASE ~Reading
    BY <1>11, <2>1, <2>4, <1>t DEF Elapse, writer
  <2> QED BY <2>2, <2>3, <2>4
<1>12. CASE Reset
  BY <1>12, ResetStep
<1>13. CASE UNCHANGED vars
  BY <1>13 DEF vars, timer, reader, writer
<1> QED BY <1>1, <1>2, <1>3, <1>4, <1>5, <1>6, <1>7, <1>8, <1>9, <1>10,
           <1>11, <1>12, <1>13 DEF Next, Step

\* All of it holds in every reachable state.
LEMMA Invariance == Spec => []IInv
BY InitStep, NextStep, PTL DEF Spec

-----------------------------------------------------------------------------

\* Every reachable state of the timer and of the two routines has its type:
\* the counter wraps from all ones to zero.
THEOREM TypeCorrect == Spec => []TypeOK
<1>1. IInv => TypeOK
  BY DEF IInv
<1> QED BY <1>1, Invariance, PTL

\* rv32_soc_mtime_read returns a value the counter had at one moment of the
\* call, wherever carries fall between its loads.
THEOREM ReadsAreInstants == Spec => []ReadIsInstant
<1>1. IInv => ReadIsInstant
  BY DEF IInv
<1> QED BY <1>1, Invariance, PTL

\* rv32_soc_mtimecmp_write raises no interrupt that neither the old nor the
\* new deadline explains.
THEOREM InterruptsAreJustified == Spec => []InterruptJustified
<1>1. IInv => InterruptJustified
  <2> SUFFICES ASSUME IInv PROVE InterruptJustified
    OBVIOUS
  <2> USE DEF IInv, TypeOK, WriteInv, Writing, InterruptJustified, mtip_o
  <2>1. /\ mtime.hi \in Int /\ mtime.lo \in Int
        /\ compare_value.hi \in Int /\ compare_value.lo \in Lows
        /\ replaced.hi \in Int /\ replaced.lo \in Lows
        /\ LowSize \in Int
    BY SizeAssumption DEF Times, Highs, Lows
  <2>2. CASE pc = "new_high"
    BY <2>1, <2>2 DEF AtLeast, Lows
  <2>3. CASE pc = "new_low"
    BY <2>1, <2>3 DEF AtLeast, Lows
  <2>4. CASE pc = "max"
    BY <2>4
  <2>5. CASE ~Writing
    BY <2>5
  <2> QED BY <2>2, <2>3, <2>4, <2>5
<1> QED BY <1>1, Invariance, PTL
=============================================================================
