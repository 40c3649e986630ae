--------------------------- MODULE CoreMarkProofs ---------------------------
(***************************************************************************)
(* The port measures the timed region and judges it rightly, for counters  *)
(* of any width, iterations of any length, any number of calibration runs  *)
(* and any exit codes.                                                     *)
(***************************************************************************)
EXTENDS CoreMark, RuntimeProofs, SequenceTheorems, FiniteSetTheorems

-----------------------------------------------------------------------------
(* The inductive invariant.                                                *)

\* How far the timed region has come: each bound of it that was read lies
\* between what came before it and the counters.
RegionInv ==
  /\ mcycle \in Nat /\ minstret \in Nat
  /\ pc \in Timed => /\ entered.cycles \in 0 .. mcycle
                     /\ entered.instructions \in 0 .. minstret
  /\ pc \in {"start_cycle", "iterate"} =>
       start_instret \in entered.instructions .. minstret
  /\ pc = "iterate" => start_cycle \in entered.cycles .. mcycle
  /\ pc \in {"stop_cycle", "stop_instret"} =>
       /\ inner.cycles \in Nat /\ inner.instructions \in Nat
       /\ start_cycle \in Nat /\ entered.cycles <= start_cycle
       /\ start_instret \in Nat /\ entered.instructions <= start_instret
       /\ start_instret + inner.instructions <= minstret
  /\ pc = "stop_cycle" => start_cycle + inner.cycles <= mcycle
  /\ pc = "stop_instret" => stop_cycle \in start_cycle + inner.cycles .. mcycle

\* What has been measured holds the iterations and fits in the call.
Measured ==
  pc \in {"measured", "judge", "print"} =>
    /\ inner.cycles \in Nat /\ inner.instructions \in Nat
    /\ Cycles \in Nat /\ outer.cycles \in Nat
    /\ Instructions \in Nat /\ outer.instructions \in Nat
    /\ inner.cycles <= Cycles /\ Cycles <= outer.cycles
    /\ inner.instructions <= Instructions
    /\ Instructions <= outer.instructions

\* The least value a counter read may return.
Floor ==
  CASE pc = "start_instret" -> entered.instructions
    [] pc = "start_cycle"   -> entered.cycles
    [] pc = "stop_cycle"    -> start_cycle + inner.cycles
    [] OTHER                -> start_instret + inner.instructions

\* The halves that read_counter holds are those of two moments of its pass,
\* and the cycles were measured before the last pass began.
ReaderInv ==
  /\ part \in {"high", "low", "again"}
  /\ pc \notin {"halted"} \cup (Timed \ {"iterate"}) => part = "high"
  /\ pc = "stop_instret" /\ part # "high" =>
       outer.cycles \in Nat /\ Cycles <= outer.cycles
  /\ ReadingCounter /\ part = "low" =>
       \E t \in Floor .. Counter : high_before = Hi(t)
  /\ ReadingCounter /\ part = "again" =>
       \E t \in Floor .. Counter :
         \E u \in t .. Counter : high_before = Hi(t) /\ low = Lo(u)

Texts == {"parameters", "ERROR", "Total ticks", "Iterations", "seedcrc",
          "crclist", "crcmatrix", "crcstate", "crcfinal", "Correct operation",
          "Errors detected", "Cannot validate"}
Words == {"right", "wrong", "any"} \cup Seeds
AnyMessage == [fmt: Texts, arg: Words \cup Int]
Messages(q) == {q[k] : k \in DOMAIN q}

\* The report and the messages still to be printed together say what the
\* run deserves.
ReportInv ==
  /\ DOMAIN report = DOMAIN NoReport /\ report.errors \in Nat
  /\ pc \notin {"print", "halted"} => report.errors = 0
  /\ pc = "judge" =>
       /\ report.cycles_hi * LowSize + report.cycles_lo = Cycles
       /\ report.instructions_hi * LowSize + report.instructions_lo
            = Instructions
  /\ pc = "print" =>
       /\ queue \in Seq(AnyMessage)
       /\ (\/ report.errors > 0
           \/ \E m \in Messages(queue) : m.fmt \in Bad)
          <=> (seed = "unknown" \/ bad # {} \/ Short)
       /\ seed = "expected" /\ bad = {} /\ ~Short =>
            \/ report.valid = 1
            \/ \E m \in Messages(queue) : m.fmt = "Correct operation"
       /\ \/ report.seedcrc = seed
          \/ \E m \in Messages(queue) : m.fmt = "seedcrc"
       /\ \A m \in Messages(queue) : m.fmt = "seedcrc" => m.arg = seed

\* The routines run only before the benchmark does.
LibraryInv ==
  IF pc = "boot" THEN IInv ELSE call.fn = "none" /\ result # Running

Inv == /\ RegionInv
       /\ Measured
       /\ ReaderInv
       /\ ReportInv
       /\ LibraryInv
       /\ pc # "halted" => mailbox = 0
       /\ VerdictIsRight
-----------------------------------------------------------------------------
(* Lemmas about the operators.                                             *)

\* A number is its two halves, and a larger one has no smaller high half.
LEMMA HalfFacts ==
  /\ \A n \in Nat : /\ Hi(n) \in Nat /\ Lo(n) \in Nat
                    /\ n = Hi(n) * LowSize + Lo(n)
  /\ \A m, n \in Nat : m <= n => Hi(m) <= Hi(n)
<1>1. LowSize \in Nat \ {0}
  BY CounterAssumption
<1>2. ASSUME NEW n \in Nat
      PROVE  /\ Hi(n) \in Nat /\ Lo(n) \in 0 .. LowSize - 1
             /\ n = Hi(n) * LowSize + Lo(n)
  BY <1>1 DEF Hi, Lo
<1>3. ASSUME NEW m \in Nat, NEW n \in Nat, m <= n PROVE Hi(m) <= Hi(n)
  BY <1>1, <1>3 DEF Hi
<1> QED BY <1>2, <1>3

\* Two halves of different moments make the number of the second if the high
\* half was the same before and after.
LEMMA Untorn ==
  ASSUME NEW t \in Nat, NEW u \in Nat, NEW n \in Nat,
         t <= u, u <= n, Hi(n) = Hi(t)
  PROVE  Hi(t) * LowSize + Lo(u) = u
<1>1. Hi(t) <= Hi(u) /\ Hi(u) <= Hi(n) /\ Hi(u) \in Nat /\ Hi(t) \in Nat
  BY HalfFacts
<1>2. Hi(u) = Hi(t)
  BY <1>1
<1> QED BY <1>2, HalfFacts

\* The status of a failure is neither that of a pass nor none.
LEMMA FailureStatus ==
  ASSUME NEW code \in Nat
  PROVE  Status(code) \notin {0, PASS}
<1>1. WordSize \in Nat \ {0}
  BY WordAssumption
<1>2. (2 * code) % WordSize \in Nat
  BY <1>1
<1> QED BY <1>2 DEF Status, PASS

\* The messages of a sequence put together.
LEMMA MessagesOf ==
  ASSUME NEW M, NEW s \in Seq(M), NEW t \in Seq(M)
  PROVE  Messages(s \o t) = Messages(s) \cup Messages(t)
<1>1. /\ Len(s \o t) = Len(s) + Len(t)
      /\ \A k \in 1 .. Len(s) + Len(t) :
           (s \o t)[k] = IF k <= Len(s) THEN s[k] ELSE t[k - Len(s)]
  BY ConcatProperties
<1>2. Len(s) \in Nat /\ Len(t) \in Nat
  BY LenProperties
<1>3. /\ DOMAIN s = 1 .. Len(s) /\ DOMAIN t = 1 .. Len(t)
      /\ DOMAIN (s \o t) = 1 .. Len(s) + Len(t)
  BY <1>1, LenProperties, ConcatProperties
<1>4. ASSUME NEW m \in Messages(s \o t)
      PROVE  m \in Messages(s) \cup Messages(t)
  <2>1. PICK k \in 1 .. Len(s) + Len(t) : m = (s \o t)[k]
    BY <1>3 DEF Messages
  <2>2. CASE k <= Len(s)
    <3>1. k \in DOMAIN s /\ m = s[k]
      BY <2>1, <2>2, <1>1, <1>2, <1>3
    <3> QED BY <3>1 DEF Messages
  <2>3. CASE ~(k <= Len(s))
    <3>1. k - Len(s) \in DOMAIN t /\ m = t[k - Len(s)]
      BY <2>1, <2>3, <1>1, <1>2, <1>3
    <3> QED BY <3>1 DEF Messages
  <2> QED BY <2>2, <2>3
<1>5. ASSUME NEW m \in Messages(s) PROVE m \in Messages(s \o t)
  <2>1. PICK k \in DOMAIN s : m = s[k]
    BY DEF Messages
  <2>2. k \in DOMAIN (s \o t) /\ m = (s \o t)[k]
    BY <2>1, <1>1, <1>2, <1>3
  <2> QED BY <2>2 DEF Messages
<1>6. ASSUME NEW m \in Messages(t) PROVE m \in Messages(s \o t)
  <2>1. PICK k \in DOMAIN t : m = t[k]
    BY DEF Messages
  <2>2. /\ k + Len(s) \in DOMAIN (s \o t)
        /\ ~(k + Len(s) <= Len(s)) /\ (k + Len(s)) - Len(s) = k
    BY <2>1, <1>2, <1>3
  <2>3. m = (s \o t)[k + Len(s)]
    BY <2>1, <2>2, <1>1, <1>3
  <2> QED BY <2>2, <2>3 DEF Messages
<1> QED BY <1>4, <1>5, <1>6

\* A conditional message.
LEMMA WhenFacts ==
  ASSUME NEW M, NEW m \in M, NEW p \in BOOLEAN
  PROVE  When(p, m) \in Seq(M) /\ Messages(When(p, m)) = IF p THEN {m} ELSE {}
BY DEF When, Messages

\* Printing a message leaves the others.
LEMMA PrintedOne ==
  ASSUME NEW M, NEW q \in Seq(M), q # <<>>
  PROVE  /\ Tail(q) \in Seq(M)
         /\ Messages(q) = {Head(q)} \cup Messages(Tail(q))
<1>1. /\ Len(q) \in Nat \ {0} /\ DOMAIN q = 1 .. Len(q) /\ Head(q) = q[1]
      /\ Tail(q) \in Seq(M) /\ Len(Tail(q)) = Len(q) - 1
      /\ \A k \in 1 .. Len(Tail(q)) : Tail(q)[k] = q[k + 1]
  BY EmptySeq, LenProperties, HeadTailProperties
<1>2. DOMAIN Tail(q) = 1 .. Len(q) - 1
  BY <1>1, LenProperties
<1>4. ASSUME NEW m \in Messages(q) PROVE m \in {Head(q)} \cup Messages(Tail(q))
  <2>1. PICK k \in 1 .. Len(q) : m = q[k]
    BY <1>1 DEF Messages
  <2>2. CASE k = 1
    BY <2>1, <2>2, <1>1
  <2>3. CASE k # 1
    <3>1. k - 1 \in DOMAIN Tail(q) /\ m = Tail(q)[k - 1]
      BY <2>1, <2>3, <1>1, <1>2
    <3> QED BY <3>1 DEF Messages
  <2> QED BY <2>2, <2>3
<1>5. ASSUME NEW m \in Messages(Tail(q)) PROVE m \in Messages(q)
  <2>1. PICK k \in 1 .. Len(q) - 1 : m = Tail(q)[k]
    BY <1>2 DEF Messages
  <2>2. k + 1 \in DOMAIN q /\ m = q[k + 1]
    BY <2>1, <1>1
  <2> QED BY <2>2 DEF Messages
<1>6. Head(q) \in Messages(q)
  BY <1>1 DEF Messages
<1> QED BY <1>1, <1>4, <1>5, <1>6
-----------------------------------------------------------------------------
(* The timed region.                                                       *)

\* What a read may return is not beyond the counter.
LEMMA FloorFacts ==
  ASSUME RegionInv, ReadingCounter
  PROVE  Floor \in Nat /\ Counter \in Nat /\ Floor <= Counter
BY DEF RegionInv, ReadingCounter, Timed, Floor, Counter

\* The counters run on and nothing else happens to the region.
LEMMA TimePasses ==
  ASSUME RegionInv, Measured, pc \in Timed,
         UNCHANGED <<pc, statics, entered, inner>>,
         mcycle' = mcycle + 1, minstret' \in {minstret, minstret + 1}
  PROVE  /\ RegionInv' /\ Measured'
         /\ ReadingCounter' = ReadingCounter /\ Floor' = Floor
         /\ ReadingCounter => Counter' \in Nat /\ Counter <= Counter'
<1>1. /\ mcycle \in Nat /\ minstret \in Nat
      /\ mcycle' \in Nat /\ minstret' \in Nat
      /\ mcycle <= mcycle' /\ minstret <= minstret'
  BY DEF RegionInv
<1>2. /\ entered' = entered /\ inner' = inner
      /\ start_cycle' = start_cycle /\ stop_cycle' = stop_cycle
      /\ start_instret' = start_instret /\ stop_instret' = stop_instret
      /\ pc' = pc
  BY DEF statics
<1>3. RegionInv'
  BY <1>1, <1>2 DEF RegionInv, Timed
<1>4. Measured'
  BY <1>2 DEF Measured, Timed
<1>5. ReadingCounter' = ReadingCounter /\ Floor' = Floor
  BY <1>2 DEF ReadingCounter, Timed, Floor
<1>6. ReadingCounter => Counter' \in Nat /\ Counter <= Counter'
  BY <1>1, <1>2 DEF Counter
<1> QED BY <1>3, <1>4, <1>5, <1>6

\* The end of the program, the report and the routines during the region.
Rest == <<report, seed, bad, queue, mailbox, routine>>

\* What is not measured is as it was.
LEMMA RestKept ==
  ASSUME Inv, pc \in Timed, pc' \in Timed \cup {"measured"}, UNCHANGED Rest
  PROVE  ReportInv' /\ LibraryInv' /\ mailbox' = 0 /\ VerdictIsRight'
<1>1. pc # "boot" /\ pc # "halted" /\ pc' # "boot" /\ mailbox' = 0
  BY DEF Inv, Rest, Timed
<1>2. ReportInv'
  BY DEF Inv, ReportInv, Rest, Timed
<1>3. LibraryInv'
  BY <1>1 DEF Inv, LibraryInv, Rest, routine, Running
<1>4. VerdictIsRight'
  BY <1>1 DEF VerdictIsRight, PASS
<1> QED BY <1>1, <1>2, <1>3, <1>4

\* A clock of anything but a counter read.
LEMMA OtherClockStep ==
  ASSUME Inv, OtherClock
  PROVE  Inv'
<1>1. /\ pc \in Timed /\ mcycle' = mcycle + 1
      /\ minstret' \in {minstret, minstret + 1}
      /\ UNCHANGED <<pc, statics, entered, inner, outer, part, high_before,
                     low>>
      /\ UNCHANGED Rest
  BY DEF OtherClock, reader, Rest, outcome, history
<1>2. /\ RegionInv' /\ Measured'
      /\ ReadingCounter' = ReadingCounter /\ Floor' = Floor
      /\ ReadingCounter => Counter' \in Nat /\ Counter <= Counter'
  BY <1>1, TimePasses DEF Inv
<1>3. /\ ReadingCounter => Floor \in Nat /\ Counter \in Nat
  BY FloorFacts DEF Inv
<1>4. ReaderInv'
  BY <1>1, <1>2, <1>3 DEF Inv, ReaderInv, Cycles, statics
<1>5. ReportInv' /\ LibraryInv' /\ mailbox' = 0 /\ VerdictIsRight'
  BY <1>1, RestKept
<1> QED BY <1>2, <1>4, <1>5 DEF Inv

\* The first two reads of a pass.
LEMMA ReadHalfStep ==
  ASSUME Inv, ReadHigh \/ ReadLow
  PROVE  Inv'
<1>1. /\ pc \in Timed /\ ReadingCounter
      /\ mcycle' = mcycle + 1 /\ minstret' = minstret + 1
      /\ UNCHANGED <<pc, statics, entered, inner>> /\ UNCHANGED Rest
  BY DEF ReadHigh, ReadLow, Retire, ReadingCounter, Rest, outcome, history
<1>2. /\ RegionInv' /\ Measured' /\ ReadingCounter' /\ Floor' = Floor
      /\ Counter' \in Nat /\ Counter <= Counter'
  BY <1>1, TimePasses DEF Inv
<1>3. Floor \in Nat /\ Counter \in Nat /\ Floor <= Counter
  BY <1>1, FloorFacts DEF Inv
<1>4. pc' \notin {"halted"} \cup (Timed \ {"iterate"}) => part' = "high"
  BY <1>1 DEF ReadingCounter
<1>5. ASSUME ReadHigh PROVE ReaderInv'
  <2>1. high_before' = Hi(Counter) /\ part' = "low"
    BY <1>5 DEF ReadHigh
  <2>2. Counter \in Floor' .. Counter'
    BY <1>2, <1>3
  <2>3. pc' = "stop_instret" => outer'.cycles \in Nat /\ Cycles' <= outer'.cycles
    <3>1. SUFFICES ASSUME pc = "stop_instret"
                   PROVE  outer'.cycles \in Nat /\ Cycles' <= outer'.cycles
      BY <1>1
    <3>2. outer'.cycles = mcycle - entered.cycles
      BY <1>5, <3>1 DEF ReadHigh
    <3>3. /\ mcycle \in Nat /\ entered.cycles \in 0 .. mcycle
          /\ start_cycle \in Nat /\ entered.cycles <= start_cycle
          /\ stop_cycle \in Int /\ stop_cycle <= mcycle
      BY <3>1 DEF Inv, RegionInv, Timed
    <3>4. Cycles' = stop_cycle - start_cycle
      BY <1>1 DEF Cycles, statics
    <3> QED BY <3>2, <3>3, <3>4
  <2> QED BY <2>1, <2>2, <2>3, <1>4 DEF ReaderInv
<1>6. ASSUME ReadLow PROVE ReaderInv'
  <2>1. /\ part = "low" /\ part' = "again"
        /\ low' = Lo(Counter) /\ high_before' = high_before
        /\ outer' = outer
    BY <1>6 DEF ReadLow, history
  <2>2. PICK t \in Floor .. Counter : high_before = Hi(t)
    BY <2>1, <1>1 DEF Inv, ReaderInv
  <2>3. t \in Floor' .. Counter' /\ Counter \in t .. Counter'
    BY <2>2, <1>2, <1>3
  <2>4. pc' = "stop_instret" => outer'.cycles \in Nat /\ Cycles' <= outer'.cycles
    BY <2>1, <1>1 DEF Inv, ReaderInv, Cycles, statics
  <2> QED BY <2>1, <2>2, <2>3, <2>4, <1>4 DEF ReaderInv
<1>7. ReaderInv'
  BY <1>5, <1>6
<1>8. ReportInv' /\ LibraryInv' /\ mailbox' = 0 /\ VerdictIsRight'
  BY <1>1, RestKept
<1> QED BY <1>2, <1>7, <1>8 DEF Inv

\* The third read ends the call if no carry came between the halves; what it
\* returns is then the counter's value at the second read.
LEMMA ReadAgainStep ==
  ASSUME Inv, ReadAgain
  PROVE  Inv'
<1> DEFINE value == high_before * LowSize + low
<1>1. /\ pc \in Timed /\ ReadingCounter /\ part = "again"
      /\ mcycle' = mcycle + 1 /\ minstret' = minstret + 1 /\ part' = "high"
      /\ pc' \in Timed \cup {"measured"} /\ UNCHANGED Rest
  BY DEF ReadAgain, Retire, ReadingCounter, Timed, Rest, outcome
<1>2. ReportInv' /\ LibraryInv' /\ mailbox' = 0 /\ VerdictIsRight'
  BY <1>1, RestKept
<1>3. ReaderInv'
  BY <1>1 DEF ReaderInv
<1>4. CASE ~Agrees
  <2>1. UNCHANGED <<pc, statics, entered, inner>>
    BY <1>4 DEF ReadAgain, history
  <2> QED BY <2>1, <1>1, <1>2, <1>3, TimePasses DEF Inv
<1>5. CASE Agrees
  <2>1. Floor \in Nat /\ Counter \in Nat
    BY <1>1, FloorFacts DEF Inv
  <2>2. PICK t \in Floor .. Counter :
          \E u \in t .. Counter : high_before = Hi(t) /\ low = Lo(u)
    BY <1>1 DEF Inv, ReaderInv
  <2>3. PICK u \in t .. Counter : high_before = Hi(t) /\ low = Lo(u)
    BY <2>2
  <2>4. value = u
    BY <2>1, <2>3, <1>5, Untorn DEF Agrees
  <2>5. value \in Floor .. Counter
    BY <2>1, <2>3, <2>4
  <2>6. /\ mcycle \in Nat /\ minstret \in Nat
        /\ entered.cycles \in 0 .. mcycle
        /\ entered.instructions \in 0 .. minstret
    BY <1>1 DEF Inv, RegionInv
  <2>7. CASE pc = "start_instret"
    <3>1. /\ pc' = "start_cycle" /\ start_instret' = value
          /\ entered'.cycles = mcycle'
          /\ entered'.instructions = entered.instructions
      BY <1>5, <2>7 DEF ReadAgain, Count
    <3>2. value \in entered.instructions .. minstret
      BY <2>5, <2>7 DEF Floor, Counter
    <3>3. RegionInv' /\ Measured'
      BY <3>1, <3>2, <2>6, <1>1 DEF RegionInv, Measured, Timed
    <3> QED BY <3>3, <1>2, <1>3 DEF Inv
  <2>8. CASE pc = "start_cycle"
    <3>1. /\ pc' = "iterate" /\ start_cycle' = value
          /\ entered' = entered /\ start_instret' = start_instret
      BY <1>5, <2>8 DEF ReadAgain, history
    <3>2. value \in entered.cycles .. mcycle
      BY <2>5, <2>8 DEF Floor, Counter
    <3>3. start_instret \in entered.instructions .. minstret
      BY <2>8 DEF Inv, RegionInv
    <3>4. RegionInv' /\ Measured'
      BY <3>1, <3>2, <3>3, <2>6, <1>1 DEF RegionInv, Measured, Timed
    <3> QED BY <3>4, <1>2, <1>3 DEF Inv
  <2>9. CASE pc = "stop_cycle"
    <3>1. /\ pc' = "stop_instret" /\ stop_cycle' = value
          /\ entered' = entered /\ inner' = inner
          /\ start_instret' = start_instret /\ start_cycle' = start_cycle
      BY <1>5, <2>9 DEF ReadAgain, history
    <3>2. value \in start_cycle + inner.cycles .. mcycle
      BY <2>5, <2>9 DEF Floor, Counter
    <3>3. /\ inner.cycles \in Nat /\ inner.instructions \in Nat
          /\ start_cycle \in Nat /\ entered.cycles <= start_cycle
          /\ start_instret \in Nat /\ entered.instructions <= start_instret
          /\ start_instret + inner.instructions <= minstret
      BY <2>9 DEF Inv, RegionInv
    <3>4. RegionInv' /\ Measured'
      BY <3>1, <3>2, <3>3, <2>6, <1>1 DEF RegionInv, Measured, Timed
    <3> QED BY <3>4, <1>2, <1>3 DEF Inv
  <2>10. CASE pc = "stop_instret"
    <3>1. /\ pc' = "measured" /\ stop_instret' = value
          /\ outer'.cycles = outer.cycles
          /\ outer'.instructions = minstret' - entered.instructions
          /\ inner' = inner
          /\ start_instret' = start_instret /\ start_cycle' = start_cycle
          /\ stop_cycle' = stop_cycle
      BY <1>5, <2>10 DEF ReadAgain
    <3>2. value \in start_instret + inner.instructions .. minstret
      BY <2>5, <2>10 DEF Floor, Counter
    <3>3. /\ inner.cycles \in Nat /\ inner.instructions \in Nat
          /\ start_cycle \in Nat /\ entered.cycles <= start_cycle
          /\ start_instret \in Nat /\ entered.instructions <= start_instret
          /\ stop_cycle \in start_cycle + inner.cycles .. mcycle
      BY <2>10 DEF Inv, RegionInv
    <3>4. /\ outer'.cycles \in Nat /\ Cycles <= outer'.cycles
          /\ outer'.instructions = (minstret + 1) - entered.instructions
      BY <3>1, <1>1, <2>10 DEF Inv, ReaderInv
    <3>5. /\ Cycles' = Cycles /\ Cycles = stop_cycle - start_cycle
          /\ Instructions' = value - start_instret
      BY <3>1 DEF Cycles, Instructions
    <3>6. Measured'
      BY <3>1, <3>2, <3>3, <3>4, <3>5, <2>6 DEF Measured
    <3>7. RegionInv'
      BY <3>1, <2>6, <1>1 DEF RegionInv, Timed
    <3> QED BY <3>6, <3>7, <1>2, <1>3 DEF Inv
  <2> QED BY <2>7, <2>8, <2>9, <2>10, <1>1 DEF ReadingCounter, Timed
<1> QED BY <1>4, <1>5
\* start_time is called; the counters are as they are.
LEMMA StartStep ==
  ASSUME Inv, StartRun
  PROVE  Inv'
<1>1. /\ pc = "run" /\ pc' = "start_instret" /\ entered' = Count
      /\ UNCHANGED <<mcycle, minstret, part, report, mailbox, routine>>
  BY DEF StartRun, counters, reader
<1>2. mcycle \in Nat /\ minstret \in Nat /\ part = "high"
  BY <1>1 DEF Inv, RegionInv, ReaderInv, Timed
<1>3. RegionInv' /\ Measured' /\ ReaderInv'
  BY <1>1, <1>2 DEF RegionInv, Measured, ReaderInv, Timed, Count
<1>4. ReportInv' /\ LibraryInv' /\ mailbox' = 0
  BY <1>1 DEF Inv, ReportInv, LibraryInv, routine, Running
<1> QED BY <1>3, <1>4 DEF Inv, VerdictIsRight, PASS

\* The iterations take their cycles; none of the reads is under way.
LEMMA IterateStep ==
  ASSUME Inv, NEW cycles \in RunTimes, Iterate(cycles)
  PROVE  Inv'
<1>1. /\ pc = "iterate" /\ pc' = "stop_cycle"
      /\ inner' = [cycles |-> cycles, instructions |-> (cycles + 1) \div 2]
      /\ mcycle' = mcycle + cycles
      /\ minstret' = minstret + inner'.instructions
      /\ UNCHANGED <<start_cycle, start_instret, entered, part, report,
                     mailbox, routine>>
  BY DEF Iterate, statics, reader
<1>2. /\ mcycle \in Nat /\ minstret \in Nat /\ part = "high"
      /\ entered.cycles \in 0 .. mcycle /\ entered.instructions \in 0 .. minstret
      /\ start_instret \in entered.instructions .. minstret
      /\ start_cycle \in entered.cycles .. mcycle
  BY <1>1 DEF Inv, RegionInv, ReaderInv, Timed
<1>3. cycles \in Nat
  BY RunAssumption
<1>4. inner'.cycles = cycles /\ inner'.instructions \in Nat
  BY <1>1, <1>3
<1>5. /\ mcycle' \in Nat /\ minstret' \in Nat
      /\ start_cycle + inner'.cycles <= mcycle'
      /\ start_instret + inner'.instructions <= minstret'
      /\ entered.cycles \in 0 .. mcycle'
      /\ entered.instructions \in 0 .. minstret'
  BY <1>1, <1>2, <1>3, <1>4
<1>6. RegionInv' /\ Measured' /\ ReaderInv'
  BY <1>1, <1>2, <1>3, <1>4, <1>5 DEF RegionInv, Measured, ReaderInv, Timed
<1>7. ReportInv' /\ LibraryInv' /\ mailbox' = 0
  BY <1>1 DEF Inv, ReportInv, LibraryInv, routine, Running
<1> QED BY <1>6, <1>7 DEF Inv, VerdictIsRight, PASS

\* Nothing of the measured region changes any more.
LEMMA MeasuredKept ==
  ASSUME Inv, pc \in {"measured", "judge", "print"}, pc' \in {"judge", "print"},
         UNCHANGED <<counters, statics, reader, inner, outer>>
  PROVE  /\ RegionInv' /\ Measured' /\ ReaderInv'
         /\ Cycles' = Cycles /\ Instructions' = Instructions
         /\ get_time' = get_time /\ Short' = Short
<1>1. /\ Cycles' = Cycles /\ Instructions' = Instructions
      /\ UNCHANGED <<mcycle, minstret, part, inner, outer>>
  BY DEF Cycles, Instructions, statics, counters, reader
<1>2. RegionInv' /\ Measured' /\ ReaderInv'
  BY <1>1 DEF Inv, RegionInv, Measured, ReaderInv, Timed
<1> QED BY <1>1, <1>2 DEF get_time, Short, time_in_secs

\* The report gets both halves of both differences.
LEMMA ReportTimesStep ==
  ASSUME Inv, ReportTimes
  PROVE  Inv'
<1>1. /\ pc = "measured" /\ pc' = "judge"
      /\ UNCHANGED <<counters, statics, reader, inner, outer, mailbox, routine>>
  BY DEF ReportTimes, history
<1>2. /\ RegionInv' /\ Measured' /\ ReaderInv'
      /\ Cycles' = Cycles /\ Instructions' = Instructions
  BY <1>1, MeasuredKept
<1>3. Cycles \in Nat /\ Instructions \in Nat
  BY <1>1 DEF Inv, Measured
<1>4. /\ DOMAIN report' = DOMAIN NoReport /\ report'.errors = report.errors
      /\ report'.cycles_lo = Lo(Cycles) /\ report'.cycles_hi = Hi(Cycles)
      /\ report'.instructions_lo = Lo(Instructions)
      /\ report'.instructions_hi = Hi(Instructions)
  BY DEF ReportTimes, Inv, ReportInv, NoReport
<1>5. ReportInv'
  BY <1>1, <1>2, <1>3, <1>4, HalfFacts DEF Inv, ReportInv
<1>6. LibraryInv' /\ mailbox' = 0
  BY <1>1 DEF Inv, LibraryInv, routine, Running
<1> QED BY <1>1, <1>2, <1>5, <1>6 DEF Inv, VerdictIsRight, PASS

\* The next run starts over.
LEMMA CalibrateStep ==
  ASSUME Inv, Calibrate
  PROVE  Inv'
<1>1. /\ pc = "judge" /\ pc' = "run"
      /\ UNCHANGED <<mcycle, minstret, part, report, mailbox, routine>>
  BY DEF Calibrate, counters, reader
<1>2. RegionInv' /\ Measured' /\ ReaderInv'
  BY <1>1 DEF Inv, RegionInv, Measured, ReaderInv, Timed
<1>3. ReportInv' /\ LibraryInv' /\ mailbox' = 0
  BY <1>1 DEF Inv, ReportInv, LibraryInv, routine, Running
<1> QED BY <1>1, <1>2, <1>3 DEF Inv, VerdictIsRight, PASS

\* A routine runs on the memory.
LEMMA LibraryStep ==
  ASSUME Inv, LibraryCall
  PROVE  Inv'
<1>1. /\ pc = "boot" /\ pc' = "boot" /\ RoutineNext /\ IInv
      /\ UNCHANGED <<counters, statics, reader, report, outcome, mailbox,
                     history>>
  BY DEF LibraryCall, Inv, LibraryInv
<1>2. IInv'
  BY <1>1, RoutineStepKeeps
<1>3. RegionInv' /\ Measured' /\ ReaderInv'
  BY <1>1
     DEF Inv, RegionInv, Measured, ReaderInv, Timed, counters, reader
<1>4. ReportInv' /\ mailbox' = 0
  BY <1>1 DEF Inv, ReportInv
<1> QED BY <1>1, <1>2, <1>3, <1>4 DEF Inv, LibraryInv, VerdictIsRight, PASS

\* The types core_portme.h declares are those the benchmark needs.
LEMMA TypesAreRight == TypesFit /\ check_data_types = 0
<1>1. WrongTypes = {}
  BY DEF WrongTypes, TypeSize, NeededSize
<1> QED BY <1>1, FS_EmptySet DEF TypesFit, check_data_types

\* main of the benchmark starts.
LEMMA PortableInitStep ==
  ASSUME Inv, NEW run_type, portable_init(run_type)
  PROVE  Inv'
<1>1. /\ pc = "boot" /\ pc' = "run"
      /\ mcycle' \in 0 .. LowSize - 1 /\ minstret' \in 0 .. mcycle'
      /\ part' = part /\ mailbox' = mailbox
      /\ report' = [NoReport EXCEPT !.run_type = run_type,
                                    !.errors = IF TypesFit THEN 0 ELSE 1]
      /\ call' = NoCall /\ result' = 0
  BY DEF portable_init, reader, Forget
<1>2. LowSize \in Nat
  BY CounterAssumption
<1>3. RegionInv' /\ Measured' /\ ReaderInv'
  BY <1>1, <1>2 DEF Inv, RegionInv, Measured, ReaderInv, Timed
<1>4. DOMAIN report' = DOMAIN NoReport /\ report'.errors = 0
  BY <1>1, TypesAreRight DEF NoReport
<1>5. ReportInv'
  BY <1>1, <1>4 DEF ReportInv
<1>6. LibraryInv' /\ mailbox' = 0
  BY <1>1 DEF Inv, LibraryInv, NoCall, Running
<1> QED BY <1>1, <1>3, <1>5, <1>6 DEF Inv, VerdictIsRight, PASS
-----------------------------------------------------------------------------
(* The verdict.                                                            *)

\* Ticks that make a run long enough are not more than the cycles it took.
LEMMA LongEnough ==
  ASSUME Inv, pc = "print", ~Short
  PROVE  outer.cycles >= MinSecs * ClockHz
<1>1. /\ LowSize \in Nat \ {0} /\ ClockHz \in Nat \ {0} /\ MinSecs \in Nat
      /\ Cycles \in Nat /\ outer.cycles \in Nat /\ Cycles <= outer.cycles
  BY CounterAssumption, RunAssumption DEF Inv, Measured
<1>2. get_time \in Nat /\ get_time <= Cycles
  <2>1. \A n \in Nat : n % LowSize \in Nat /\ n % LowSize <= n
    <3>1. ASSUME NEW n \in Nat PROVE n % LowSize \in Nat /\ n % LowSize <= n
      <4>1. /\ Hi(n) \in Nat /\ Lo(n) \in Nat /\ n = Hi(n) * LowSize + Lo(n)
        BY HalfFacts
      <4>2. Hi(n) * LowSize \in Nat
        BY <4>1, <1>1
      <4> QED BY <4>1, <4>2 DEF Lo
    <3> QED BY <3>1
  <2> QED BY <2>1, <1>1 DEF get_time
<1>3. get_time \div ClockHz >= MinSecs /\ get_time \div ClockHz \in Nat
  BY <1>1, <1>2 DEF Short, time_in_secs
<1>4. (get_time \div ClockHz) * ClockHz <= get_time
  BY <1>1, <1>2
<1>5. MinSecs * ClockHz <= (get_time \div ClockHz) * ClockHz
  <2>1. \A a, b, c \in Nat : a <= b => a * c <= b * c
    OBVIOUS
  <2> QED BY <2>1, <1>1, <1>3
<1> QED BY <1>1, <1>2, <1>3, <1>4, <1>5
\* The sequence of two has the messages of both.
LEMMA MessagesOfBoth ==
  ASSUME NEW M
  PROVE  \A s, t \in Seq(M) :
           /\ s \o t \in Seq(M)
           /\ Messages(s \o t) = Messages(s) \cup Messages(t)
BY MessagesOf, ConcatProperties

\* The number of errors is that of a good run only for a good run.
LEMMA ErrorsFacts ==
  ASSUME NEW s \in Seeds, NEW b \in Outcomes
  PROVE  /\ Errors(s, b) \in Int
         /\ s # "unknown" /\ b = {} /\ ~Short => Errors(s, b) = 0
         /\ s = "unknown" /\ ~Short => Errors(s, b) < 0
<1>1. IsFiniteSet(b)
  <2>1. IsFiniteSet({}) /\ IsFiniteSet({"crclist"})
    BY FS_EmptySet, FS_Singleton
  <2>2. IsFiniteSet({"crclist"} \cup {"crcmatrix"})
    BY <2>1, FS_AddElement
  <2>3. IsFiniteSet(({"crclist"} \cup {"crcmatrix"}) \cup {"crcstate"})
    BY <2>2, FS_AddElement
  <2>4. Algorithms = ({"crclist"} \cup {"crcmatrix"}) \cup {"crcstate"}
    BY DEF Algorithms
  <2> QED BY <2>1, <2>3, <2>4 DEF Outcomes
<1>2. Cardinality(b) \in Nat /\ Cardinality({}) = 0
  BY <1>1, FS_CardinalityType, FS_EmptySet
<1> QED BY <1>2, TypesAreRight DEF Errors

\* core_main.c prints an error exactly for a run that does not deserve its
\* success, says so of one that does, and names the seeds.
LEMMA PrintsFacts ==
  ASSUME NEW s \in Seeds, NEW b \in Outcomes, get_time \in Int
  PROVE  LET P == Messages(Prints(s, b)) IN
         /\ Prints(s, b) \in Seq(AnyMessage)
         /\ (\E m \in P : m.fmt \in Bad) <=> (s = "unknown" \/ b # {} \/ Short)
         /\ s = "expected" /\ b = {} /\ ~Short =>
              \E m \in P : m.fmt = "Correct operation"
         /\ \E m \in P : m.fmt = "seedcrc"
         /\ \A m \in P : m.fmt = "seedcrc" => m.arg = s
<1> DEFINE M == AnyMessage
           P == Messages(Prints(s, b))
           e == Errors(s, b)
           known == s # "unknown"
           parameters == Message("parameters", 0)
           error == Message("ERROR", 0)
           ticks == Message("Total ticks", get_time)
           iterations == Message("Iterations", 1)
           seedcrc == Message("seedcrc", s)
           list == Message("crclist", Checksum("crclist", b))
           matrix == Message("crcmatrix", Checksum("crcmatrix", b))
           state == Message("crcstate", Checksum("crcstate", b))
           final == Message("crcfinal", "any")
           correct == Message("Correct operation", 0)
           detected == Message("Errors detected", 0)
           cannot == Message("Cannot validate", 0)
<1>1. {parameters, error, ticks, iterations, seedcrc, list, matrix, state,
       final, correct, detected, cannot} \subseteq M
  <2>1. \A f \in Texts : \A a \in Words \cup Int : Message(f, a) \in M
    BY DEF Message, AnyMessage
  <2>2. {s, "any", 0, 1, get_time} \subseteq Words \cup Int
    BY DEF Words
  <2>3. {Checksum("crclist", b), Checksum("crcmatrix", b),
         Checksum("crcstate", b)} \subseteq Words \cup Int
    BY DEF Checksum, Words
  <2> HIDE DEF M
  <2>4. \A a \in Words \cup Int :
          /\ Message("parameters", a) \in M /\ Message("ERROR", a) \in M
          /\ Message("Total ticks", a) \in M /\ Message("Iterations", a) \in M
          /\ Message("seedcrc", a) \in M /\ Message("crclist", a) \in M
          /\ Message("crcmatrix", a) \in M /\ Message("crcstate", a) \in M
          /\ Message("crcfinal", a) \in M
          /\ Message("Correct operation", a) \in M
          /\ Message("Errors detected", a) \in M
          /\ Message("Cannot validate", a) \in M
    BY <2>1 DEF Texts
  <2> QED BY <2>2, <2>3, <2>4
<1>2. /\ e \in Int /\ known \in BOOLEAN /\ Short \in BOOLEAN
      /\ (e > 0) \in BOOLEAN /\ (e < 0) \in BOOLEAN /\ (e = 0) \in BOOLEAN
  BY ErrorsFacts DEF Short
<1> DEFINE s1 == When(known, parameters)
           s2 == When(known /\ "crclist" \in b, error)
           s3 == When(known /\ "crcmatrix" \in b, error)
           s4 == When(known /\ "crcstate" \in b, error)
           s0 == TypeErrors
           s5 == <<ticks>>
           s6 == When(Short, error)
           s7 == <<iterations, seedcrc, list, matrix, state, final>>
           s8 == When(e = 0, correct)
           s9 == When(e > 0, detected)
           s10 == When(e < 0, cannot)
<1>3. Prints(s, b) =
        s1 \o s2 \o s3 \o s4 \o s0 \o s5 \o s6 \o s7 \o s8 \o s9 \o s10
  BY DEF Prints
<1>4. /\ e = Errors(s, b)
      /\ {parameters.fmt, ticks.fmt, iterations.fmt, list.fmt, matrix.fmt,
          state.fmt, final.fmt} \cap (Bad \cup {"seedcrc"}) = {}
      /\ error.fmt = "ERROR" /\ cannot.fmt = "Cannot validate"
      /\ detected.fmt = "Errors detected"
      /\ correct.fmt = "Correct operation"
      /\ seedcrc.fmt = "seedcrc" /\ seedcrc.arg = s
  BY DEF Message, Bad
<1> HIDE DEF M, e, known, parameters, error, ticks, iterations, seedcrc, list,
             matrix, state, final, correct, detected, cannot
<1>5. /\ s1 \in Seq(M) /\ Messages(s1) = IF known THEN {parameters} ELSE {}
      /\ s2 \in Seq(M)
      /\ Messages(s2) = IF known /\ "crclist" \in b THEN {error} ELSE {}
      /\ s3 \in Seq(M)
      /\ Messages(s3) = IF known /\ "crcmatrix" \in b THEN {error} ELSE {}
      /\ s4 \in Seq(M)
      /\ Messages(s4) = IF known /\ "crcstate" \in b THEN {error} ELSE {}
      /\ s6 \in Seq(M) /\ Messages(s6) = IF Short THEN {error} ELSE {}
      /\ s8 \in Seq(M) /\ Messages(s8) = IF e = 0 THEN {correct} ELSE {}
      /\ s9 \in Seq(M) /\ Messages(s9) = IF e > 0 THEN {detected} ELSE {}
      /\ s10 \in Seq(M) /\ Messages(s10) = IF e < 0 THEN {cannot} ELSE {}
  <2>1. \A m \in M : \A p \in BOOLEAN :
          /\ When(p, m) \in Seq(M)
          /\ Messages(When(p, m)) = IF p THEN {m} ELSE {}
    BY WhenFacts
  <2>2. /\ (known /\ "crclist" \in b) \in BOOLEAN
        /\ (known /\ "crcmatrix" \in b) \in BOOLEAN
        /\ (known /\ "crcstate" \in b) \in BOOLEAN
    OBVIOUS
  <2> QED BY <1>1, <1>2, <2>1, <2>2
<1>6. /\ s0 \in Seq(M) /\ Messages(s0) = {}
      /\ s5 \in Seq(M) /\ Messages(s5) = {ticks}
      /\ s7 \in Seq(M)
      /\ Messages(s7) = {iterations, seedcrc, list, matrix, state, final}
  <2>1. DOMAIN s7 = {1, 2, 3, 4, 5, 6} /\ DOMAIN s5 = {1}
    OBVIOUS
  <2>2. s5 \in Seq(M) /\ s7 \in Seq(M)
    BY <1>1
  <2>3. Messages(s7) = {iterations, seedcrc, list, matrix, state, final}
    BY <2>1 DEF Messages
  <2>4. Messages(s5) = {ticks}
    BY <2>1 DEF Messages
  <2>5. s0 = <<>>
    BY TypesAreRight DEF TypeErrors
  <2>6. s0 \in Seq(M) /\ Messages(s0) = {}
    BY <2>5 DEF Messages
  <2> QED BY <2>2, <2>3, <2>4, <2>6
<1> HIDE DEF s0, s1, s2, s3, s4, s5, s6, s7, s8, s9, s10
<1> DEFINE q2 == s1 \o s2  q3 == q2 \o s3  q4 == q3 \o s4  q0 == q4 \o s0  q5 == q0 \o s5
           q6 == q5 \o s6  q7 == q6 \o s7  q8 == q7 \o s8  q9 == q8 \o s9
           q10 == q9 \o s10
<1>7. Prints(s, b) = q10
  BY <1>3
<1>8. /\ Prints(s, b) \in Seq(M)
      /\ P = UNION {Messages(s1), Messages(s2), Messages(s3), Messages(s4),
                    Messages(s5), Messages(s6), Messages(s7), Messages(s8),
                    Messages(s9), Messages(s10)}
  <2>2. q2 \in Seq(M) /\ Messages(q2) = Messages(s1) \cup Messages(s2)
    BY <1>5, MessagesOfBoth
  <2> HIDE DEF q2
  <2>3. q3 \in Seq(M) /\ Messages(q3) = Messages(q2) \cup Messages(s3)
    BY <1>5, <2>2, MessagesOfBoth
  <2> HIDE DEF q3
  <2>4. q4 \in Seq(M) /\ Messages(q4) = Messages(q3) \cup Messages(s4)
    BY <1>5, <2>3, MessagesOfBoth
  <2> HIDE DEF q4
  <2>0. q0 \in Seq(M) /\ Messages(q0) = Messages(q4) \cup Messages(s0)
    BY <1>6, <2>4, MessagesOfBoth
  <2> HIDE DEF q0
  <2>5. q5 \in Seq(M) /\ Messages(q5) = Messages(q0) \cup Messages(s5)
    BY <1>6, <2>0, MessagesOfBoth
  <2> HIDE DEF q5
  <2>6. q6 \in Seq(M) /\ Messages(q6) = Messages(q5) \cup Messages(s6)
    BY <1>5, <2>5, MessagesOfBoth
  <2> HIDE DEF q6
  <2>7. q7 \in Seq(M) /\ Messages(q7) = Messages(q6) \cup Messages(s7)
    BY <1>6, <2>6, MessagesOfBoth
  <2> HIDE DEF q7
  <2>8. q8 \in Seq(M) /\ Messages(q8) = Messages(q7) \cup Messages(s8)
    BY <1>5, <2>7, MessagesOfBoth
  <2> HIDE DEF q8
  <2>9. q9 \in Seq(M) /\ Messages(q9) = Messages(q8) \cup Messages(s9)
    BY <1>5, <2>8, MessagesOfBoth
  <2> HIDE DEF q9
  <2>10. q10 \in Seq(M) /\ Messages(q10) = Messages(q9) \cup Messages(s10)
    BY <1>5, <2>9, MessagesOfBoth
  <2> HIDE DEF q10
  <2> QED BY <1>6, <1>7, <2>0, <2>2, <2>3, <2>4, <2>5, <2>6, <2>7, <2>8,
            <2>9, <2>10
<1>9. Prints(s, b) \in Seq(AnyMessage)
  BY <1>8 DEF M
<1> HIDE DEF P
<1>10. ASSUME NEW m \in P
       PROVE  /\ m.fmt = "seedcrc" => m.arg = s
              /\ m.fmt \in Bad =>
                   e > 0 \/ e < 0 \/ Short \/ (known /\ b # {})
  <2>1. CASE m \in {parameters, ticks, iterations, list, matrix, state, final}
    BY <2>1, <1>4
  <2>2. CASE m \in {correct, seedcrc}
    BY <2>2, <1>4 DEF Bad
  <2>3. CASE m = error /\ (Short \/ (known /\ b # {}))
    BY <2>3, <1>4
  <2>4. CASE (m = detected /\ e > 0) \/ (m = cannot /\ e < 0)
    BY <2>4, <1>4
  <2>5. \/ m \in Messages(s1) \cup Messages(s5) \cup Messages(s7)
        \/ m \in Messages(s2) \cup Messages(s3) \cup Messages(s4)
        \/ m \in Messages(s6)
        \/ m \in Messages(s8) \cup Messages(s9) \cup Messages(s10)
    BY <1>8
  <2>6. m \in Messages(s1) \cup Messages(s5) \cup Messages(s7) =>
          m \in {parameters, ticks, iterations, seedcrc, list, matrix, state,
                 final}
    BY <1>5, <1>6
  <2>7. m \in Messages(s2) \cup Messages(s3) \cup Messages(s4) =>
          m = error /\ known /\ b # {}
    BY <1>5
  <2>8. m \in Messages(s6) => m = error /\ Short
    BY <1>5
  <2>9. m \in Messages(s8) \cup Messages(s9) \cup Messages(s10) =>
          m = correct \/ (m = detected /\ e > 0) \/ (m = cannot /\ e < 0)
    BY <1>5
  <2> QED BY <2>1, <2>2, <2>3, <2>4, <2>5, <2>6, <2>7, <2>8, <2>9
<1>11. /\ seedcrc \in P
       /\ e = 0 => correct \in P
       /\ e < 0 => cannot \in P
       /\ Short => error \in P
       /\ known /\ "crclist" \in b => error \in P
  BY <1>5, <1>6, <1>8
<1>12. b # {} => "crclist" \in b
  BY DEF Outcomes, Algorithms
<1>13. error.fmt \in Bad /\ cannot.fmt \in Bad
  BY <1>4 DEF Bad
<1>14. /\ e \in Int
       /\ known /\ b = {} /\ ~Short => e = 0
       /\ ~known /\ ~Short => e < 0
  BY ErrorsFacts DEF e, known
<1>15. (\E m \in P : m.fmt \in Bad) <=> (~known \/ b # {} \/ Short)
  <2>1. (\E m \in P : m.fmt \in Bad) => (~known \/ b # {} \/ Short)
    BY <1>10, <1>14
  <2>2. (~known \/ b # {} \/ Short) => \E m \in P : m.fmt \in Bad
    BY <1>11, <1>12, <1>13, <1>14
  <2> QED BY <2>1, <2>2
<1>16. s = "expected" /\ b = {} /\ ~Short =>
         \E m \in P : m.fmt = "Correct operation"
  BY <1>4, <1>11, <1>14 DEF known
<1>17. /\ \E m \in P : m.fmt = "seedcrc"
       /\ \A m \in P : m.fmt = "seedcrc" => m.arg = s
  BY <1>4, <1>10, <1>11
<1> QED BY <1>9, <1>15, <1>16, <1>17 DEF P, known
\* The report is empty and everything is still to be printed.
LEMMA JudgeStep ==
  ASSUME Inv, Judge
  PROVE  Inv'
<1>1. /\ pc = "judge" /\ pc' = "print"
      /\ seed' \in Seeds /\ bad' \in Outcomes /\ queue' = Prints(seed', bad')
      /\ UNCHANGED <<counters, statics, reader, inner, outer, report, mailbox,
                     routine>>
  BY DEF Judge, history
<1>2. /\ RegionInv' /\ Measured' /\ ReaderInv' /\ Short' = Short
  BY <1>1, MeasuredKept
<1>3. get_time \in Int
  BY <1>1, CounterAssumption DEF get_time, Inv, Measured
<1>4. \A s \in Seeds : \A b \in Outcomes :
        LET P == Messages(Prints(s, b)) IN
        /\ Prints(s, b) \in Seq(AnyMessage)
        /\ (\E m \in P : m.fmt \in Bad) <=> (s = "unknown" \/ b # {} \/ Short)
        /\ s = "expected" /\ b = {} /\ ~Short =>
             \E m \in P : m.fmt = "Correct operation"
        /\ \E m \in P : m.fmt = "seedcrc"
        /\ \A m \in P : m.fmt = "seedcrc" => m.arg = s
  BY <1>3, PrintsFacts
<1>5. /\ queue' \in Seq(AnyMessage)
      /\ (\E m \in Messages(queue') : m.fmt \in Bad)
           <=> (seed' = "unknown" \/ bad' # {} \/ Short)
      /\ seed' = "expected" /\ bad' = {} /\ ~Short =>
           \E m \in Messages(queue') : m.fmt = "Correct operation"
      /\ \E m \in Messages(queue') : m.fmt = "seedcrc"
      /\ \A m \in Messages(queue') : m.fmt = "seedcrc" => m.arg = seed'
  BY <1>1, <1>4
<1>6. /\ DOMAIN report = DOMAIN NoReport /\ report.errors = 0
      /\ report' = report
  BY <1>1 DEF Inv, ReportInv
<1>7. Messages(queue)' = Messages(queue')
  BY DEF Messages
<1>8. ReportInv'
  <2>1. DOMAIN report' = DOMAIN NoReport /\ report'.errors \in Nat
    BY <1>6
  <2>2. /\ (report'.errors > 0 \/ \E m \in Messages(queue') : m.fmt \in Bad)
             <=> (seed' = "unknown" \/ bad' # {} \/ Short)
        /\ seed' = "expected" /\ bad' = {} /\ ~Short =>
             (report'.valid = 1
              \/ \E m \in Messages(queue') : m.fmt = "Correct operation")
    <3>1. ~(report'.errors > 0)
      BY <1>6
    <3> QED BY <1>5, <3>1
  <2> QED BY <1>1, <1>2, <1>5, <2>1, <2>2, <1>7 DEF ReportInv
<1>9. LibraryInv' /\ mailbox' = 0
  BY <1>1 DEF Inv, LibraryInv, routine, Running
<1> QED BY <1>1, <1>2, <1>8, <1>9 DEF Inv, VerdictIsRight, PASS

\* One message goes from the queue to the report.
LEMMA PrintStep ==
  ASSUME Inv, PrintNext
  PROVE  Inv'
<1> DEFINE m == Head(queue)
<1>1. /\ pc = "print" /\ pc' = "print" /\ queue # <<>>
      /\ ee_printf(m) /\ queue' = Tail(queue)
      /\ seed' = seed /\ bad' = bad
      /\ UNCHANGED <<counters, statics, reader, inner, outer, mailbox, routine>>
  BY DEF PrintNext, history
<1>2. RegionInv' /\ Measured' /\ ReaderInv' /\ Short' = Short
  BY <1>1, MeasuredKept
<1>3. ReportInv
  BY DEF Inv
<1>4. /\ DOMAIN report = DOMAIN NoReport /\ report.errors \in Nat
      /\ queue \in Seq(AnyMessage)
  BY <1>1, <1>3 DEF ReportInv
<1>5. /\ queue' \in Seq(AnyMessage)
      /\ Messages(queue) = {m} \cup Messages(queue')
  BY <1>1, <1>4, PrintedOne
<1>6. /\ DOMAIN report' = DOMAIN NoReport
      /\ report'.errors = IF m.fmt \in Bad THEN report.errors + 1
                          ELSE report.errors
      /\ report'.valid = IF m.fmt = "Correct operation" THEN 1
                         ELSE report.valid
      /\ report'.seedcrc = IF m.fmt = "seedcrc" THEN m.arg ELSE report.seedcrc
  <2> HIDE DEF m
  <2> QED BY <1>1, <1>4 DEF ee_printf, NoReport
<1> HIDE DEF m
<1>7. Messages(queue)' = Messages(queue')
  BY DEF Messages
<1>8. (report'.errors > 0 \/ \E k \in Messages(queue') : k.fmt \in Bad)
        <=> (report.errors > 0 \/ \E k \in Messages(queue) : k.fmt \in Bad)
  <2>1. CASE m.fmt \in Bad
    <3>1. report'.errors = report.errors + 1
      BY <2>1, <1>6
    <3>2. report'.errors > 0
      BY <3>1, <1>4
    <3> QED BY <3>2, <2>1, <1>5
  <2>2. CASE m.fmt \notin Bad
    <3>1. report'.errors = report.errors
      BY <2>2, <1>6
    <3> QED BY <3>1, <2>2, <1>5
  <2> QED BY <2>1, <2>2
<1>9. (report.valid = 1 \/ \E k \in Messages(queue) : k.fmt = "Correct operation")
        => (report'.valid = 1
            \/ \E k \in Messages(queue') : k.fmt = "Correct operation")
  BY <1>5, <1>6
<1>10. /\ \/ report'.seedcrc = seed
          \/ \E k \in Messages(queue') : k.fmt = "seedcrc"
       /\ \A k \in Messages(queue') : k.fmt = "seedcrc" => k.arg = seed
  <2>1. /\ \/ report.seedcrc = seed
           \/ \E k \in Messages(queue) : k.fmt = "seedcrc"
        /\ \A k \in Messages(queue) : k.fmt = "seedcrc" => k.arg = seed
    BY <1>1, <1>3 DEF ReportInv
  <2> QED BY <2>1, <1>5, <1>6
<1>11. report'.errors \in Nat
  <2>1. report'.errors \in {report.errors, report.errors + 1}
    BY <1>6
  <2> QED BY <2>1, <1>4
<1>12. /\ (report'.errors > 0 \/ \E k \in Messages(queue') : k.fmt \in Bad)
            <=> (seed = "unknown" \/ bad # {} \/ Short)
       /\ seed = "expected" /\ bad = {} /\ ~Short =>
            (report'.valid = 1
             \/ \E k \in Messages(queue') : k.fmt = "Correct operation")
  BY <1>1, <1>3, <1>8, <1>9 DEF ReportInv
<1>13. ReportInv'
  BY <1>1, <1>2, <1>5, <1>6, <1>7, <1>10, <1>11, <1>12 DEF ReportInv
<1>14. LibraryInv' /\ mailbox' = 0
  BY <1>1 DEF Inv, LibraryInv, routine, Running
<1> QED BY <1>1, <1>2, <1>13, <1>14 DEF Inv, VerdictIsRight, PASS

-----------------------------------------------------------------------------
(* The end of the program.                                                 *)

\* Whatever ends the program leaves only the verdict to be right.
LEMMA FinishStep ==
  ASSUME Inv, pc # "halted", NEW status, NEW how, Finish(status, how)
  PROVE  /\ mailbox' = status /\ ending' = how
         /\ UNCHANGED <<seed, bad, outer, statics>>
         /\ VerdictIsRight' => Inv'
<1>1. /\ pc' = "halted" /\ ending' = how /\ mailbox' = status
      /\ UNCHANGED <<mcycle, minstret, part, report, seed, bad, outer, statics>>
      /\ call' = NoCall /\ result' = 0
  BY DEF Finish, Forget, Inv, Mailed, counters, reader, outcome
<1>2. RegionInv' /\ Measured' /\ ReaderInv' /\ ReportInv'
  BY <1>1
     DEF Inv, RegionInv, Measured, ReaderInv, ReportInv, Timed, ReadingCounter
<1>3. LibraryInv'
  BY <1>1 DEF LibraryInv, NoCall, Running
<1> QED BY <1>1, <1>2, <1>3 DEF Inv

\* main of another program returns: 0 passes and nothing else does.
LEMMA ExitStep ==
  ASSUME Inv, NEW status \in ExitCodes, bm_exit(status)
  PROVE  Inv'
<1>1. pc = "boot" /\ pc # "halted" /\ status \in Nat
  BY CodeAssumption DEF bm_exit
<1> DEFINE how == [by |-> "exit", code |-> status]
<1>2. CASE status = 0
  <2>1. Finish(PASS, how)
    BY <1>2 DEF bm_exit, bm_pass
  <2>2. mailbox' = PASS /\ ending' = how
    BY <2>1, <1>1, FinishStep
  <2>3. VerdictIsRight'
    BY <2>2, <1>2 DEF VerdictIsRight
  <2> QED BY <2>1, <2>3, <1>1, FinishStep
<1>3. CASE status # 0
  <2>1. Finish(Status(status), how)
    BY <1>3 DEF bm_exit, bm_fail
  <2>2. mailbox' = Status(status) /\ ending' = how
    BY <2>1, <1>1, FinishStep
  <2>3. mailbox' \notin {0, PASS} /\ ending'.by = "exit" /\ ending'.code # 0
    BY <2>2, <1>1, <1>3, FailureStatus
  <2>4. VerdictIsRight'
    BY <2>3 DEF VerdictIsRight
  <2> QED BY <2>1, <2>4, <1>1, FinishStep
<1> QED BY <1>2, <1>3

\* A trap fails, whatever its cause.
LEMMA TrapStep ==
  ASSUME Inv, NEW cause \in Causes, bm_trap_handler(cause)
  PROVE  Inv'
<1> DEFINE how == [by |-> "trap", code |-> cause]
           code == 256 + (cause % 32)
<1>1. pc # "halted" /\ Finish(Status(code), how)
  BY DEF bm_trap_handler, bm_fail
<1>2. code \in Nat
  <2>1. cause \in Nat
    BY CodeAssumption
  <2> QED BY <2>1
<1> HIDE DEF code
<1>3. Status(code) \notin {0, PASS}
  BY <1>2, FailureStatus
<1>4. mailbox' = Status(code) /\ ending' = how
  BY <1>1, FinishStep
<1>5. VerdictIsRight'
  BY <1>3, <1>4 DEF VerdictIsRight
<1> QED BY <1>1, <1>5, FinishStep

\* The port accepts exactly the runs that deserve it.
LEMMA FiniStep ==
  ASSUME Inv, portable_fini
  PROVE  Inv'
<1> DEFINE how == [by |-> "fini", code |-> 0]
           code == 512 + (report.errors % 256)
           sound == seed = "expected" /\ bad = {}
<1>1. pc = "print" /\ pc # "halted" /\ queue = <<>>
  BY DEF portable_fini
<1>2. Messages(queue) = {}
  BY <1>1 DEF Messages
<1>3. /\ report.errors \in Nat
      /\ report.errors > 0 <=> (seed = "unknown" \/ bad # {} \/ Short)
      /\ sound /\ ~Short => report.valid = 1
      /\ report.seedcrc = seed
  BY <1>1, <1>2 DEF Inv, ReportInv
<1>4. Accepted <=> report.valid = 1 /\ sound /\ ~Short
  BY <1>3 DEF Accepted
<1>5. Cycles \in Nat /\ get_time \in Int /\ MinSecs \in Nat
      /\ time_in_secs(get_time) \in Int
  BY <1>1, CounterAssumption, RunAssumption
     DEF Inv, Measured, get_time, time_in_secs
<1>6. ASSUME UNCHANGED <<seed, bad, outer, statics>>
      PROVE  /\ get_time' = get_time /\ outer' = outer
             /\ seed' = seed /\ bad' = bad
  BY <1>6 DEF get_time, Cycles, statics
<1>7. CASE Accepted
  <2>1. Finish(PASS, how)
    BY <1>7 DEF portable_fini, bm_pass
  <2>2. /\ mailbox' = PASS /\ ending' = how
        /\ UNCHANGED <<seed, bad, outer, statics>>
    BY <2>1, <1>1, FinishStep
  <2>3. sound /\ outer.cycles >= MinSecs * ClockHz
    BY <1>1, <1>4, <1>7, LongEnough
  <2>4. VerdictIsRight'
    BY <2>2, <2>3, <1>6 DEF VerdictIsRight
  <2> QED BY <2>1, <2>4, <1>1, FinishStep
<1>8. CASE ~Accepted
  <2>1. Finish(Status(code), how)
    BY <1>8 DEF portable_fini, bm_fail
  <2>2. code \in Nat
    BY <1>3
  <2> HIDE DEF code
  <2>3. Status(code) \notin {0, PASS}
    BY <2>2, FailureStatus
  <2>4. /\ mailbox' = Status(code) /\ ending' = how
        /\ UNCHANGED <<seed, bad, outer, statics>>
    BY <2>1, <1>1, FinishStep
  <2>5. ~(sound /\ time_in_secs(get_time) >= MinSecs)
    BY <1>3, <1>4, <1>5, <1>8 DEF Short
  <2>6. get_time' = get_time /\ seed' = seed /\ bad' = bad
    BY <2>4, <1>6
  <2>7. ~(seed' = "expected" /\ bad' = {}
          /\ time_in_secs(get_time') >= MinSecs)
    BY <2>5, <2>6
  <2>8. VerdictIsRight'
    BY <2>3, <2>4, <2>7 DEF VerdictIsRight, time_in_secs
  <2> QED BY <2>1, <2>8, <1>1, FinishStep
<1> QED BY <1>7, <1>8

-----------------------------------------------------------------------------
(* The theorems.                                                           *)

\* The invariant holds in every reachable state.
LEMMA MarkInvariance == Spec => []Inv
<1>1. Init => Inv
  <2> SUFFICES ASSUME Init PROVE Inv
    OBVIOUS
  <2>1. IInv
    BY DEF Init, RoutineInit, IInv, Memories, RoutineCorrect, NoCall, Running
  <2> QED BY <2>1
          DEF Init, Inv, RegionInv, Measured, ReaderInv, ReportInv, LibraryInv,
              VerdictIsRight, NoReport, Timed, ReadingCounter, PASS
<1>2. ASSUME Inv, [Next]_vars PROVE Inv'
  <2>1. CASE UNCHANGED vars
    <3>1. UNCHANGED <<pc, part, mcycle, minstret, high_before, low, start_cycle,
                      stop_cycle, start_instret, stop_instret, report, seed,
                      bad, queue, mailbox, entered, inner, outer, ending>>
      BY <2>1 DEF vars, counters, statics, reader, outcome, history
    <3>2. /\ ReadingCounter' = ReadingCounter /\ Floor' = Floor
          /\ Counter' = Counter /\ Cycles' = Cycles
          /\ Instructions' = Instructions /\ Short' = Short
      BY <3>1 DEF Timed, ReadingCounter, Cycles, Instructions, Floor, Counter,
                  Short, get_time
    <3>3. RegionInv' /\ Measured'
      BY <3>1, <3>2, <1>2 DEF Inv, RegionInv, Measured
    <3>4. ReaderInv'
      BY <3>1, <3>2, <1>2 DEF Inv, ReaderInv
    <3>5. ReportInv'
      BY <3>1, <3>2, <1>2 DEF Inv, ReportInv
    <3>6. /\ RegionInv' /\ Measured' /\ ReaderInv' /\ ReportInv'
      BY <3>3, <3>4, <3>5
    <3>7. LibraryInv'
      BY <1>2, <2>1
         DEF vars, routine, Inv, LibraryInv, IInv, LoopInv, CopyInv, FillInv,
             CompareInv, LengthInv, EqualInv, SearchInv, RoutineCorrect
    <3>8. VerdictIsRight' /\ (pc' # "halted" => mailbox' = 0)
      BY <1>2, <2>1
         DEF vars, outcome, history, statics, Inv, VerdictIsRight, get_time,
             Cycles
    <3> QED BY <3>6, <3>7, <3>8 DEF Inv
  <2>2. CASE \E s \in ExitCodes : bm_exit(s)
    BY <1>2, <2>2, ExitStep
  <2>3. CASE \E c \in Causes : bm_trap_handler(c)
    BY <1>2, <2>3, TrapStep
  <2>4. CASE \E t \in {"performance", "validation"} : portable_init(t)
    BY <1>2, <2>4, PortableInitStep
  <2>5. CASE \E k \in RunTimes : Iterate(k)
    BY <1>2, <2>5, IterateStep
  <2>6. CASE LibraryCall \/ StartRun \/ ReadHigh \/ ReadLow \/ ReadAgain
            \/ OtherClock
    BY <1>2, <2>6, LibraryStep, StartStep, ReadHalfStep, ReadAgainStep,
       OtherClockStep
  <2>7. CASE ReportTimes \/ Calibrate \/ Judge \/ PrintNext \/ portable_fini
    BY <1>2, <2>7, ReportTimesStep, CalibrateStep, JudgeStep, PrintStep,
       FiniStep
  <2> QED BY <1>2, <2>1, <2>2, <2>3, <2>4, <2>5, <2>6, <2>7 DEF Next
<1> QED BY <1>1, <1>2, PTL DEF Spec

\* The cycles and instructions of the report hold all of the iterations and
\* nothing outside the calls of start_time and stop_time.
THEOREM TimesAreMeasured == Spec => []MeasuresTheRegion
<1>1. Inv => MeasuresTheRegion
  BY DEF Inv, ReportInv, Measured, MeasuresTheRegion
<1> QED BY <1>1, MarkInvariance, PTL

\* A program passes only if it should and fails only for a reason.
THEOREM VerdictsAreRight == Spec => []VerdictIsRight
<1>1. Inv => VerdictIsRight
  BY DEF Inv
<1> QED BY <1>1, MarkInvariance, PTL

\* The library routines are correct also in the programs that use them.
THEOREM RoutinesStayCorrect == Spec => []RoutineCorrect
<1>1. Inv => RoutineCorrect
  BY DEF Inv, LibraryInv, IInv, RoutineCorrect
<1> QED BY <1>1, MarkInvariance, PTL
=============================================================================
