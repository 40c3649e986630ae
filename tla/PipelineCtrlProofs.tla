------------------------- MODULE PipelineCtrlProofs -------------------------
(* Proofs about the pipeline controller, for every set of instruction      *)
(* classes and every bound on the number of packets.                       *)
EXTENDS PipelineCtrl, TLAPS

USE KindsAssumption, MaxAgeAssumption

\* What every packet has, and what attaching an exception leaves of it.
LEMMA PacketFacts ==
  ASSUME NEW p \in Packets
  PROVE  /\ p.valid \in BOOLEAN /\ p.age \in Ages
         /\ \A exc \in {"sync", "irq"} :
              p.valid => /\ Poison(p, exc) \in Packets
                         /\ Poison(p, exc).valid
                         /\ Poison(p, exc).age = p.age
                         /\ Poison(p, exc).exc = exc
<1>1. CASE p = Bubble
  BY <1>1 DEF Bubble, Ages
<1>2. CASE p \in Instructions
  BY <1>2 DEF Instructions, Poison, Packets, TrapPackets
<1>3. CASE p \in TrapPackets
  BY <1>3 DEF TrapPackets, Poison, Packets
<1>. QED  BY <1>1, <1>2, <1>3 DEF Packets

\* The packet every flush writes.
LEMMA BubbleFacts == Bubble \in Packets /\ Bubble.valid = FALSE
BY DEF Bubble, Packets

\* What IF offers is a packet, and a new one has the next age.
LEMMA FetchFacts ==
  ASSUME TypeOK, NEW p \in fetch_packets
  PROVE  /\ p \in Packets
         /\ p.valid => p.age = fetched /\ fetched + 1 \in 0 .. MaxAge
<1>1. fetched = MaxAge \/ (fetched \in Ages /\ fetched + 1 \in 0 .. MaxAge)
  BY DEF TypeOK, Ages
<1>2. CASE p = Bubble
  BY <1>2, BubbleFacts
<1>3. ASSUME fetched # MaxAge, NEW kind \in Kinds, p = NewPacket(kind, "none")
      PROVE  p \in Packets /\ p.age = fetched /\ fetched + 1 \in 0 .. MaxAge
  BY <1>1, <1>3 DEF NewPacket, Packets, Instructions, AllKinds
<1>4. ASSUME fetched # MaxAge, p = NewPacket("alu", "sync")
      PROVE  p \in Packets /\ p.age = fetched /\ fetched + 1 \in 0 .. MaxAge
  BY <1>1, <1>4 DEF NewPacket, Packets, TrapPackets
<1>. QED  BY <1>2, <1>3, <1>4 DEF fetch_packets

\* What a stage reports is about the packet it holds.
LEMMA InputFacts ==
  ASSUME NEW in \in Inputs
  PROVE  /\ mem_exception(in) \/ mem_wait(in) => mem_is_memory
         /\ ex_exception(in) \/ ex_wait(in) \/ control_redirect(in) => Live(id_ex)
BY DEF Inputs, LsuOutcomes, ExOutcomes, mem_exception, mem_wait,
       ex_exception, ex_wait, control_redirect

\* Each stage offers the packet it holds, perhaps with an exception attached.
LEMMA OfferedFacts ==
  ASSUME TypeOK, NEW in \in Inputs
  PROVE  /\ id_ex_d(in) \in Packets
         /\ id_ex_d(in).valid = if_id.valid
         /\ if_id.valid => id_ex_d(in).age = if_id.age
         /\ ex_mem_d(in) \in Packets
         /\ ex_mem_d(in).valid = id_ex.valid
         /\ ex_mem_d(in).age = id_ex.age
         /\ mem_wb_d(in) \in Packets
         /\ mem_wb_d(in).valid = ex_mem.valid
         /\ mem_wb_d(in).age = ex_mem.age
<1>1. if_id \in Packets /\ id_ex \in Packets /\ ex_mem \in Packets
  BY DEF TypeOK
<1>2. ex_exception(in) => id_ex.valid
  BY InputFacts DEF Live
<1>3. mem_exception(in) => ex_mem.valid
  BY InputFacts DEF mem_is_memory, Live
<1>. QED  BY <1>1, <1>2, <1>3, PacketFacts, BubbleFacts
          DEF id_ex_d, ex_mem_d, mem_wb_d

\* The exceptions of the packets offered to the next registers.
LEMMA OfferedExceptions ==
  ASSUME TypeOK, NEW in \in Inputs
  PROVE  /\ Trap(mem_wb_d(in)) <=> Trap(ex_mem) \/ mem_exception(in)
         /\ Trap(ex_mem_d(in)) <=> Trap(id_ex) \/ ex_exception(in)
         /\ Trap(id_ex_d(in)) <=> id_exception \/ id_interrupt(in)
<1>1. if_id \in Packets /\ id_ex \in Packets /\ ex_mem \in Packets
  BY DEF TypeOK
<1>. QED  BY <1>1, InputFacts, PacketFacts, BubbleFacts
          DEF Trap, Live, id_ex_d, ex_mem_d, mem_wb_d, mem_is_memory,
              id_exception, id_interrupt

\* The ages in flight are ages.
LEMMA FlightFacts ==
  ASSUME TypeOK
  PROVE  InFlight \subseteq Ages
BY PacketFacts DEF TypeOK, InFlight

\* Every controller action writes packets into the pipeline registers.
LEMMA TypeStep == TypeOK /\ [Next]_vars => TypeOK'
<1>. SUFFICES ASSUME TypeOK, [Next]_vars PROVE TypeOK'
  OBVIOUS
<1>1. CASE UNCHANGED vars
  BY <1>1 DEF TypeOK, vars, pipe, history
<1>2. CASE Reset
  BY <1>2, FlightFacts, BubbleFacts DEF TypeOK, Reset
<1>3. ASSUME NEW in \in Inputs, Clock(in)
      PROVE  TypeOK'
  <2>1. Commit => retired' \subseteq Ages /\ trapped' \subseteq Ages
    BY PacketFacts DEF Commit, TypeOK
  <2>2. Access => accessed' \subseteq Ages
    BY PacketFacts DEF Access, TypeOK
  <2>3. ASSUME NEW p \in Packets
        PROVE  SquashYounger(p) => squashed' \subseteq Ages
    <3>1. p.age \in Nat /\ fetched \in Nat /\ fetched <= MaxAge
      BY PacketFacts DEF TypeOK, Ages
    <3>2. p.age + 1 .. fetched - 1 \subseteq Ages
      BY <3>1 DEF Ages
    <3>. QED  BY <3>2 DEF SquashYounger, TypeOK
  <2>. QED
  BY <1>3, <2>1, <2>2, <2>3, OfferedFacts, FetchFacts, BubbleFacts
     DEF Clock, TypeOK, WbTrap, MemException, MemWait, ExException, ExWait,
         TrapDrain, ExRedirect, Keep, Overrule, HoldId, IrqStateWait, IdHazard, TrapFromId,
         IdException, IdInterrupt, Advance
<1>. QED  BY <1>1, <1>2, <1>3 DEF Next

-----------------------------------------------------------------------------
(* The inductive invariant.                                                *)

IInv ==
  TypeOK /\ ProgramOrder /\ DrainIsolation /\ ExactlyOnce
    /\ NoOverruledAccess /\ HistoryOrder

Leaving == IF mem_wb.valid THEN {mem_wb.age} ELSE {}

\* An age is in flight exactly when one of the four registers holds it.
LEMMA InFlightIff ==
  ASSUME NEW a
  PROVE  a \in InFlight <=> \/ if_id.valid  /\ a = if_id.age
                            \/ id_ex.valid  /\ a = id_ex.age
                            \/ ex_mem.valid /\ a = ex_mem.age
                            \/ mem_wb.valid /\ a = mem_wb.age
BY DEF InFlight

\* The same of the registers after the clock edge.
LEMMA InFlightNextIff ==
  ASSUME NEW a
  PROVE  a \in InFlight' <=> \/ if_id'.valid  /\ a = if_id'.age
                             \/ id_ex'.valid  /\ a = id_ex'.age
                             \/ ex_mem'.valid /\ a = ex_mem'.age
                             \/ mem_wb'.valid /\ a = mem_wb'.age
BY DEF InFlight

\* The packet in MEM/WB is the oldest in flight, and the one in EX/MEM is
\* older than all that stay.
LEMMA OldestFacts ==
  ASSUME IInv
  PROVE  /\ InFlight \subseteq 0 .. fetched - 1
         /\ Leaving \subseteq InFlight
         /\ \A a \in Leaving, b \in InFlight \ Leaving : a < b
         /\ \A b \in InFlight \ Leaving : ex_mem.valid => ex_mem.age <= b
         /\ ex_mem.valid => ex_mem.age \in InFlight \ Leaving
<1>1. /\ if_id.age \in Nat /\ id_ex.age \in Nat
      /\ ex_mem.age \in Nat /\ mem_wb.age \in Nat
  BY PacketFacts DEF IInv, TypeOK, Ages
<1>2. InFlight \subseteq 0 .. fetched - 1
  BY DEF IInv, ExactlyOnce
<1>. QED  BY <1>1, <1>2, InFlightIff DEF IInv, ProgramOrder, Precedes, Leaving

\* Committing MEM/WB moves the leaving packet to the completed ones.
LEMMA CommitFacts ==
  ASSUME IInv, Commit
  PROVE  Completed' = Completed \cup Leaving /\ retired' \cap trapped' = {}
<1>1. mem_wb.valid => mem_wb.age \in InFlight
  BY InFlightIff
<1>. QED  BY <1>1 DEF IInv, Commit, Completed, Leaving, Live, Trap, ExactlyOnce

\* An access belongs to a packet that is the oldest once MEM/WB has left.
LEMMA AccessFacts ==
  ASSUME IInv, Access
  PROVE  \A a \in accessed' :
           \/ a \in accessed
           \/ a \in InFlight \ Leaving /\ \A b \in InFlight \ Leaving : a <= b
BY OldestFacts DEF Access, mem_is_memory, Live

\* A step that overrules nothing retires MEM/WB and may fetch one packet.
LEMMA KeepStep ==
  ASSUME IInv, Commit, Access, UNCHANGED <<squashed, lost>>,
         NEW new \in SUBSET {fetched},
         fetched' = IF new = {} THEN fetched ELSE fetched + 1,
         InFlight' = (InFlight \ Leaving) \cup new
  PROVE  ExactlyOnce' /\ NoOverruledAccess' /\ HistoryOrder'
<1>1. fetched \in Nat
  BY DEF IInv, TypeOK
<1>2. 0 .. fetched' - 1 = (0 .. fetched - 1) \cup new
  <2>1. CASE new = {}
    BY <2>1
  <2>2. CASE new = {fetched}
    <3>1. fetched' - 1 = fetched
      BY <1>1, <2>2
    <3>2. 0 .. fetched = (0 .. fetched - 1) \cup {fetched}
      BY <1>1
    <3>. QED  BY <2>2, <3>1, <3>2
  <2>. QED  BY <2>1, <2>2
<1>3. ExactlyOnce'
  <2>1. Removed' = Removed
    BY DEF Removed
  <2>. QED  BY <1>2, <2>1, CommitFacts, OldestFacts, <1>1
            DEF IInv, ExactlyOnce
<1>4. NoOverruledAccess'
  BY AccessFacts DEF IInv, NoOverruledAccess, ExactlyOnce, Removed
<1>5. HistoryOrder'
  <2>1. accessed' \subseteq 0 .. fetched' - 1
    BY <1>2, AccessFacts, OldestFacts DEF IInv, HistoryOrder
  <2>2. \A a \in (Completed \cup lost \cup accessed)' : a \in 0 .. fetched - 1
    BY CommitFacts, AccessFacts, OldestFacts
       DEF IInv, HistoryOrder, ExactlyOnce, Removed
  <2>3. \A b \in InFlight \ Leaving :
          /\ \A a \in (Completed \cup lost)' : a < b
          /\ \A a \in accessed' : a <= b
    BY CommitFacts, AccessFacts, OldestFacts DEF IInv, HistoryOrder
  <2>4. \A a \in 0 .. fetched - 1, b \in new : a < b /\ a <= b
    BY <1>1
  <2>5. \A b \in InFlight' : b \in InFlight \ Leaving \/ b \in new
    OBVIOUS
  <2>. QED  BY <2>1, <2>2, <2>3, <2>4, <2>5 DEF HistoryOrder
<1>. QED  BY <1>3, <1>4, <1>5

\* A step that overrules the packets younger than age p.
LEMMA OverruleStep ==
  ASSUME IInv, Commit, Access, UNCHANGED <<fetched, lost>>,
         NEW p \in InFlight,
         p \in Leaving => UNCHANGED accessed,
         squashed' = squashed \cup (p + 1 .. fetched - 1),
         InFlight' = {a \in InFlight \ Leaving : a <= p}
  PROVE  ExactlyOnce' /\ NoOverruledAccess' /\ HistoryOrder'
<1>1. fetched \in Nat /\ p \in 0 .. fetched - 1
  BY OldestFacts DEF IInv, TypeOK
<1>2. 0 .. fetched - 1 \subseteq Nat
  BY <1>1
<1>3. \A a \in 0 .. fetched - 1 : a \in p + 1 .. fetched - 1 <=> ~(a <= p)
  BY <1>1
<1>4. p + 1 .. fetched - 1 \subseteq 0 .. fetched - 1
  BY <1>1
<1>5. \A a \in Completed' \cup lost : a <= p
  <2>1. Completed \cup lost \cup Leaving \subseteq Nat /\ p \in Nat
    BY <1>1, <1>2, OldestFacts DEF IInv, ExactlyOnce, Removed
  <2>2. \A a \in Completed \cup lost : a < p
    BY DEF IInv, HistoryOrder
  <2>3. \A a \in Leaving : a < p \/ a = p
    BY OldestFacts DEF Leaving
  <2>. QED  BY <2>1, <2>2, <2>3, CommitFacts
<1>6. ExactlyOnce'
  <2>1. Removed' = Removed \cup (p + 1 .. fetched - 1)
    BY DEF Removed
  <2>2. 0 .. fetched' - 1 = (InFlight \cup Completed \cup Removed)'
    BY <2>1, <1>3, <1>4, CommitFacts, OldestFacts DEF IInv, ExactlyOnce
  <2>3. InFlight' \cap (Completed \cup Removed)' = {}
    BY <2>1, <1>3, <1>4, CommitFacts, OldestFacts DEF IInv, ExactlyOnce
  <2>4. Completed' \cap Removed' = {}
    BY <2>1, <1>1, <1>3, <1>4, <1>5, CommitFacts, OldestFacts DEF IInv, ExactlyOnce
  <2>5. squashed' \cap lost' = {}
    BY <1>3, <1>4, <1>5 DEF IInv, ExactlyOnce
  <2>. QED  BY <2>2, <2>3, <2>4, <2>5, CommitFacts DEF ExactlyOnce
<1>7. \A a \in accessed' : a \in 0 .. fetched - 1 /\ a <= p
  <2>1. \A a \in accessed : a \in 0 .. fetched - 1 /\ a <= p
    BY DEF IInv, HistoryOrder
  <2>2. CASE p \in Leaving
    BY <2>1, <2>2
  <2>3. CASE p \in InFlight \ Leaving
    BY <2>1, <2>3, AccessFacts, OldestFacts
  <2>. QED  BY <2>2, <2>3
<1>8. NoOverruledAccess'
  <2>1. \A a \in accessed' : a \notin squashed
    BY AccessFacts DEF IInv, NoOverruledAccess, ExactlyOnce, Removed
  <2>. QED  BY <2>1, <1>3, <1>7 DEF NoOverruledAccess
<1>9. HistoryOrder'
  <2>1. \A b \in InFlight \ Leaving :
          /\ \A a \in (Completed \cup lost)' : a < b
          /\ \A a \in accessed' : a <= b
    BY CommitFacts, AccessFacts, OldestFacts DEF IInv, HistoryOrder
  <2>. QED  BY <2>1, <1>7 DEF HistoryOrder
<1>. QED  BY <1>6, <1>8, <1>9

-----------------------------------------------------------------------------
(* The registers after each action.                                        *)

\* Every step preserves the inductive invariant.
LEMMA Invariance == IInv /\ [Next]_vars => IInv'
<1>. SUFFICES ASSUME IInv, [Next]_vars PROVE IInv'
  OBVIOUS
<1>1. TypeOK /\ TypeOK'
  BY TypeStep DEF IInv
<1>2. CASE UNCHANGED vars
  BY <1>2 DEF IInv, TypeOK, ProgramOrder, Precedes, DrainIsolation, Trap,
              ExactlyOnce, NoOverruledAccess, HistoryOrder, Completed, Removed,
              InFlight, vars, pipe, history
<1>3. CASE Reset
  <2>1. InFlight' = {}
    BY <1>3, InFlightNextIff, BubbleFacts DEF Reset
  <2>2. ProgramOrder' /\ DrainIsolation'
    BY <1>3, BubbleFacts DEF Reset, ProgramOrder, Precedes, DrainIsolation, Trap
  <2>3. ExactlyOnce' /\ NoOverruledAccess' /\ HistoryOrder'
    BY <1>3, <2>1 DEF Reset, IInv, ExactlyOnce, NoOverruledAccess, HistoryOrder, Completed, Removed
  <2>. QED  BY <1>1, <2>2, <2>3 DEF IInv
<1>4. ASSUME NEW in \in Inputs, Clock(in)
      PROVE  IInv'
  <2>a. /\ if_id.age \in Nat /\ id_ex.age \in Nat
        /\ ex_mem.age \in Nat /\ mem_wb.age \in Nat
    BY <1>1, PacketFacts DEF TypeOK, Ages
  <2>1. CASE WbTrap(in)
    <3>1. ProgramOrder' /\ DrainIsolation'
      BY <2>1, BubbleFacts DEF WbTrap, ProgramOrder, Precedes, DrainIsolation, Trap
    <3>2. wb_trap
      BY <2>1 DEF WbTrap, Action
    <3>3. mem_wb.age \in Leaving /\ mem_wb.age \in InFlight
      BY <3>2, InFlightIff DEF wb_trap, Trap, Leaving
    <3>4. InFlight' = {a \in InFlight \ Leaving : a <= mem_wb.age}
      <4>1. InFlight' = {}
        BY <2>1, InFlightNextIff, BubbleFacts DEF WbTrap
      <4>2. \A a \in InFlight \ Leaving : mem_wb.age < a /\ a \in Nat
        BY <3>3, OldestFacts DEF IInv, TypeOK
      <4>. QED  BY <4>1, <4>2, <2>a
    <3>5. UNCHANGED accessed
      BY <2>1, <3>2 DEF WbTrap, Overrule, Access
    <3>. QED  BY <2>1, <3>1, <3>3, <3>4, <3>5, <1>1, OverruleStep
              DEF WbTrap, Overrule, SquashYounger, IInv
  <2>2. CASE MemException(in)
    <3>1. ~wb_trap /\ mem_exception(in) /\ mem_is_memory
      BY <2>2, InputFacts DEF MemException, Action
    <3>2. ex_mem.valid /\ ex_mem.age \in InFlight /\ ex_mem.age \notin Leaving
      BY <3>1, OldestFacts DEF mem_is_memory, Live
    <3>3. ProgramOrder' /\ DrainIsolation'
      BY <2>2, <3>1, <1>1, BubbleFacts, OfferedExceptions
         DEF MemException, ProgramOrder, Precedes, DrainIsolation, Trap
    <3>4. InFlight' = {a \in InFlight \ Leaving : a <= ex_mem.age}
      <4>1. InFlight' = {ex_mem.age}
        BY <2>2, <3>2, <1>1, InFlightNextIff, BubbleFacts, OfferedFacts DEF MemException
      <4>2. \A a \in InFlight \ Leaving : a <= ex_mem.age => a = ex_mem.age
        BY <3>2, <2>a, InFlightIff, OldestFacts
      <4>. QED  BY <4>1, <4>2, <3>2, <2>a
    <3>. QED  BY <2>2, <3>2, <3>3, <3>4, <1>1, OverruleStep
              DEF MemException, Overrule, SquashYounger, IInv
  <2>3. CASE ExException(in) \/ ExRedirect(in)
    <3>1. /\ ~wb_trap /\ ~mem_exception(in) /\ Live(id_ex)
          /\ ExException(in) => ex_exception(in)
          /\ ExRedirect(in) => ~ex_exception(in) /\ ~trap_drain_q
      BY <2>3, InputFacts DEF ExException, ExRedirect, Action
    <3>2. id_ex.valid /\ id_ex.age \in InFlight /\ id_ex.age \notin Leaving
      BY <3>1, <2>a, InFlightIff DEF Live, IInv, ProgramOrder, Precedes, Leaving
    <3>3. ProgramOrder' /\ DrainIsolation'
      <4>1. ~Trap(ex_mem) /\ ~Trap(id_ex)
        BY <3>1 DEF IInv, DrainIsolation, Trap, Live
      <4>2. /\ Trap(mem_wb') <=> FALSE
            /\ Trap(ex_mem') <=> ex_exception(in)
            /\ ~if_id'.valid /\ ~id_ex'.valid
        BY <2>3, <3>1, <4>1, <1>1, BubbleFacts, OfferedExceptions DEF ExException, ExRedirect
      <4>3. trap_drain_q' <=> ex_exception(in)
        <5>1. CASE ExException(in)
          BY <3>1, <5>1 DEF ExException
        <5>2. CASE ExRedirect(in)
          BY <3>1, <5>2 DEF ExRedirect
        <5>. QED  BY <2>3, <5>1, <5>2
      <4>4. ProgramOrder'
        BY <2>3, <4>2, <1>1, OfferedFacts
           DEF ExException, ExRedirect, ProgramOrder, Precedes, IInv
      <4>5. DrainIsolation'
        BY <4>2, <4>3 DEF DrainIsolation, Trap
      <4>. QED  BY <4>4, <4>5
    <3>4. InFlight' = {a \in InFlight \ Leaving : a <= id_ex.age}
      <4>1. \A a : a \in InFlight' <=>
              \/ ex_mem.valid /\ a = ex_mem.age
              \/ a = id_ex.age
        BY <2>3, <3>2, <1>1, InFlightNextIff, BubbleFacts, OfferedFacts DEF ExException, ExRedirect
      <4>2. \A a \in InFlight \ Leaving : a <= id_ex.age <=>
              \/ ex_mem.valid /\ a = ex_mem.age
              \/ a = id_ex.age
        BY <3>2, <2>a, InFlightIff, OldestFacts DEF IInv, ProgramOrder, Precedes, Leaving
      <4>. QED  BY <4>1, <4>2, <3>2, OldestFacts
    <3>. QED  BY <2>3, <3>2, <3>3, <3>4, <1>1, OverruleStep
              DEF ExException, ExRedirect, Overrule, SquashYounger, IInv
  <2>4. CASE IdException(in) \/ IdInterrupt(in)
    <3>1. /\ ~wb_trap /\ ~mem_exception(in) /\ ~ex_exception(in) /\ ~trap_drain_q
          /\ id_exception \/ id_interrupt(in)
      BY <2>4, InputFacts DEF IdException, IdInterrupt, Action
    <3>2. if_id.valid /\ if_id.age \in InFlight /\ if_id.age \notin Leaving
      BY <3>1, <2>a, InFlightIff DEF id_exception, id_interrupt, IInv, ProgramOrder, Precedes, Leaving
    <3>3. ProgramOrder' /\ DrainIsolation'
      BY <2>4, <3>1, <1>1, BubbleFacts, OfferedFacts, OfferedExceptions
         DEF IdException, IdInterrupt, TrapFromId, ProgramOrder, Precedes, IInv,
             DrainIsolation, Trap
    <3>4. InFlight' = {a \in InFlight \ Leaving : a <= if_id.age}
      <4>1. \A a : a \in InFlight' <=> \/ ex_mem.valid /\ a = ex_mem.age
                                       \/ id_ex.valid /\ a = id_ex.age
                                       \/ a = if_id.age
        <5>1. /\ id_ex' = id_ex_d(in) /\ ex_mem' = ex_mem_d(in)
              /\ mem_wb' = mem_wb_d(in) /\ if_id' = Bubble
          BY <2>4 DEF IdException, IdInterrupt, TrapFromId
        <5>. QED  BY <5>1, <3>2, <1>1, InFlightNextIff, BubbleFacts, OfferedFacts
      <4>2. \A a : a \in InFlight \ Leaving <=> \/ ex_mem.valid /\ a = ex_mem.age
                                                \/ id_ex.valid /\ a = id_ex.age
                                                \/ a = if_id.age
        BY <3>2, <2>a, InFlightIff DEF IInv, ProgramOrder, Precedes, Leaving
      <4>3. \A a \in InFlight \ Leaving : a <= if_id.age
        BY <3>2, <2>a, <4>2 DEF IInv, ProgramOrder, Precedes
      <4>. QED  BY <4>1, <4>2, <4>3
    <3>. QED  BY <2>4, <3>2, <3>3, <3>4, <1>1, OverruleStep
              DEF IdException, IdInterrupt, TrapFromId, Overrule, SquashYounger, IInv
  <2>5. CASE MemWait(in) \/ ExWait(in) \/ TrapDrain(in) \/ IrqStateWait(in) \/ IdHazard(in)
    <3>1. ProgramOrder' /\ DrainIsolation'
      <4>1. CASE MemWait(in)
        <5>1. ~wb_trap /\ mem_is_memory
          BY <4>1, InputFacts DEF MemWait, Action
        <5>. QED  BY <4>1, <5>1, BubbleFacts
                  DEF MemWait, ProgramOrder, Precedes, IInv, DrainIsolation, Trap, wb_trap
      <4>2. CASE ExWait(in)
        <5>1. ~wb_trap /\ ~mem_exception(in) /\ Live(id_ex)
          BY <4>2, InputFacts DEF ExWait, Action
        <5>. QED  BY <4>2, <5>1, <1>1, BubbleFacts, OfferedFacts, OfferedExceptions
                  DEF ExWait, ProgramOrder, Precedes, IInv, DrainIsolation, Trap, Live, wb_trap
      <4>3. CASE TrapDrain(in)
        <5>1. ~wb_trap /\ ~mem_exception(in) /\ ~ex_exception(in) /\ trap_drain_q
          BY <4>3 DEF TrapDrain, Action
        <5>. QED  BY <4>3, <5>1, <1>1, BubbleFacts, OfferedFacts, OfferedExceptions
                  DEF TrapDrain, ProgramOrder, Precedes, IInv, DrainIsolation, Trap, wb_trap
      <4>4. CASE IrqStateWait(in) \/ IdHazard(in)
        <5>1. ~wb_trap /\ ~mem_exception(in) /\ ~ex_exception(in) /\ ~trap_drain_q
          BY <4>4 DEF IrqStateWait, IdHazard, Action
        <5>. QED  BY <4>4, <5>1, <1>1, BubbleFacts, OfferedFacts, OfferedExceptions
                  DEF IrqStateWait, IdHazard, HoldId, ProgramOrder, Precedes, IInv,
                      DrainIsolation, Trap, wb_trap
      <4>. QED  BY <2>5, <4>1, <4>2, <4>3, <4>4
    <3>2. InFlight' = (InFlight \ Leaving) \cup {}
      <4>1. \A a : a \in InFlight \ Leaving <=> \/ ex_mem.valid /\ a = ex_mem.age
                                                \/ id_ex.valid /\ a = id_ex.age
                                                \/ if_id.valid /\ a = if_id.age
        BY <2>a, InFlightIff DEF IInv, ProgramOrder, Precedes, Leaving
      <4>2. \A a : a \in InFlight' <=> \/ ex_mem.valid /\ a = ex_mem.age
                                       \/ id_ex.valid /\ a = id_ex.age
                                       \/ if_id.valid /\ a = if_id.age
        <5>1. CASE TrapDrain(in)
          <6>1. ~if_id.valid
            BY <5>1 DEF TrapDrain, Action, IInv, DrainIsolation
          <6>. QED  BY <5>1, <6>1, <1>1, InFlightNextIff, BubbleFacts, OfferedFacts DEF TrapDrain
        <5>2. CASE ~TrapDrain(in)
          BY <2>5, <5>2, <1>1, InFlightNextIff, BubbleFacts, OfferedFacts
             DEF MemWait, ExWait, IrqStateWait, IdHazard, HoldId
        <5>. QED  BY <5>1, <5>2
      <4>. QED  BY <4>1, <4>2
    <3>3. Commit /\ Access /\ UNCHANGED <<fetched, squashed, lost>>
      BY <2>5 DEF MemWait, ExWait, TrapDrain, IrqStateWait, IdHazard, HoldId, Keep
    <3>4. ExactlyOnce' /\ NoOverruledAccess' /\ HistoryOrder'
      <4>1. {} \in SUBSET {fetched} /\ fetched' = IF {} = {} THEN fetched ELSE fetched + 1
        BY <3>3
      <4>. QED  BY <3>2, <3>3, <4>1, KeepStep
    <3>. QED  BY <3>1, <3>4, <1>1 DEF IInv
  <2>6. CASE Advance(in)
    <3>1. ~wb_trap /\ ~mem_exception(in) /\ ~ex_exception(in) /\ ~trap_drain_q
          /\ ~id_exception /\ ~id_interrupt(in)
      BY <2>6 DEF Advance, Action
    <3>. DEFINE new == IF if_id'.valid THEN {fetched} ELSE {}
    <3>2. if_id'.valid => if_id'.age = fetched
      BY <2>6, <1>1, FetchFacts DEF Advance
    <3>3. ProgramOrder' /\ DrainIsolation'
      <4>1. \A a \in InFlight : a < fetched
        BY <1>1, OldestFacts DEF TypeOK
      <4>. QED  BY <2>6, <3>1, <3>2, <4>1, <1>1, InFlightIff, OfferedFacts, OfferedExceptions
                DEF Advance, ProgramOrder, Precedes, IInv, DrainIsolation, Trap, wb_trap
    <3>4. InFlight' = (InFlight \ Leaving) \cup new
      <4>1. \A a : a \in InFlight \ Leaving <=> \/ ex_mem.valid /\ a = ex_mem.age
                                                \/ id_ex.valid /\ a = id_ex.age
                                                \/ if_id.valid /\ a = if_id.age
        BY <2>a, InFlightIff DEF IInv, ProgramOrder, Precedes, Leaving
      <4>2. \A a : a \in InFlight' <=> \/ ex_mem.valid /\ a = ex_mem.age
                                       \/ id_ex.valid /\ a = id_ex.age
                                       \/ if_id.valid /\ a = if_id.age
                                       \/ a \in new
        BY <2>6, <3>2, <1>1, InFlightNextIff, OfferedFacts DEF Advance
      <4>. QED  BY <4>1, <4>2
    <3>5. fetched' = IF new = {} THEN fetched ELSE fetched + 1
      BY <2>6 DEF Advance
    <3>. QED  BY <2>6, <3>3, <3>4, <3>5, <1>1, KeepStep DEF Advance, IInv
  <2>. QED  BY <1>4, <2>1, <2>2, <2>3, <2>4, <2>5, <2>6 DEF Clock
<1>. QED  BY <1>2, <1>3, <1>4 DEF Next
-----------------------------------------------------------------------------
(* The theorems.                                                           *)

\* The reset state, all registers empty, satisfies the inductive invariant.
LEMMA Initial == Init => IInv
<1>. SUFFICES ASSUME Init PROVE IInv
  OBVIOUS
<1>1. InFlight = {}
  BY BubbleFacts DEF Init, InFlight
<1>2. TypeOK
  <2>1. 0 \in 0 .. MaxAge
    OBVIOUS
  <2>. QED  BY <2>1, BubbleFacts DEF Init, TypeOK
<1>3. ProgramOrder /\ DrainIsolation
  BY BubbleFacts DEF Init, ProgramOrder, Precedes, DrainIsolation, Trap
<1>. QED  BY <1>1, <1>2, <1>3 DEF Init, IInv, ExactlyOnce, NoOverruledAccess,
                            HistoryOrder, Completed, Removed

\* Ordering, fates, drain isolation and accesses of the pipeline registers
\* hold together in every reachable state: alone none of them is inductive.
THEOREM Invariant == Spec => []IInv
BY Initial, Invariance, PTL DEF Spec

\* The pipeline registers, trap_drain_q and the histories keep their types
\* under every action of pipeline_ctrl.sv.
THEOREM TypeCorrect == Spec => []TypeOK
<1>1. IInv => TypeOK
  BY DEF IInv
<1>. QED  BY <1>1, Invariant, PTL

\* The pipeline registers hold packets in program order (rtl/core/
\* rv32_core.sv registers under every controller action).
THEOREM InProgramOrder == Spec => []ProgramOrder
<1>1. IInv => ProgramOrder
  BY DEF IInv
<1>. QED  BY <1>1, Invariant, PTL

\* Single completion: whatever the actions of pipeline_ctrl.sv hold, bubble or
\* flush, each fetched packet has exactly one fate.
THEOREM SingleCompletion == Spec => []ExactlyOnce
<1>1. IInv => ExactlyOnce
  BY DEF IInv
<1>. QED  BY <1>1, Invariant, PTL

\* trap_drain_q is set exactly while a trap packet is beyond ID, and nothing
\* younger than that packet is in the pipeline.
THEOREM PreciseDrain == Spec => []DrainIsolation
<1>1. IInv => DrainIsolation
  BY DEF IInv
<1>. QED  BY <1>1, Invariant, PTL

\* No load or store of a packet that a trap, fault, interrupt or redirect
\* overruled was ever presented to the LSU (lsu_req_valid of rv32_core.sv).
THEOREM PreciseAccesses == Spec => []NoOverruledAccess
<1>1. IInv => NoOverruledAccess
  BY DEF IInv
<1>. QED  BY <1>1, Invariant, PTL

\* MEM/WB commits in program order: what completes, by retiring or by taking
\* its trap, leaves nothing older undecided.
THEOREM CompletionOrder == Spec => InOrderCommit
<1>1. IInv /\ [Next]_vars =>
        [\A a \in Completed' \ Completed : 0 .. a - 1 \subseteq Completed \cup Removed]_vars
  <2>. SUFFICES ASSUME IInv, Next
                PROVE  \A a \in Completed' \ Completed :
                         0 .. a - 1 \subseteq Completed \cup Removed
    OBVIOUS
  <2>1. \A a \in Leaving : 0 .. a - 1 \subseteq Completed \cup Removed
    <3>. SUFFICES ASSUME NEW a \in Leaving, NEW b \in 0 .. a - 1
                  PROVE  b \in Completed \cup Removed
      OBVIOUS
    <3>1. fetched \in Nat /\ a \in 0 .. fetched - 1
      BY OldestFacts DEF IInv, TypeOK
    <3>2. b \in 0 .. fetched - 1 /\ b < a /\ ~(a < b) /\ a # b
      BY <3>1
    <3>3. b \notin InFlight
      BY <3>2, OldestFacts DEF Leaving
    <3>. QED  BY <3>2, <3>3 DEF IInv, ExactlyOnce
  <2>2. CASE Reset
    BY <2>2 DEF Reset, Completed
  <2>3. CASE Commit
    BY <2>1, <2>3, CommitFacts
  <2>. QED
    BY <2>2, <2>3 DEF Next, Clock, WbTrap, MemException, MemWait, ExException,
       ExWait, TrapDrain, ExRedirect, HoldId, IrqStateWait, IdHazard,
       TrapFromId, IdException, IdInterrupt, Advance, Keep, Overrule
<1>. QED  BY <1>1, Invariant, PTL DEF Spec, InOrderCommit
=============================================================================
