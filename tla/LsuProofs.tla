----------------------------- MODULE LsuProofs -----------------------------
(***************************************************************************)
(* Proofs about the load/store unit, for any number of operations and a    *)
(* memory that accepts nothing while reset is asserted; and, at the end,   *)
(* that the SoC's data memory keeps the contract these theorems assume.    *)
(***************************************************************************)
EXTENDS DataBus, SequenceTheorems, TLAPS

USE MaxOpsAssumption

-----------------------------------------------------------------------------
(* The inductive invariant.                                                *)

\* What the unit holds in each of its states.
Holding ==
  /\ discard_q => state_q = "BUSY"
  /\ state_q # "IDLE" /\ ~discard_q => cur = op_q /\ cur # NoOp
  /\ state_q = "BUSY" /\ ~request_sent_q => op_q \in Ops /\ ~op_q.misaligned
  /\ state_q = "BUSY" /\ request_sent_q /\ ~discard_q =>
       bus[1] = op_q /\ ~op_q.misaligned
  /\ state_q = "RESP" =>
       /\ result_q.of = op_q.id
       /\ result_q.exc = "misaligned" <=> op_q.misaligned

\* Which accesses have been performed: none of an operation yet to come, none
\* of the one in EX/MEM before the unit sends it.
Performed ==
  /\ \A i \in Ids : accepted[i] <= 1
  /\ \A i \in Ids : i >= issued => accepted[i] = 0
  /\ cur # NoOp => cur.id < issued
  /\ op_q # NoOp => op_q.id < issued
  /\ cur # NoOp /\ (state_q = "IDLE" \/ discard_q) => accepted[cur.id] = 0
  /\ state_q = "BUSY" /\ ~request_sent_q => accepted[op_q.id] = 0
  /\ state_q = "BUSY" /\ request_sent_q /\ ~discard_q => accepted[op_q.id] = 1
  /\ state_q = "RESP" =>
       accepted[op_q.id] = IF op_q.misaligned THEN 0 ELSE 1
  /\ discard_q /\ cur # NoOp => cur.id # op_q.id

\* Completed operations are past: neither in EX/MEM nor about to be sent.
Past ==
  \A d \in delivered :
    /\ d.op.id < issued
    /\ cur # NoOp => d.op.id # cur.id
    /\ state_q = "BUSY" /\ ~request_sent_q => d.op.id # op_q.id

IInv ==
  /\ TypeOK
  /\ OwesOneResponse
  /\ Holding
  /\ Performed
  /\ Past
  /\ OwnResponse
  /\ PerformedOnce
  /\ RequestHeld
-----------------------------------------------------------------------------
(* The surroundings of the unit.                                           *)

\* NoOp has the one identifier no operation has.
LEMMA OpFacts ==
  /\ NoOp \notin Ops /\ NoOp.id = MaxOps
  /\ \A op \in Ops : op.id \in Ids /\ op.misaligned \in BOOLEAN
  /\ \A i \in Ids : i \in Nat /\ i < MaxOps
BY DEF NoOp, Ops, Ids

\* A sequence of one request, as the memory holds it.
LEMMA SeqFacts ==
  /\ \A b \in Seq(Ops) :
       Len(b) = 1 => b[1] \in Ops /\ Head(b) = b[1] /\ Tail(b) = <<>>
  /\ \A op \in Ops : /\ <<op>> \in Seq(Ops) /\ Len(<<op>>) = 1
                     /\ <<op>>[1] = op /\ Append(<<>>, op) = <<op>>
  /\ <<>> \in Seq(Ops) /\ Len(<<>>) = 0
<1>1. ASSUME NEW b \in Seq(Ops), Len(b) = 1
      PROVE  b[1] \in Ops /\ Head(b) = b[1] /\ Tail(b) = <<>>
  <2>1. b # <<>> /\ 1 \in 1 .. Len(b)
    BY <1>1, EmptySeq
  <2>2. b[1] \in Ops
    BY <2>1, ElementOfSeq
  <2>3. Head(b) = b[1]
    BY <1>1, <2>1
  <2>4. Tail(b) = <<>>
    <3>1. Tail(b) \in Seq(Ops) /\ Len(Tail(b)) = Len(b) - 1
      BY <2>1, HeadTailProperties
    <3>2. Tail(b) # <<>> => Len(Tail(b)) \in Nat \ {0}
      BY <3>1, EmptySeq
    <3>. QED  BY <1>1, <3>1, <3>2
  <2>. QED  BY <2>2, <2>3, <2>4
<1>2. ASSUME NEW op \in Ops
      PROVE  /\ <<op>> \in Seq(Ops) /\ Len(<<op>>) = 1
             /\ <<op>>[1] = op /\ Append(<<>>, op) = <<op>>
  OBVIOUS
<1>. QED  BY <1>1, <1>2

\* The unit offers a request only while the memory owes nothing, of an
\* operation not yet performed, and the memory takes it outside reset.
LEMMA RequestFacts ==
  ASSUME IInv, AcceptInReset = FALSE, NEW in \in Inputs, MemoryContract(in)
  PROVE  /\ request_fire(in) =>
              /\ ~in.rst /\ bus = <<>>
              /\ Request(in) \in Ops /\ ~Request(in).misaligned
              /\ accepted[Request(in).id] = 0 /\ Request(in).id < issued
              /\ Pending(in) = <<Request(in)>>
         /\ ~request_fire(in) => Pending(in) = bus
<1>1. ASSUME request_fire(in), issue_input(in)
      PROVE  /\ bus = <<>> /\ Request(in) = cur /\ cur \in Ops
             /\ ~cur.misaligned /\ accepted[cur.id] = 0 /\ cur.id < issued
  BY <1>1 DEF IInv, issue_input, req_ready, OwesOneResponse, Request, TypeOK,
              Performed
<1>2. ASSUME request_fire(in), ~issue_input(in)
      PROVE  /\ bus = <<>> /\ Request(in) = op_q /\ op_q \in Ops
             /\ ~op_q.misaligned /\ accepted[op_q.id] = 0 /\ op_q.id < issued
  BY <1>2, OpFacts DEF IInv, request_fire, req_valid, issue_saved, Holding,
                       OwesOneResponse, Request, Performed
<1>3. request_fire(in) => ~in.rst
  BY DEF request_fire, MemoryContract, Inputs
<1>. QED  BY <1>1, <1>2, <1>3, SeqFacts DEF Pending

\* What the memory holds after the edge, and what it answered.
LEMMA BusFacts ==
  ASSUME IInv, AcceptInReset = FALSE, NEW in \in Inputs, Around(in)
  PROVE  /\ bus' = IF in.rsp THEN <<>> ELSE Pending(in)
         /\ bus' \in Seq(Ops)
         /\ in.rsp => /\ Head(Pending(in)) \in Ops
                      /\ Answer(in) \in Results
                      /\ Answer(in).of = Head(Pending(in)).id
                      /\ Answer(in).exc # "misaligned"
                      /\ request_fire(in) => Head(Pending(in)) = Request(in)
                      /\ ~request_fire(in) =>
                           /\ state_q = "BUSY" /\ request_sent_q
                           /\ Head(Pending(in)) = bus[1]
<1>. MemoryContract(in) /\ Memory(in)
  BY DEF Around
<1>. bus \in Seq(Ops)
  BY DEF IInv, TypeOK
<1>1. CASE request_fire(in)
  <2>1. /\ Pending(in) = <<Request(in)>> /\ Request(in) \in Ops
        /\ Pending(in) \in Seq(Ops) /\ Len(Pending(in)) = 1
        /\ Pending(in)[1] = Request(in)
    BY <1>1, RequestFacts, SeqFacts
  <2>2. /\ Head(Pending(in)) = Request(in) /\ Tail(Pending(in)) = <<>>
    BY <2>1, SeqFacts
  <2>. QED  BY <1>1, <2>1, <2>2, SeqFacts, OpFacts
            DEF Memory, Answer, Results
<1>2. CASE ~request_fire(in)
  <2>1. Pending(in) = bus /\ (bus = <<>> \/ Len(bus) = 1)
    BY <1>2, RequestFacts DEF IInv, OwesOneResponse
  <2>2. in.rsp => Len(bus) = 1 /\ state_q = "BUSY" /\ request_sent_q
    BY <2>1 DEF MemoryContract, IInv, OwesOneResponse
  <2>. QED  BY <1>2, <2>1, <2>2, SeqFacts, OpFacts
            DEF Memory, Answer, Results
<1>. QED  BY <1>1, <1>2

\* EX/MEM keeps its operation or takes a fresh one.
LEMMA OwnerFacts ==
  ASSUME IInv, NEW in \in Inputs, Around(in)
  PROVE  /\ cur' \in Ops \cup {NoOp}
         /\ issued' \in 0 .. MaxOps /\ issued <= issued'
         /\ cur' = NoOp => issued' = issued
         /\ cur' # NoOp =>
              /\ ~in.rst /\ ~in.kill
              /\ \/ cur' = cur /\ issued' = issued /\ ~Captured(in)
                 \/ /\ cur'.id = issued /\ issued' = issued + 1
                    /\ Captured(in) \/ cur = NoOp
         /\ ~in.rst /\ ~in.kill /\ ~Captured(in) /\ cur # NoOp => cur' = cur
<1>. Owner(in) /\ issued \in 0 .. MaxOps /\ cur \in Ops \cup {NoOp}
  BY DEF Around, IInv, TypeOK
<1>. \A op \in Entering : /\ op \in Ops /\ op.id = issued /\ issued < MaxOps
                          /\ op # NoOp
  BY OpFacts DEF Entering, Ops, Ids
<1>. cur # NoOp => cur.id < issued
  BY DEF IInv, Performed
<1>. QED  BY OpFacts DEF Owner, Captured

\* Whether an operation has been performed changes only by its acceptance.
LEMMA AcceptedFacts ==
  ASSUME IInv, AcceptInReset = FALSE, NEW in \in Inputs, Around(in)
  PROVE  /\ accepted' \in [Ids -> Nat]
         /\ \A i \in Ids : accepted'[i] =
              IF request_fire(in) /\ i = Request(in).id THEN 1 ELSE accepted[i]
<1>. /\ Memory(in) /\ MemoryContract(in) /\ accepted \in [Ids -> Nat]
  BY DEF Around, IInv, TypeOK
<1>1. CASE request_fire(in)
  <2>1. /\ Request(in).id \in Ids /\ accepted[Request(in).id] = 0
    BY <1>1, RequestFacts, OpFacts
  <2>2. accepted' = [accepted EXCEPT ![Request(in).id] = 1]
    BY <1>1, <2>1 DEF Memory
  <2>. QED  BY <1>1, <2>1, <2>2
<1>2. CASE ~request_fire(in)
  BY <1>2 DEF Memory
<1>. QED  BY <1>1, <1>2

\* What the pipeline captures is the answer to the operation in EX/MEM, which
\* has been performed by then unless its address is misaligned.
LEMMA CaptureFacts ==
  ASSUME IInv, AcceptInReset = FALSE, NEW in \in Inputs, Around(in),
         Captured(in)
  PROVE  /\ cur \in Ops /\ cur.id < issued
         /\ Rsp(in) \in Results /\ Rsp(in).of = cur.id
         /\ Rsp(in).exc = "misaligned" <=> cur.misaligned
         /\ accepted'[cur.id] = IF cur.misaligned THEN 0 ELSE 1
         /\ state_q = "BUSY" => cur = op_q /\ response_seen(in)
<1>. /\ cur # NoOp /\ cur \in Ops /\ cur.id < issued /\ cur.id \in Ids
     /\ MemoryContract(in) /\ rsp_valid(in)
  BY OpFacts DEF Captured, IInv, TypeOK, Performed, Around
<1>1. CASE state_q = "RESP"
  <2>1. /\ cur = op_q /\ ~request_fire(in) /\ Rsp(in) = result_q
        /\ result_q.of = op_q.id
        /\ result_q.exc = "misaligned" <=> op_q.misaligned
        /\ accepted[op_q.id] = IF op_q.misaligned THEN 0 ELSE 1
    BY <1>1 DEF IInv, Holding, Performed, request_fire, req_valid, issue_input,
                issue_saved, req_ready, Rsp
  <2>2. result_q \in Results
    <3>1. result_q \in Results \cup {NoResult} /\ op_q \in Ops
      BY <2>1 DEF IInv, TypeOK
    <3>. QED  BY <2>1, <3>1, OpFacts DEF NoResult
  <2>. QED  BY <1>1, <2>1, <2>2, AcceptedFacts
<1>2. CASE state_q = "BUSY"
  <2>1. /\ response_seen(in) /\ ~discard_q /\ cur = op_q /\ Rsp(in) = Answer(in)
        /\ in.rsp
    BY <1>2 DEF rsp_valid, response_seen, response_discard, IInv, Holding, Rsp
  <2>2. CASE request_fire(in)
    <3>1. Request(in) = cur
      BY <1>2, <2>1 DEF Request, issue_input, req_ready
    <3>2. /\ Answer(in) \in Results /\ Answer(in).of = cur.id
          /\ Answer(in).exc # "misaligned"
      BY <2>1, <2>2, <3>1, BusFacts
    <3>3. ~cur.misaligned
      BY <2>2, <3>1, RequestFacts
    <3>4. accepted'[cur.id] = 1
      BY <2>2, <3>1, AcceptedFacts
    <3>. QED  BY <2>1, <3>2, <3>3, <3>4
  <2>3. CASE ~request_fire(in)
    <3>1. request_sent_q /\ bus[1] = op_q /\ ~op_q.misaligned
          /\ accepted[op_q.id] = 1
      BY <1>2, <2>1, <2>3 DEF response_seen, IInv, Holding, Performed
    <3>. QED  BY <1>2, <2>1, <2>3, <3>1, BusFacts, AcceptedFacts
  <2>. QED  BY <2>2, <2>3
<1>3. CASE state_q = "IDLE"
  <2>1. response_seen(in) /\ request_fire(in) /\ in.rsp /\ Rsp(in) = Answer(in)
    BY <1>3 DEF rsp_valid, response_seen, Rsp
  <2>2. Request(in) = cur
    BY <1>3, <2>1 DEF request_fire, req_valid, issue_saved, Request
  <2>3. /\ Answer(in) \in Results /\ Answer(in).of = cur.id
        /\ Answer(in).exc # "misaligned"
    BY <2>1, <2>2, BusFacts
  <2>4. ~cur.misaligned
    BY <2>1, <2>2, RequestFacts
  <2>5. accepted'[cur.id] = 1
    BY <2>1, <2>2, AcceptedFacts
  <2>. QED  BY <1>3, <2>1, <2>3, <2>4, <2>5
<1>. QED  BY <1>1, <1>2, <1>3 DEF IInv, TypeOK

\* Completions stay right whatever the unit does: later acceptances are of
\* other operations.
LEMMA CompletionStep ==
  ASSUME IInv, AcceptInReset = FALSE, NEW in \in Inputs, Around(in)
  PROVE  /\ delivered' \subseteq [op: Ops, result: Results]
         /\ OwnResponse' /\ PerformedOnce'
         /\ \A d \in delivered' :
              d.op.id < issued' /\ (cur' # NoOp => d.op.id # cur'.id)
<1>. /\ Memory(in) /\ MemoryContract(in)
     /\ delivered \subseteq [op: Ops, result: Results]
     /\ issued \in 0 .. MaxOps
  BY DEF Around, IInv, TypeOK
<1>1. ASSUME NEW d \in delivered
      PROVE  /\ d.result.of = d.op.id
             /\ d.result.exc = "misaligned" <=> d.op.misaligned
             /\ accepted'[d.op.id] = IF d.op.misaligned THEN 0 ELSE 1
             /\ d.op.id < issued' /\ (cur' # NoOp => d.op.id # cur'.id)
  <2>1. /\ d.op \in Ops /\ d.op.id \in Ids /\ d.op.id < issued
        /\ cur # NoOp => d.op.id # cur.id
        /\ state_q = "BUSY" /\ ~request_sent_q => d.op.id # op_q.id
        /\ accepted[d.op.id] = IF d.op.misaligned THEN 0 ELSE 1
    BY <1>1, OpFacts DEF IInv, Past, PerformedOnce
  <2>2. request_fire(in) => Request(in).id # d.op.id
    BY <2>1 DEF request_fire, req_valid, issue_input, issue_saved, Request
  <2>3. accepted'[d.op.id] = accepted[d.op.id]
    BY <2>1, <2>2, AcceptedFacts
  <2>4. d.op.id < issued' /\ (cur' # NoOp => d.op.id # cur'.id)
    BY <2>1, OwnerFacts, OpFacts
  <2>. QED  BY <1>1, <2>1, <2>3, <2>4 DEF IInv, OwnResponse
<1>2. ASSUME Captured(in)
      PROVE  LET d == [op |-> cur, result |-> Rsp(in)]
             IN  /\ d \in [op: Ops, result: Results]
                 /\ d.result.of = d.op.id
                 /\ d.result.exc = "misaligned" <=> d.op.misaligned
                 /\ accepted'[d.op.id] = IF d.op.misaligned THEN 0 ELSE 1
                 /\ d.op.id < issued' /\ (cur' # NoOp => d.op.id # cur'.id)
  <2>1. /\ cur \in Ops /\ cur.id < issued /\ cur.id \in Ids
        /\ Rsp(in) \in Results /\ Rsp(in).of = cur.id
        /\ Rsp(in).exc = "misaligned" <=> cur.misaligned
        /\ accepted'[cur.id] = IF cur.misaligned THEN 0 ELSE 1
    BY <1>2, CaptureFacts, OpFacts
  <2>2. cur.id < issued' /\ (cur' # NoOp => cur.id # cur'.id)
    BY <1>2, <2>1, OwnerFacts, OpFacts
  <2>. QED  BY <2>1, <2>2
<1>3. ASSUME NEW i \in Ids  PROVE accepted'[i] <= 1
  <2>1. accepted[i] <= 1 /\ accepted[i] \in Nat
    BY DEF IInv, Performed, TypeOK
  <2>2. accepted'[i] = 1 \/ accepted'[i] = accepted[i]
    BY AcceptedFacts
  <2>. QED  BY <2>1, <2>2
<1>4. \A d \in delivered' :
        \/ d \in delivered
        \/ Captured(in) /\ d = [op |-> cur, result |-> Rsp(in)]
  BY DEF Memory
<1>. QED  BY <1>1, <1>2, <1>3, <1>4 DEF OwnResponse, PerformedOnce

\* What the surroundings guarantee after any step.
LEMMA AroundStep ==
  ASSUME IInv, AcceptInReset = FALSE, NEW in \in Inputs, Around(in)
  PROVE  /\ offered' = IF req_valid(in) /\ ~in.ready /\ ~in.rst
                       THEN Request(in) ELSE NoOp
         /\ \A i \in Ids : i >= issued' => accepted'[i] = 0
         /\ cur' # NoOp =>
              /\ cur' \in Ops /\ cur'.id < issued'
              /\ \/ cur' = cur /\ ~Captured(in)
                 \/ /\ Captured(in) \/ cur = NoOp
                    /\ accepted'[cur'.id] = 0
                    /\ op_q # NoOp => op_q.id # cur'.id
         /\ op_q # NoOp => op_q.id < issued'
         /\ cur # NoOp => cur.id < issued'
<1>. /\ Memory(in) /\ issued \in 0 .. MaxOps /\ op_q \in Ops \cup {NoOp}
     /\ cur \in Ops \cup {NoOp}
     /\ op_q # NoOp => op_q.id < issued
     /\ cur # NoOp => cur.id < issued
  BY DEF Around, IInv, TypeOK, Performed
<1>. issued' \in 0 .. MaxOps /\ issued <= issued' /\ cur' \in Ops \cup {NoOp}
  BY OwnerFacts
<1>1. \A i \in Ids : i >= issued => accepted'[i] = 0
  <2>1. \A i \in Ids : i >= issued => accepted[i] = 0
    BY DEF IInv, Performed
  <2>2. \A i \in Ids : i >= issued /\ request_fire(in) => i # Request(in).id
    <3>1. request_fire(in) => Request(in) \in Ops /\ Request(in).id < issued
      BY RequestFacts DEF Around
    <3>2. request_fire(in) => Request(in).id \in 0 .. MaxOps
      BY <3>1, OpFacts DEF Ids
    <3>. QED  BY <3>1, <3>2 DEF Ids
  <2>. QED  BY <2>1, <2>2, AcceptedFacts
<1>2. \A i \in Ids : i >= issued' => accepted'[i] = 0
  BY <1>1, OpFacts
<1>3. cur' # NoOp => \/ cur' = cur /\ ~Captured(in) /\ cur'.id < issued'
                     \/ /\ Captured(in) \/ cur = NoOp
                        /\ cur'.id = issued /\ cur'.id < issued'
                        /\ cur'.id \in Ids
  BY OwnerFacts, OpFacts
<1>4. op_q # NoOp => op_q.id < issued' /\ op_q.id # issued
  BY OpFacts
<1>5. cur # NoOp => cur.id < issued'
  BY OpFacts
<1>6. \A i \in Ids : i = issued => accepted'[i] = 0
  BY <1>1
<1>. QED  BY <1>2, <1>3, <1>4, <1>5, <1>6 DEF Memory

-----------------------------------------------------------------------------
(* One lemma for each action: what is left of the inductive invariant.     *)

\* The part of the invariant that the unit's registers take part in.
UnitInv ==
  /\ state_q \in {"IDLE", "BUSY", "RESP"}
  /\ request_sent_q \in BOOLEAN /\ discard_q \in BOOLEAN
  /\ op_q \in Ops \cup {NoOp} /\ result_q \in Results \cup {NoResult}
  /\ offered \in Ops \cup {NoOp}
  /\ OwesOneResponse
  /\ Holding
  /\ op_q # NoOp => op_q.id < issued
  /\ cur # NoOp /\ (state_q = "IDLE" \/ discard_q) => accepted[cur.id] = 0
  /\ state_q = "BUSY" /\ ~request_sent_q => accepted[op_q.id] = 0
  /\ state_q = "BUSY" /\ request_sent_q /\ ~discard_q => accepted[op_q.id] = 1
  /\ state_q = "RESP" =>
       accepted[op_q.id] = IF op_q.misaligned THEN 0 ELSE 1
  /\ discard_q /\ cur # NoOp => cur.id # op_q.id
  /\ state_q = "BUSY" /\ ~request_sent_q =>
       \A d \in delivered : d.op.id # op_q.id
  /\ RequestHeld

\* Without a request in flight a cycle leaves the memory and the history of
\* acceptances alone.
LEMMA QuietFacts ==
  ASSUME IInv, AcceptInReset = FALSE, NEW in \in Inputs, Around(in),
         ~req_valid(in)
  PROVE  /\ ~request_fire(in) /\ offered' = NoOp
         /\ \A i \in Ids : accepted'[i] = accepted[i]
         /\ bus' = IF in.rsp THEN <<>> ELSE bus
         /\ bus = <<>> => ~in.rsp
<1>1. ~request_fire(in)
  BY DEF request_fire
<1>2. Pending(in) = bus
  BY <1>1 DEF Pending
<1>. QED  BY <1>1, <1>2, AcceptedFacts, AroundStep, BusFacts
          DEF Around, MemoryContract

\* A reset keeps no operation, and waits for the response it is owed.
LEMMA ResetStep ==
  ASSUME IInv, AcceptInReset = FALSE, NEW in \in Inputs, Reset(in)
  PROVE  UnitInv'
<1>. Around(in) /\ in.rst
  BY DEF Reset
<1>1. ~request_fire(in) /\ Pending(in) = bus
  BY RequestFacts DEF Around
<1>2. cur' = NoOp /\ offered' = NoOp
  BY AroundStep, OwnerFacts
<1>3. OwesOneResponse'
  BY <1>1, BusFacts, SeqFacts DEF Reset, IInv, OwesOneResponse
<1>4. Holding'
  BY <1>2 DEF Reset, Holding
<1>. QED  BY <1>2, <1>3, <1>4 DEF Reset, UnitInv, RequestHeld

\* An idle unit that sees no operation asks for nothing.
LEMMA IdleStep ==
  ASSUME IInv, AcceptInReset = FALSE, NEW in \in Inputs, Idle(in)
  PROVE  UnitInv'
<1>. /\ Around(in) /\ state_q = "IDLE" /\ state_q' = "IDLE" /\ ~discard_q'
     /\ cur = NoOp \/ in.kill
     /\ op_q' = op_q /\ result_q' = result_q
     /\ request_sent_q' = request_sent_q /\ discard_q' = FALSE
  BY DEF Idle
<1>1. ~req_valid(in)
  BY DEF req_valid, issue_input, issue_saved, req_ready
<1>2. bus = <<>> /\ bus' = <<>>
  BY <1>1, QuietFacts DEF IInv, OwesOneResponse
<1>3. cur' # NoOp => accepted'[cur'.id] = 0
  BY AroundStep, OwnerFacts
<1>. QED  BY <1>1, <1>2, <1>3, QuietFacts, AroundStep
          DEF UnitInv, OwesOneResponse, Holding, RequestHeld, IInv, TypeOK

\* An alignment fault is saved as the response.
LEMMA AcceptMisalignedStep ==
  ASSUME IInv, AcceptInReset = FALSE, NEW in \in Inputs, AcceptMisaligned(in)
  PROVE  UnitInv'
<1>. /\ Around(in) /\ state_q = "IDLE" /\ state_q' = "RESP"
     /\ discard_q' = FALSE
     /\ ~in.rst /\ ~in.kill /\ cur # NoOp /\ cur.misaligned /\ op_q' = cur
     /\ result_q' = [of |-> cur.id, exc |-> "misaligned"]
     /\ request_sent_q' = request_sent_q
  BY DEF AcceptMisaligned, Accept
<1>1. ~req_valid(in)
  BY DEF req_valid, issue_input, issue_saved
<1>2. bus = <<>> /\ bus' = <<>>
  BY <1>1, QuietFacts DEF IInv, OwesOneResponse
<1>3. cur' = cur
  <2>1. ~Captured(in)
    BY <1>1, QuietFacts DEF Captured, rsp_valid, response_seen
  <2>. QED  BY <2>1, OwnerFacts
<1>4. cur \in Ops /\ accepted'[cur.id] = 0
  BY <1>1, QuietFacts, OpFacts DEF IInv, TypeOK, Performed
<1>5. result_q' \in Results
  BY <1>4, OpFacts DEF Results
<1>. QED  BY <1>1, <1>2, <1>3, <1>4, <1>5, QuietFacts, AroundStep
          DEF UnitInv, OwesOneResponse, Holding, RequestHeld, IInv, TypeOK

\* A unit that has just accepted an operation asks for that operation.
LEMMA AcceptFacts ==
  ASSUME IInv, AcceptInReset = FALSE, NEW in \in Inputs, Accept(in),
         ~cur.misaligned
  PROVE  /\ cur \in Ops /\ issue_input(in) /\ req_valid(in) /\ Request(in) = cur
         /\ bus = <<>> /\ op_q' = cur
         /\ request_fire(in) <=> in.ready
         /\ accepted'[cur.id] = IF request_fire(in) THEN 1 ELSE 0
         /\ bus' = IF request_fire(in) /\ ~in.rsp THEN <<cur>> ELSE <<>>
         /\ in.rsp => request_fire(in)
         /\ Captured(in) <=> in.rsp /\ in.take
<1>. /\ state_q = "IDLE" /\ ~in.rst /\ ~in.kill /\ cur # NoOp /\ op_q' = cur
     /\ Around(in) /\ MemoryContract(in)
  BY DEF Accept, Around
<1>1. /\ issue_input(in) /\ req_valid(in) /\ Request(in) = cur
      /\ request_fire(in) <=> in.ready
  BY DEF issue_input, req_ready, req_valid, Request, request_fire
<1>2. /\ cur \in Ops /\ cur.id \in Ids /\ accepted[cur.id] = 0 /\ bus = <<>>
  BY OpFacts DEF IInv, TypeOK, Performed, OwesOneResponse
<1>3. accepted'[cur.id] = IF request_fire(in) THEN 1 ELSE 0
  BY <1>1, <1>2, AcceptedFacts
<1>4. /\ Pending(in) = IF request_fire(in) THEN <<cur>> ELSE <<>>
      /\ in.rsp => Pending(in) # <<>>
  BY <1>1, <1>2, RequestFacts DEF MemoryContract
<1>5. bus' = IF request_fire(in) /\ ~in.rsp THEN <<cur>> ELSE <<>>
  BY <1>4, BusFacts
<1>6. Captured(in) <=> in.rsp /\ in.take
  BY <1>4 DEF Captured, rsp_valid, response_seen, response_discard
<1>. QED  BY <1>1, <1>2, <1>3, <1>4, <1>5, <1>6

\* A request answered as it is accepted is over, or saved for the pipeline.
LEMMA AcceptAnsweredStep ==
  ASSUME IInv, AcceptInReset = FALSE, NEW in \in Inputs, AcceptAnswered(in)
  PROVE  UnitInv'
<1>. /\ Accept(in) /\ Around(in) /\ ~cur.misaligned
     /\ request_fire(in) /\ in.rsp /\ discard_q' = FALSE
     /\ state_q' = IF in.take THEN "IDLE" ELSE "RESP"
     /\ result_q' = IF in.take THEN NoResult ELSE Answer(in)
     /\ request_sent_q' = request_sent_q /\ ~in.rst /\ ~in.kill /\ cur # NoOp
  BY DEF AcceptAnswered, Accept
<1>1. /\ cur \in Ops /\ op_q' = cur /\ bus' = <<>> /\ Request(in) = cur
      /\ in.ready /\ accepted'[cur.id] = 1 /\ (Captured(in) <=> in.take)
  BY AcceptFacts
<1>2. /\ Answer(in) \in Results /\ Answer(in).of = cur.id
      /\ Answer(in).exc # "misaligned"
  BY <1>1, BusFacts
<1>3. offered' = NoOp /\ cur.id < issued'
  BY <1>1, AroundStep
<1>4. in.take => (cur' # NoOp => accepted'[cur'.id] = 0)
  <2>1. cur' # NoOp /\ cur' # cur => accepted'[cur'.id] = 0
    BY AroundStep
  <2>2. in.take /\ cur' # NoOp => cur' # cur
    BY <1>1, OwnerFacts, OpFacts DEF IInv, Performed, TypeOK
  <2>. QED  BY <2>1, <2>2
<1>5. ~in.take => cur' = cur
  BY <1>1, OwnerFacts
<1>6. OwesOneResponse' /\ RequestHeld'
  BY <1>1, <1>3 DEF OwesOneResponse, RequestHeld
<1>7. Holding'
  BY <1>1, <1>2, <1>5 DEF Holding
<1>8. request_sent_q' \in BOOLEAN /\ result_q' \in Results \cup {NoResult}
  BY <1>2 DEF IInv, TypeOK
<1>. QED  BY <1>1, <1>3, <1>4, <1>6, <1>7, <1>8 DEF UnitInv

\* A request not yet answered is held, or waited for.
LEMMA AcceptWaitStep ==
  ASSUME IInv, AcceptInReset = FALSE, NEW in \in Inputs, AcceptWait(in)
  PROVE  UnitInv'
<1>. /\ Accept(in) /\ Around(in) /\ ~cur.misaligned
     /\ ~(request_fire(in) /\ in.rsp) /\ discard_q' = FALSE
     /\ state_q' = "BUSY" /\ request_sent_q' = request_fire(in)
     /\ result_q' = NoResult /\ ~in.rst /\ ~in.kill /\ cur # NoOp
  BY DEF AcceptWait, Accept
<1>1. /\ cur \in Ops /\ op_q' = cur /\ Request(in) = cur
      /\ bus' = IF request_fire(in) THEN <<cur>> ELSE <<>>
      /\ accepted'[cur.id] = IF request_fire(in) THEN 1 ELSE 0
      /\ ~Captured(in) /\ (request_fire(in) <=> in.ready)
  BY AcceptFacts
<1>2. offered' = IF in.ready THEN NoOp ELSE cur
  BY <1>1, AcceptFacts, AroundStep
<1>3. cur' = cur /\ cur.id < issued'
  BY <1>1, OwnerFacts, AroundStep
<1>4. \A d \in delivered' : d.op.id # cur.id
  BY <1>3, CompletionStep
<1>5. OwesOneResponse'
  BY <1>1, SeqFacts DEF OwesOneResponse
<1>6. Holding'
  BY <1>1, <1>3, SeqFacts DEF Holding
<1>. QED  BY <1>1, <1>2, <1>3, <1>4, <1>5, <1>6
          DEF UnitInv, RequestHeld, issue_saved, request_fire

\* A busy unit completes its own operation unless that one was killed; a next
\* one never has the number of the one being drained.
LEMMA BusyFacts ==
  ASSUME IInv, AcceptInReset = FALSE, NEW in \in Inputs, Around(in),
         ~in.rst, state_q = "BUSY"
  PROVE  /\ req_valid(in) <=> ~request_sent_q
         /\ request_fire(in) <=> ~request_sent_q /\ in.ready
         /\ Request(in) = op_q
         /\ Captured(in) <=> /\ cur # NoOp /\ in.take
                             /\ response_seen(in) /\ ~response_discard(in)
         /\ response_seen(in) <=> in.rsp
         /\ in.rsp => request_sent_q \/ request_fire(in)
         /\ response_discard(in) /\ cur' # NoOp =>
              /\ accepted'[cur'.id] = 0
              /\ op_q # NoOp => cur'.id # op_q.id
         /\ request_fire(in) =>
              /\ op_q \in Ops /\ ~op_q.misaligned
              /\ accepted'[op_q.id] = 1 /\ Pending(in) = <<op_q>>
         /\ ~request_fire(in) => accepted' = accepted /\ Pending(in) = bus
<1>. MemoryContract(in) /\ Memory(in)
  BY DEF Around
<1>1. /\ ~issue_input(in) /\ Request(in) = op_q
      /\ req_valid(in) <=> ~request_sent_q
  BY DEF issue_input, req_ready, Request, req_valid, issue_saved
<1>2. request_fire(in) <=> ~request_sent_q /\ in.ready
  BY <1>1 DEF request_fire
<1>3. ~request_fire(in) => accepted' = accepted /\ Pending(in) = bus
  BY DEF Memory, Pending
<1>4. request_fire(in) =>
        /\ op_q \in Ops /\ ~op_q.misaligned
        /\ accepted'[op_q.id] = 1 /\ Pending(in) = <<op_q>>
  BY <1>1, RequestFacts, AcceptedFacts, OpFacts
<1>5. in.rsp => request_sent_q \/ request_fire(in)
  BY <1>3 DEF MemoryContract, IInv, OwesOneResponse
<1>6. response_seen(in) <=> in.rsp
  BY <1>5 DEF response_seen
<1>7. Captured(in) <=> /\ cur # NoOp /\ in.take
                       /\ response_seen(in) /\ ~response_discard(in)
  BY DEF Captured, rsp_valid
<1>8. ASSUME response_discard(in), cur' # NoOp
      PROVE  /\ accepted'[cur'.id] = 0
             /\ op_q # NoOp => cur'.id # op_q.id
  <2>1. discard_q /\ ~in.kill
    BY <1>8, OwnerFacts DEF response_discard
  <2>2. CASE cur' = cur
    <3>1. /\ accepted[cur.id] = 0 /\ cur.id # op_q.id /\ cur.id \in Ids
      BY <1>8, <2>1, <2>2, OpFacts DEF IInv, Performed, TypeOK
    <3>. QED  BY <1>1, <2>2, <3>1, AcceptedFacts
  <2>3. CASE cur' # cur
    BY <1>8, <2>3, AroundStep
  <2>. QED  BY <2>2, <2>3
<1>. QED  BY <1>1, <1>2, <1>3, <1>4, <1>5, <1>6, <1>7, <1>8

\* A kill leaves the request in place and marks its response for discarding.
LEMMA BusyWaitStep ==
  ASSUME IInv, AcceptInReset = FALSE, NEW in \in Inputs, BusyWait(in)
  PROVE  UnitInv'
<1>. /\ Around(in) /\ ~in.rst /\ state_q = "BUSY" /\ ~response_seen(in)
     /\ discard_q' = (discard_q \/ in.kill)
     /\ request_sent_q' = (request_sent_q \/ request_fire(in))
     /\ state_q' = "BUSY" /\ op_q' = op_q /\ result_q' = result_q
  BY DEF BusyWait
<1>. TypeOK /\ Holding
  BY DEF IInv
<1>1. ~in.rsp /\ ~Captured(in) /\ Request(in) = op_q
  BY BusyFacts
<1>2. discard_q' <=> response_discard(in)
  BY DEF response_discard
<1>3. discard_q' /\ cur' # NoOp => /\ accepted'[cur'.id] = 0
                                   /\ op_q # NoOp => cur'.id # op_q.id
  BY <1>2, BusyFacts
<1>4. ~discard_q' => cur' = cur /\ cur = op_q /\ cur # NoOp
  <2>1. ~discard_q' => cur = op_q /\ cur # NoOp /\ ~in.kill
    BY DEF Holding
  <2>. QED  BY <1>1, <2>1, OwnerFacts
<1>5. OwesOneResponse'
  <2>1. bus' = Pending(in)
    BY <1>1, BusFacts
  <2>2. CASE request_fire(in)
    BY <2>1, <2>2, BusyFacts, SeqFacts DEF OwesOneResponse
  <2>3. CASE ~request_fire(in)
    BY <2>1, <2>3, BusyFacts DEF OwesOneResponse, IInv
  <2>. QED  BY <2>2, <2>3
<1>6. ~request_sent_q' => /\ ~request_sent_q /\ op_q \in Ops
                          /\ ~op_q.misaligned /\ accepted'[op_q.id] = 0
                          /\ \A d \in delivered' : d.op.id # op_q.id
  <2>. HAVE ~request_sent_q'
  <2>1. /\ ~request_sent_q /\ ~request_fire(in) /\ op_q \in Ops
        /\ ~op_q.misaligned /\ accepted[op_q.id] = 0
    BY DEF Holding, IInv, Performed
  <2>2. delivered' = delivered
    BY <1>1 DEF Around, Memory
  <2>3. \A d \in delivered : d.op.id # op_q.id
    BY <2>1 DEF IInv, Past
  <2>. QED  BY <2>1, <2>2, <2>3, BusyFacts
<1>7. request_sent_q' /\ ~discard_q' =>
        bus'[1] = op_q /\ ~op_q.misaligned /\ accepted'[op_q.id] = 1
  <2>1. bus' = Pending(in)
    BY <1>1, BusFacts
  <2>2. CASE request_fire(in)
    BY <2>1, <2>2, BusyFacts, SeqFacts
  <2>3. CASE ~request_fire(in)
    BY <2>1, <2>3, BusyFacts DEF Holding, IInv, Performed
  <2>. QED  BY <2>2, <2>3
<1>8. offered' # NoOp => ~request_sent_q' /\ offered' = op_q
  BY <1>1, BusyFacts, AroundStep
<1>9. Holding'
  BY <1>4, <1>6, <1>7 DEF Holding
<1>10. op_q # NoOp => op_q.id < issued'
  BY AroundStep
<1>11. RequestHeld' /\ offered' \in Ops \cup {NoOp}
  BY <1>8 DEF RequestHeld, issue_saved, TypeOK
<1>12. /\ request_sent_q' \in BOOLEAN /\ discard_q' \in BOOLEAN
       /\ discard_q' /\ cur' # NoOp => cur'.id # op_q.id
  <2>1. discard_q' /\ cur' # NoOp => cur'.id # op_q.id
    <3>1. CASE op_q = NoOp
      BY <3>1, OwnerFacts, OpFacts
    <3>. QED  BY <1>3, <3>1
  <2>. QED  BY <2>1 DEF TypeOK, Inputs, request_fire
<1>. QED  BY <1>3, <1>5, <1>6, <1>7, <1>9, <1>10, <1>11, <1>12
          DEF UnitInv, TypeOK

\* An answer ends the request: it is discarded, taken or saved.
LEMMA BusyResponseStep ==
  ASSUME IInv, AcceptInReset = FALSE, NEW in \in Inputs, BusyResponse(in)
  PROVE  UnitInv'
<1>. /\ Around(in) /\ ~in.rst /\ state_q = "BUSY" /\ response_seen(in)
     /\ discard_q' = FALSE /\ request_sent_q' = FALSE /\ op_q' = op_q
     /\ IF response_discard(in) \/ in.take
        THEN state_q' = "IDLE" /\ result_q' = result_q
        ELSE state_q' = "RESP" /\ result_q' = Answer(in)
  BY DEF BusyResponse
<1>. TypeOK /\ Holding
  BY DEF IInv
<1>1. in.rsp /\ bus' = <<>>
  BY BusyFacts, BusFacts
<1>2. offered' = NoOp
  BY <1>1, BusyFacts, AroundStep
<1>3. response_discard(in) => (cur' # NoOp => accepted'[cur'.id] = 0)
  BY BusyFacts
<1>4. ASSUME ~response_discard(in)
      PROVE  /\ ~discard_q /\ ~in.kill /\ cur = op_q /\ cur # NoOp /\ cur \in Ops
             /\ Captured(in) <=> in.take
  BY <1>4, BusyFacts DEF response_discard, Holding, TypeOK
<1>5. ~response_discard(in) /\ in.take => (cur' # NoOp => accepted'[cur'.id] = 0)
  <2>1. ~response_discard(in) /\ in.take /\ cur' # NoOp => cur' # cur
    BY <1>4, OwnerFacts, OpFacts DEF IInv, Performed
  <2>. QED  BY <2>1, AroundStep
<1>6. ASSUME ~response_discard(in), ~in.take
      PROVE  /\ cur' = cur /\ cur = op_q /\ cur # NoOp /\ ~op_q.misaligned
             /\ accepted'[op_q.id] = 1
             /\ Answer(in) \in Results /\ Answer(in).of = op_q.id
             /\ Answer(in).exc # "misaligned"
  <2>1. cur' = cur /\ cur = op_q /\ cur # NoOp
    BY <1>4, <1>6, OwnerFacts
  <2>2. CASE request_fire(in)
    BY <1>1, <2>1, <2>2, BusyFacts, BusFacts
  <2>3. CASE ~request_fire(in)
    <3>1. request_sent_q /\ bus[1] = op_q /\ ~op_q.misaligned
          /\ accepted[op_q.id] = 1
      BY <1>1, <1>4, <1>6, <2>3, BusyFacts DEF Holding, IInv, Performed
    <3>. QED  BY <1>1, <2>1, <2>3, <3>1, BusyFacts, BusFacts
  <2>. QED  BY <2>2, <2>3
<1>7. Holding'
  BY <1>6 DEF Holding
<1>8. OwesOneResponse' /\ RequestHeld'
  BY <1>1, <1>2 DEF OwesOneResponse, RequestHeld
<1>9. op_q # NoOp => op_q.id < issued'
  BY AroundStep
<1>10. /\ state_q' \in {"IDLE", "RESP"}
       /\ result_q' \in Results \cup {NoResult}
  BY <1>6 DEF TypeOK
<1>11. state_q' = "IDLE" => (cur' # NoOp => accepted'[cur'.id] = 0)
  BY <1>3, <1>5
<1>12. state_q' = "RESP" =>
         accepted'[op_q.id] = IF op_q.misaligned THEN 0 ELSE 1
  BY <1>6
<1>. QED  BY <1>2, <1>7, <1>8, <1>9, <1>10, <1>11, <1>12 DEF UnitInv, TypeOK

\* The saved response stays until it is taken or its operation is killed.
LEMMA RespondStep ==
  ASSUME IInv, AcceptInReset = FALSE, NEW in \in Inputs, Respond(in)
  PROVE  UnitInv'
<1>. /\ Around(in) /\ ~in.rst /\ state_q = "RESP"
     /\ state_q' = IF in.kill \/ in.take THEN "IDLE" ELSE "RESP"
     /\ request_sent_q' = request_sent_q /\ discard_q' = discard_q
     /\ op_q' = op_q /\ result_q' = result_q
  BY DEF Respond
<1>. TypeOK /\ Holding
  BY DEF IInv
<1>1. ~req_valid(in)
  BY DEF req_valid, issue_input, issue_saved, req_ready
<1>2. bus = <<>> /\ bus' = <<>>
  BY <1>1, QuietFacts DEF IInv, OwesOneResponse
<1>3. ~discard_q /\ cur = op_q /\ cur # NoOp /\ cur \in Ops
  BY DEF Holding, TypeOK
<1>4. Captured(in) <=> ~in.kill /\ in.take
  BY <1>3 DEF Captured, rsp_valid
<1>5. state_q' = "IDLE" => (cur' # NoOp => accepted'[cur'.id] = 0)
  <2>1. state_q' = "IDLE" /\ cur' # NoOp => Captured(in) /\ cur' # cur
    BY <1>3, <1>4, OwnerFacts, OpFacts DEF IInv, Performed
  <2>. QED  BY <2>1, AroundStep
<1>6. state_q' = "RESP" => cur' = cur
  BY <1>3, <1>4, OwnerFacts
<1>7. accepted'[op_q.id] = IF op_q.misaligned THEN 0 ELSE 1
  <2>1. accepted[op_q.id] = IF op_q.misaligned THEN 0 ELSE 1
    BY DEF IInv, Performed
  <2>. QED  BY <1>1, <1>3, <2>1, QuietFacts, OpFacts
<1>8. Holding'
  BY <1>3, <1>6 DEF Holding
<1>9. OwesOneResponse' /\ RequestHeld' /\ offered' = NoOp
  BY <1>1, <1>2, QuietFacts DEF OwesOneResponse, RequestHeld
<1>10. op_q # NoOp => op_q.id < issued'
  BY AroundStep
<1>. QED  BY <1>3, <1>5, <1>7, <1>8, <1>9, <1>10 DEF UnitInv, TypeOK

-----------------------------------------------------------------------------
(* Invariance.                                                             *)

\* The unit starts with nothing in EX/MEM and nothing in the memory.
LEMMA Initial ==
  Init => IInv
<1>. SUFFICES ASSUME Init  PROVE IInv
  OBVIOUS
<1>1. TypeOK
  <2>1. bus \in Seq(Ops)
    BY SeqFacts DEF Init
  <2>2. accepted \in [Ids -> Nat]
    BY DEF Init
  <2>3. issued \in 0 .. MaxOps
    BY DEF Init
  <2>. QED  BY <2>1, <2>2, <2>3 DEF Init, TypeOK
<1>. QED  BY <1>1 DEF Init, IInv, OwesOneResponse, Holding, Performed, Past,
                      OwnResponse, PerformedOnce, RequestHeld

\* What the surroundings and the unit preserve makes the whole invariant.
LEMMA Together ==
  ASSUME IInv, AcceptInReset = FALSE, NEW in \in Inputs, Around(in), UnitInv'
  PROVE  IInv'
<1>1. TypeOK'
  BY OwnerFacts, BusFacts, AcceptedFacts, CompletionStep DEF TypeOK, UnitInv
<1>2. Performed'
  BY AroundStep, CompletionStep DEF Performed, PerformedOnce, UnitInv
<1>3. Past'
  BY CompletionStep DEF Past, UnitInv
<1>. QED  BY <1>1, <1>2, <1>3, CompletionStep DEF IInv, UnitInv

\* Every step of the unit preserves the inductive invariant.
LEMMA Inductive ==
  ASSUME IInv, AcceptInReset = FALSE, [Next]_vars
  PROVE  IInv'
<1>1. ASSUME NEW in \in Inputs, Clock(in)
      PROVE  IInv'
  <2>1. Around(in)
    BY <1>1 DEF Clock, Reset, Idle, AcceptMisaligned, AcceptAnswered,
                AcceptWait, Accept, BusyWait, BusyResponse, Respond
  <2>2. UnitInv'
    <3>1. CASE Reset(in)             BY <3>1, ResetStep
    <3>2. CASE Idle(in)              BY <3>2, IdleStep
    <3>3. CASE AcceptMisaligned(in)  BY <3>3, AcceptMisalignedStep
    <3>4. CASE AcceptAnswered(in)    BY <3>4, AcceptAnsweredStep
    <3>5. CASE AcceptWait(in)        BY <3>5, AcceptWaitStep
    <3>6. CASE BusyWait(in)          BY <3>6, BusyWaitStep
    <3>7. CASE BusyResponse(in)      BY <3>7, BusyResponseStep
    <3>8. CASE Respond(in)           BY <3>8, RespondStep
    <3>. QED  BY <1>1, <3>1, <3>2, <3>3, <3>4, <3>5, <3>6, <3>7, <3>8 DEF Clock
  <2>. QED  BY <2>1, <2>2, Together
<1>2. ASSUME UNCHANGED vars
      PROVE  IInv'
  BY <1>2 DEF vars, lsu, outside, IInv, TypeOK, OwesOneResponse, Holding,
              Performed, Past, OwnResponse, PerformedOnce, RequestHeld,
              issue_saved
<1>. QED  BY <1>1, <1>2 DEF Next

\* The inductive invariant holds of every behaviour of the unit with a memory
\* that refuses requests during reset (rv32_mem_demux.sv holds ready low).
THEOREM InvariantHolds ==
  ASSUME AcceptInReset = FALSE
  PROVE  Spec => []IInv
<1>1. Init => IInv
  BY Initial
<1>2. IInv /\ [Next]_vars => IInv'
  BY Inductive
<1>. QED  BY <1>1, <1>2, PTL DEF Spec

\* Type correctness of the unit's registers, for any number of operations.
THEOREM TypeCorrect ==
  ASSUME AcceptInReset = FALSE
  PROVE  Spec => []TypeOK
<1>1. IInv => TypeOK
  BY DEF IInv
<1>. QED  BY <1>1, InvariantHolds, PTL

\* request_sent_q tells exactly whether the memory owes a response, and a
\* refused request stays offered, unchanged, until the memory takes it.
THEOREM KeepsPortContract ==
  ASSUME AcceptInReset = FALSE
  PROVE  Spec => []PortContract
<1>1. IInv => PortContract
  BY DEF IInv, PortContract
<1>. QED  BY <1>1, InvariantHolds, PTL

\* A load or store never completes with the answer to another one, whatever
\* kills and resets came between.
THEOREM ResponsesAreOwn ==
  ASSUME AcceptInReset = FALSE
  PROVE  Spec => []OwnResponse
<1>1. IInv => OwnResponse
  BY DEF IInv
<1>. QED  BY <1>1, InvariantHolds, PTL

\* The memory performs an access at most once, and exactly once if it
\* completes without an alignment fault.
THEOREM AccessesAreOnce ==
  ASSUME AcceptInReset = FALSE
  PROVE  Spec => []PerformedOnce
<1>1. IInv => PerformedOnce
  BY DEF IInv
<1>. QED  BY <1>1, InvariantHolds, PTL

\* A busy unit serves the operation in EX/MEM, or drains one whose number no
\* operation in EX/MEM has.
THEOREM ServesItsOwner ==
  ASSUME AcceptInReset = FALSE
  PROVE  Spec => []BusyForOwner
<1>1. IInv => BusyForOwner
  BY DEF IInv, Holding, Performed, BusyForOwner
<1>. QED  BY <1>1, InvariantHolds, PTL

-----------------------------------------------------------------------------
(* The SoC's data memory keeps the contract, for any assignment of targets *)
(* to operations; so the theorems above hold of the LSU in the SoC.        *)

\* The slot names the target that answers next cycle what the memory owes.
\* It is what the responses of targets with a longer latency would break.
SlotInv ==
  memory = "soc" =>
    /\ pending_target_q \in Targets
    /\ target_of \in [Ids -> Targets]
    /\ IF pending_q
       THEN \E op \in Ops :
              /\ bus = <<op>>
              /\ answer = [Quiet EXCEPT ![pending_target_q] = op]
       ELSE bus = <<>> /\ answer = Quiet

\* While the slot is taken, its target answers.
LEMMA SlotAnswers ==
  ASSUME SlotInv, memory = "soc"
  PROVE  /\ core_rsp_valid <=> pending_q
         /\ pending_q <=> bus # <<>>
         /\ pending_q => answer = [Quiet EXCEPT ![pending_target_q] = bus[1]]
<1>1. CASE pending_q
  <2>1. PICK op \in Ops :
          /\ bus = <<op>>
          /\ answer = [Quiet EXCEPT ![pending_target_q] = op]
    BY <1>1 DEF SlotInv
  <2>2. bus # <<>> /\ bus[1] = op
    BY <2>1
  <2>3. answer[pending_target_q] = op /\ op # NoOp
    BY <2>1, OpFacts DEF SlotInv, Quiet
  <2> QED BY <1>1, <2>1, <2>2, <2>3 DEF core_rsp_valid
<1>2. CASE ~pending_q
  BY <1>2 DEF SlotInv, core_rsp_valid
<1> QED BY <1>1, <1>2

\* One cycle of the port.
LEMMA SlotStep ==
  ASSUME IInv, SlotInv, AcceptInReset = FALSE,
         NEW in \in Inputs, Clock(in), Bus(in)
  PROVE  SlotInv'
<1>1. Around(in)
  BY DEF Clock, Reset, Idle, AcceptMisaligned, AcceptAnswered, AcceptWait,
         Accept, BusyWait, BusyResponse, Respond
<1>2. MemoryContract(in) /\ Memory(in)
  BY <1>1 DEF Around
<1>3. memory' = memory /\ target_of' = target_of
  BY DEF Bus
<1>4. SUFFICES ASSUME memory = "soc" PROVE SlotInv'
  BY <1>3 DEF SlotInv
<1>5. SocSignals(in) /\ TargetsStep(in) /\ DemuxStep(in)
  BY <1>4 DEF Bus, SocMemory
<1>6. in.rsp <=> pending_q
  BY <1>4, <1>5, SlotAnswers DEF SocSignals, core_rsp_valid, Inputs
<1>7. bus' = IF in.rsp THEN <<>> ELSE Pending(in)
  BY <1>1, BusFacts
<1>8. CASE request_fire(in)
  <2>1. /\ ~in.rst /\ bus = <<>> /\ Request(in) \in Ops
        /\ Pending(in) = <<Request(in)>>
    BY <1>2, <1>8, RequestFacts
  <2>2. ~in.rsp
    BY <1>4, <1>6, <2>1, SlotAnswers
  <2>3. request_target(in) \in Targets
    BY <1>4, <2>1, OpFacts DEF request_target, SlotInv
  <2>4. pending_q' = TRUE /\ pending_target_q' = request_target(in)
    BY <1>5, <1>8, <2>1 DEF DemuxStep
  <2>5. answer' = [Quiet EXCEPT ![request_target(in)] = Request(in)]
    BY <1>5, <1>8, <2>3 DEF TargetsStep, Quiet
  <2> QED BY <1>3, <1>4, <1>7, <2>1, <2>2, <2>3, <2>4, <2>5 DEF SlotInv
<1>9. CASE ~request_fire(in)
  <2>1. Pending(in) = bus
    BY <1>9 DEF Pending
  <2>2. bus' = <<>>
    BY <1>4, <1>6, <1>7, <2>1, SlotAnswers
  <2>3. answer' = Quiet
    BY <1>5, <1>9 DEF TargetsStep, Quiet
  <2>4. ~pending_q' /\ pending_target_q' \in Targets
    BY <1>4, <1>5, <1>6, <1>9 DEF DemuxStep, SlotInv, Targets
  <2> QED BY <1>3, <1>4, <2>2, <2>3, <2>4 DEF SlotInv
<1> QED BY <1>8, <1>9

\* The slot's invariant in every reachable state.
LEMMA SlotHolds ==
  ASSUME AcceptInReset = FALSE
  PROVE  BusSpec => []SlotInv
<1>1. BusSpec => Spec
  <2>1. BusNext => Next
    BY DEF BusNext, Next
  <2>2. [BusNext]_<<vars, busvars>> => [Next]_vars
    BY <2>1
  <2>3. BusInit => Init
    BY DEF BusInit
  <2> QED BY <2>2, <2>3, PTL DEF BusSpec, Spec
<1>2. BusInit => SlotInv
  <2> SUFFICES ASSUME BusInit, memory = "soc" PROVE SlotInv
    BY DEF SlotInv
  <2>1. target_of \in [Ids -> Targets]
    BY AddressedAssumption DEF BusInit
  <2> QED BY <2>1 DEF Init, BusInit, SlotInv, Targets
<1>3. IInv /\ SlotInv /\ [BusNext]_<<vars, busvars>> => SlotInv'
  <2> SUFFICES ASSUME IInv, SlotInv, [BusNext]_<<vars, busvars>>
               PROVE  SlotInv'
    OBVIOUS
  <2>1. ASSUME NEW in \in Inputs, Clock(in), Bus(in) PROVE SlotInv'
    BY <2>1, SlotStep
  <2>2. CASE UNCHANGED <<vars, busvars>>
    BY <2>2 DEF vars, lsu, outside, busvars, SlotInv
  <2> QED BY <2>1, <2>2 DEF BusNext
<1> QED BY <1>1, <1>2, <1>3, InvariantHolds, PTL DEF BusSpec

\* The demultiplexer and its targets keep the contract that the LSU relies
\* on, across resets, though a reset clears the slot: the answer to what it
\* owed is given in that very cycle.
THEOREM SocIsAMemory ==
  ASSUME AcceptInReset = FALSE
  PROVE  BusSpec => []SocKeepsContract
<1>1. SlotInv => SocKeepsContract
  <2> SUFFICES ASSUME SlotInv, memory = "soc"
               PROVE  /\ \A in \in Inputs :
                           SocSignals(in) => MemoryContract(in)
                      /\ pending_q <=> bus # <<>>
                      /\ pending_q =>
                           answer = [Quiet EXCEPT ![pending_target_q] = bus[1]]
    BY DEF SocKeepsContract
  <2>1. ASSUME NEW in \in Inputs, SocSignals(in)
        PROVE  MemoryContract(in)
    <3>1. in.rsp <=> pending_q
      BY <2>1, SlotAnswers DEF SocSignals, core_rsp_valid, Inputs
    <3>2. in.ready => ~in.rst /\ (bus = <<>> \/ in.rsp)
      BY <2>1, <3>1, SlotAnswers DEF SocSignals, issue_allowed
    <3>3. in.rsp => Pending(in) # <<>>
      <4>1. in.rsp => bus # <<>>
        BY <3>1, SlotAnswers
      <4>2. CASE bus # <<>> /\ request_fire(in)
        <5>1. PICK op \in Ops : bus = <<op>>
          BY <4>2, SlotAnswers DEF SlotInv
        <5>2. Pending(in) = Append(<<op>>, Request(in))
          BY <4>2, <5>1 DEF Pending
        <5> QED BY <5>2
      <4> QED BY <4>1, <4>2 DEF Pending
    <3> QED BY <2>1, <3>2, <3>3 DEF MemoryContract, SocSignals
  <2> QED BY <2>1, SlotAnswers
<1> QED BY <1>1, SlotHolds, PTL
=============================================================================
