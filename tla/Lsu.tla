-------------------------------- MODULE Lsu --------------------------------
(***************************************************************************)
(* The load/store unit (rtl/core/lsu.sv) between its owner, the EX/MEM     *)
(* register of rv32_core.sv, and a memory that follows the request and     *)
(* response contract of the data port.  One step is one rising clock edge. *)
(*                                                                         *)
(* An operation is an identifier, its command and whether its address is   *)
(* misaligned; a result is the identifier of the operation the memory      *)
(* answered (a history value: the RTL has no tag, which is why ownership   *)
(* matters) and the exception.  The core presents only loads and stores.   *)
(***************************************************************************)
EXTENDS Naturals, Sequences

CONSTANTS
  MaxOps,        \* bound on the number of operations entering EX/MEM
  AcceptInReset  \* may the memory accept a request in a cycle with rst_i?

ASSUME MaxOpsAssumption == MaxOps \in Nat \ {0}
ASSUME AcceptAssumption == AcceptInReset \in BOOLEAN

VARIABLES
  state_q, request_sent_q, discard_q,
  op_q,      \* the saved operation: cmd_q, size_q, addr_q, store_*_q
  result_q,  \* the saved result: load_data_q, exception_q
  cur,       \* the operation that owns EX/MEM, or NoOp
  issued,    \* how many operations have entered EX/MEM
  bus,       \* the memory: accepted, unanswered requests, oldest first
  offered,   \* history: the request offered and refused at the last edge
  accepted,  \* history: how often the memory accepted each operation
  delivered  \* history: what completed, with the result it was given

lsu     == <<state_q, request_sent_q, discard_q, op_q, result_q>>
outside == <<cur, issued, bus, offered, accepted, delivered>>
vars    == <<lsu, outside>>

Ids == 0 .. MaxOps - 1

Ops  == [id: Ids, cmd: {"load", "store"}, misaligned: BOOLEAN]
NoOp == [id |-> MaxOps, cmd |-> "none", misaligned |-> FALSE]

Results  == [of: Ids, exc: {"none", "access", "misaligned"}]
NoResult == [of |-> MaxOps, exc |-> "none"]

-----------------------------------------------------------------------------
(* The cycle's inputs: kill_i, the memory's ready, response and error, and *)
(* whether the pipeline takes a completion.                                *)

Inputs == [rst: BOOLEAN, kill: BOOLEAN, ready: BOOLEAN,
           rsp: BOOLEAN, err: BOOLEAN, take: BOOLEAN]

req_ready(in)   == state_q = "IDLE" /\ ~in.rst /\ ~in.kill
issue_input(in) == cur # NoOp /\ req_ready(in) /\ ~cur.misaligned
issue_saved     == state_q = "BUSY" /\ ~request_sent_q

\* (An operator named Fault_X is X with a plausible mistake; the checks of
\* the properties replace X by it.)
req_valid(in) == issue_input(in) \/ issue_saved
Fault_Request(in) == op_q                       \* the input is not selected
Request(in)   == IF issue_input(in) THEN cur ELSE op_q

request_fire(in) == req_valid(in) /\ in.ready

\* The requests the memory can answer in this cycle, a new one included.
Pending(in) == IF request_fire(in) THEN Append(bus, Request(in)) ELSE bus

response_seen(in) ==
  /\ in.rsp
  /\ \/ state_q = "BUSY" /\ (request_sent_q \/ request_fire(in))
     \/ state_q = "IDLE" /\ request_fire(in)
Fault_response_discard(in) == in.kill           \* an earlier kill is lost
response_discard(in) == in.kill \/ (state_q = "BUSY" /\ discard_q)

Answer(in) ==
  [of |-> Head(Pending(in)).id, exc |-> IF in.err THEN "access" ELSE "none"]

rsp_valid(in) == IF state_q = "RESP" THEN ~in.kill
                 ELSE response_seen(in) /\ ~response_discard(in)
Rsp(in)       == IF state_q = "RESP" THEN result_q ELSE Answer(in)

\* The memory contract: one request outstanding, though a new one may be
\* accepted as the old one is answered; each is answered once, in order; an
\* answer needs a request.  The err input means something only in an answer.
MemoryContract(in) ==
  /\ in.ready => bus = <<>> \/ in.rsp
  /\ in.ready /\ in.rst => AcceptInReset
  /\ in.rsp => Pending(in) # <<>>
  /\ in.err => in.rsp

-----------------------------------------------------------------------------
(* The owner and the memory.                                               *)

\* The next operation of the program, when it enters EX/MEM.
Entering == IF issued = MaxOps THEN {}
            ELSE [id: {issued}, cmd: {"load", "store"}, misaligned: BOOLEAN]

Captured(in) == cur # NoOp /\ rsp_valid(in) /\ in.take /\ ~in.rst

\* EX/MEM holds its operation until the pipeline captures the response; a
\* reset or a trap in MEM/WB flushes it.
Owner(in) ==
  /\ IF in.rst \/ in.kill             THEN cur' = NoOp
     ELSE IF Captured(in) \/ cur = NoOp THEN cur' \in {NoOp} \cup Entering
     ELSE cur' = cur
  /\ issued' = IF cur' # NoOp /\ cur' # cur THEN issued + 1 ELSE issued

Memory(in) ==
  /\ bus' = IF in.rsp THEN Tail(Pending(in)) ELSE Pending(in)
  /\ offered' = IF req_valid(in) /\ ~in.ready /\ ~in.rst
                THEN Request(in) ELSE NoOp
  /\ accepted' = IF request_fire(in)
                 THEN [accepted EXCEPT ![Request(in).id] = @ + 1]
                 ELSE accepted
  /\ delivered' = IF Captured(in)
                  THEN delivered \cup {[op |-> cur, result |-> Rsp(in)]}
                  ELSE delivered

\* What surrounds the unit in one cycle.
Around(in) == MemoryContract(in) /\ Owner(in) /\ Memory(in)

-----------------------------------------------------------------------------
(* The unit.                                                               *)

Fault_Reset(in) ==                              \* the accepted one forgotten
  /\ in.rst /\ Around(in)
  /\ state_q' = "IDLE" /\ request_sent_q' = FALSE /\ discard_q' = FALSE
  /\ op_q' = NoOp /\ result_q' = NoResult

\* An accepted request cannot be cancelled: its response is drained.
Reset(in) ==
  /\ in.rst /\ Around(in)
  /\ LET drain == state_q = "BUSY" /\ request_sent_q /\ ~in.rsp
     IN  /\ state_q' = IF drain THEN "BUSY" ELSE "IDLE"
         /\ request_sent_q' = drain
         /\ discard_q' = drain
  /\ op_q' = NoOp
  /\ result_q' = NoResult

\* Nothing to do: discard_q is cleared in every idle cycle.
Idle(in) ==
  /\ ~in.rst /\ state_q = "IDLE" /\ Around(in)
  /\ cur = NoOp \/ in.kill
  /\ discard_q' = FALSE
  /\ UNCHANGED <<state_q, request_sent_q, op_q, result_q>>

Accept(in) ==
  /\ ~in.rst /\ state_q = "IDLE" /\ Around(in)
  /\ cur # NoOp /\ ~in.kill
  /\ discard_q' = FALSE
  /\ op_q' = cur

\* A misaligned address never reaches the memory.
AcceptMisaligned(in) ==
  /\ Accept(in)
  /\ cur.misaligned
  /\ state_q' = "RESP"
  /\ result_q' = [of |-> cur.id, exc |-> "misaligned"]
  /\ UNCHANGED request_sent_q

\* A memory may answer in the cycle in which it accepts.
AcceptAnswered(in) ==
  /\ Accept(in)
  /\ ~cur.misaligned
  /\ request_fire(in) /\ in.rsp
  /\ state_q' = IF in.take THEN "IDLE" ELSE "RESP"
  /\ result_q' = IF in.take THEN NoResult ELSE Answer(in)
  /\ UNCHANGED request_sent_q

Fault_AcceptWait(in) ==                         \* the handshake is missed
  /\ Accept(in)
  /\ ~cur.misaligned
  /\ ~(request_fire(in) /\ in.rsp)
  /\ state_q' = "BUSY"
  /\ request_sent_q' = FALSE
  /\ result_q' = NoResult

AcceptWait(in) ==
  /\ Accept(in)
  /\ ~cur.misaligned
  /\ ~(request_fire(in) /\ in.rsp)
  /\ state_q' = "BUSY"
  /\ request_sent_q' = request_fire(in)
  /\ result_q' = NoResult

\* A kill cannot withdraw a request: it is sent and its response discarded.
BusyWait(in) ==
  /\ ~in.rst /\ state_q = "BUSY" /\ Around(in)
  /\ ~response_seen(in)
  /\ discard_q' = (discard_q \/ in.kill)
  /\ request_sent_q' = (request_sent_q \/ request_fire(in))
  /\ UNCHANGED <<state_q, op_q, result_q>>

Fault_BusyResponse(in) ==                       \* waits for a taker
  /\ ~in.rst /\ state_q = "BUSY" /\ Around(in)
  /\ response_seen(in)
  /\ request_sent_q' = FALSE
  /\ discard_q' = FALSE
  /\ IF in.take /\ ~response_discard(in)
     THEN state_q' = "IDLE" /\ UNCHANGED result_q
     ELSE state_q' = "RESP" /\ result_q' = Answer(in)
  /\ UNCHANGED op_q

Fault_BusyResponse2(in) ==                      \* stays busy on a discard
  /\ ~in.rst /\ state_q = "BUSY" /\ Around(in)
  /\ response_seen(in)
  /\ request_sent_q' = response_discard(in)
  /\ discard_q' = FALSE
  /\ IF response_discard(in) THEN UNCHANGED <<state_q, result_q>>
     ELSE IF in.take THEN state_q' = "IDLE" /\ UNCHANGED result_q
     ELSE state_q' = "RESP" /\ result_q' = Answer(in)
  /\ UNCHANGED op_q

BusyResponse(in) ==
  /\ ~in.rst /\ state_q = "BUSY" /\ Around(in)
  /\ response_seen(in)
  /\ request_sent_q' = FALSE
  /\ discard_q' = FALSE
  /\ IF response_discard(in) \/ in.take
     THEN state_q' = "IDLE" /\ UNCHANGED result_q
     ELSE state_q' = "RESP" /\ result_q' = Answer(in)
  /\ UNCHANGED op_q

\* The sticky response.
Respond(in) ==
  /\ ~in.rst /\ state_q = "RESP" /\ Around(in)
  /\ state_q' = IF in.kill \/ in.take THEN "IDLE" ELSE "RESP"
  /\ UNCHANGED <<request_sent_q, discard_q, op_q, result_q>>

Clock(in) ==
  \/ Reset(in)
  \/ Idle(in)
  \/ AcceptMisaligned(in)
  \/ AcceptAnswered(in)
  \/ AcceptWait(in)
  \/ BusyWait(in)
  \/ BusyResponse(in)
  \/ Respond(in)

Init ==
  /\ state_q = "IDLE" /\ request_sent_q = FALSE /\ discard_q = FALSE
  /\ op_q = NoOp /\ result_q = NoResult
  /\ cur = NoOp /\ issued = 0
  /\ bus = <<>> /\ offered = NoOp
  /\ accepted = [i \in Ids |-> 0]
  /\ delivered = {}

Next == \E in \in Inputs : Clock(in)

\* The clock runs; the memory accepts what stays offered and answers what it
\* accepted; the pipeline takes a response that stays valid.
Undisturbed(in) == ~in.rst /\ ~in.kill
Fairness ==
  /\ WF_vars(\E in \in Inputs : Undisturbed(in) /\ cur # NoOp /\ Clock(in))
  /\ WF_vars(\E in \in Inputs : Undisturbed(in) /\ request_fire(in) /\ Clock(in))
  /\ WF_vars(\E in \in Inputs : Undisturbed(in) /\ bus # <<>> /\ in.rsp /\ Clock(in))
  /\ WF_vars(\E in \in Inputs : Undisturbed(in) /\ state_q = "RESP" /\ in.take /\ Clock(in))

Spec     == Init /\ [][Next]_vars
FairSpec == Spec /\ Fairness

-----------------------------------------------------------------------------
(* Properties.                                                             *)

TypeOK ==
  /\ state_q \in {"IDLE", "BUSY", "RESP"}
  /\ request_sent_q \in BOOLEAN /\ discard_q \in BOOLEAN
  /\ op_q \in Ops \cup {NoOp} /\ result_q \in Results \cup {NoResult}
  /\ cur \in Ops \cup {NoOp} /\ issued \in 0 .. MaxOps
  /\ bus \in Seq(Ops)
  /\ offered \in Ops \cup {NoOp}
  /\ accepted \in [Ids -> Nat]
  /\ delivered \subseteq [op: Ops, result: Results]

\* The unit knows whether the memory owes it a response: one is outstanding
\* exactly when it is busy with its request sent, across kills and resets.
OwesOneResponse ==
  IF state_q = "BUSY" /\ request_sent_q THEN Len(bus) = 1 ELSE bus = <<>>

\* No response is handed to another operation: what completes an operation is
\* the memory's answer to that very operation, or its own alignment fault.
OwnResponse ==
  \A d \in delivered :
    /\ d.result.of = d.op.id
    /\ d.result.exc = "misaligned" <=> d.op.misaligned

\* An access is performed at most once, however often it was held or killed;
\* one that completed was performed exactly once, one with an alignment fault
\* never.
PerformedOnce ==
  /\ \A i \in Ids : accepted[i] <= 1
  /\ \A d \in delivered :
       accepted[d.op.id] = IF d.op.misaligned THEN 0 ELSE 1

\* A request offered and refused is offered again, unchanged, at the next
\* edge, even when its owner is killed in between.
RequestHeld == offered # NoOp => issue_saved /\ op_q = offered

\* The unit keeps its side of the memory port across kills and resets.
PortContract == OwesOneResponse /\ RequestHeld

\* A busy unit serves the operation in EX/MEM or drains one nobody owns.
BusyForOwner ==
  /\ state_q # "IDLE" /\ ~discard_q => cur = op_q
  /\ cur # NoOp /\ state_q = "BUSY" /\ discard_q => accepted[cur.id] = 0

\* Every operation in EX/MEM gets its response, or is flushed.
EveryAccessEnds ==
  \A i \in Ids : (cur.id = i) ~> (cur.id # i)
=============================================================================
