------------------------------ MODULE DataBus ------------------------------
(***************************************************************************)
(* The data port with the SoC's memory behind it: the LSU, the four-target *)
(* demultiplexer (rtl/soc/rv32_mem_demux.sv) and the targets' response     *)
(* registers.  The demultiplexer has one pending slot, which names the     *)
(* target that owes the response, and forgets it at a reset; Lsu asks of   *)
(* its memory that every response owed still comes.                        *)
(*                                                                         *)
(* The memory is the SoC's or any that keeps the contract of Lsu.  An      *)
(* operation's address appears by the target that it decodes to.           *)
(***************************************************************************)
EXTENDS Lsu

CONSTANTS
  Memories,   \* the memories to consider: a subset of {"any", "soc"}
  Addressed   \* the targets that the program addresses

Targets == {"TCM", "TIMER", "UART", "GPIO"}

ASSUME MemoriesAssumption  == Memories \subseteq {"any", "soc"}
ASSUME AddressedAssumption == Addressed \subseteq Targets

VARIABLES
  memory,                       \* which of them it is
  target_of,                    \* the target each operation addresses
  pending_q, pending_target_q,  \* the demultiplexer's slot
  answer                        \* per target, the request it answers in
                                \* this cycle (rsp_valid), or NoOp

busvars == <<memory, target_of, pending_q, pending_target_q, answer>>

Quiet   == [t \in Targets |-> NoOp]

-----------------------------------------------------------------------------
(* The demultiplexer's signals.                                            *)

request_target(in) == target_of[Request(in).id]

core_rsp_valid == pending_q /\ answer[pending_target_q] # NoOp

issue_allowed(in) == ~in.rst /\ (~pending_q \/ core_rsp_valid)

\* Every target is ready outside reset, but the UART refuses a byte to send
\* while it sends one.  Without a request, ready means nothing.
SocSignals(in) ==
  /\ in.rsp = core_rsp_valid
  /\ in.err => in.rsp
  /\ in.ready => issue_allowed(in)
  /\ (issue_allowed(in) /\ req_valid(in)) =>
       \/ in.ready
       \/ request_target(in) = "UART" /\ Request(in).cmd = "store"

\* Every target answers in the cycle after it has accepted.
TargetsStep(in) ==
  answer' = [t \in Targets |->
               IF request_fire(in) /\ t = request_target(in) THEN Request(in)
               ELSE NoOp]

\* (An operator named Fault_X is X with a plausible mistake; the checks of
\* the properties replace X by it.)
Fault_DemuxStep(in) ==                   \* taken by a request still refused
  IF in.rst THEN pending_q' = FALSE /\ pending_target_q' = "TCM"
  ELSE IF req_valid(in) /\ issue_allowed(in)
  THEN pending_q' = TRUE /\ pending_target_q' = request_target(in)
  ELSE /\ pending_q' = (pending_q /\ ~in.rsp)
       /\ UNCHANGED pending_target_q

\* The slot is free from the response on, or taken over by a new request.
DemuxStep(in) ==
  IF in.rst THEN pending_q' = FALSE /\ pending_target_q' = "TCM"
  ELSE IF request_fire(in)
  THEN pending_q' = TRUE /\ pending_target_q' = request_target(in)
  ELSE /\ pending_q' = (pending_q /\ ~in.rsp)
       /\ UNCHANGED pending_target_q

SocMemory(in) == SocSignals(in) /\ TargetsStep(in) /\ DemuxStep(in)

Bus(in) ==
  /\ IF memory = "soc" THEN SocMemory(in)
     ELSE UNCHANGED <<pending_q, pending_target_q, answer>>
  /\ UNCHANGED <<memory, target_of>>

-----------------------------------------------------------------------------

\* What the targets are named is of no account where there are none.
BusInit ==
  /\ Init
  /\ memory \in Memories
  /\ target_of \in [Ids -> IF memory = "soc" THEN Addressed ELSE {"TCM"}]
  /\ pending_q = FALSE /\ pending_target_q = "TCM"
  /\ answer = Quiet

BusNext == \E in \in Inputs : Clock(in) /\ Bus(in)

BusSpec     == BusInit /\ [][BusNext]_<<vars, busvars>>
FairBusSpec == BusSpec /\ Fairness

-----------------------------------------------------------------------------
(* Properties.                                                             *)

\* The SoC keeps the contract the LSU relies on, in every cycle and a reset
\* cycle too: it answers what is owed, from the target that accepted it and
\* from no other, takes nothing while it owes, and nothing in reset.
SocKeepsContract ==
  memory = "soc" =>
    /\ \A in \in Inputs : SocSignals(in) => MemoryContract(in)
    /\ pending_q <=> bus # <<>>
    /\ pending_q => answer = [Quiet EXCEPT ![pending_target_q] = bus[1]]
=============================================================================
