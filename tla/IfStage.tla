------------------------------ MODULE IfStage ------------------------------
(***************************************************************************)
(* The instruction fetch stage (rtl/core/if_stage.sv) between the pipeline *)
(* controller and a memory that follows the request and response contract  *)
(* of the instruction port.  One step is one rising clock edge.            *)
(*                                                                         *)
(* Addresses count instructions, so PC + 4 is the next one, with           *)
(* wraparound.  The memory marks a request whose fetch was cancelled after *)
(* it was accepted (a history value: the RTL has no tag).                  *)
(***************************************************************************)
EXTENDS Naturals, Sequences

CONSTANTS NumPCs, ResetVector

VARIABLES
  state_q, next_pc_q, request_pc_q, request_sent_q, discard_q,
  redirect_pending_q,
  packet_q,  \* packet_valid_q and its payload
  if_id,     \* the IF/ID register of rv32_core.sv
  ex_live,   \* ID/EX holds an instruction, which may turn out a redirect
  drain,     \* the controller's trap_drain_q
  bus,       \* the memory: accepted, unanswered requests, oldest first
  offered,   \* history: the address offered and refused at the last edge
  command    \* history: the controller's command at the last edge

fetcher == <<state_q, next_pc_q, request_pc_q, request_sent_q, discard_q,
             redirect_pending_q, packet_q>>
vars == <<fetcher, if_id, ex_live, drain, bus, offered, command>>

PCs      == 0 .. NumPCs - 1
NoPC     == NumPCs

After(a) == (a + 1) % NumPCs

ASSUME NumPCsPositive  == NumPCs \in Nat \ {0}
ASSUME ResetVectorIsPC == ResetVector \in PCs

Requests == [pc: PCs, stale: BOOLEAN]
Packets  == [pc: PCs, answer: Requests, err: BOOLEAN]
NoPacket ==
  [pc |-> NoPC, answer |-> [pc |-> NoPC, stale |-> FALSE], err |-> FALSE]

-----------------------------------------------------------------------------
(* The cycle's inputs: the controller's command and the memory's signals.  *)
(*   advance   pc_enable and if_id_enable                                  *)
(*   hold      neither: an older stage waits or an interlock holds ID      *)
(*   flush     if_id_flush alone: a trap was selected                      *)
(*   redirect  if_id_flush with an EX target                               *)
(*   trap      if_id_flush with mtvec                                      *)

Commands == [cmd: {"redirect", "trap"}, target: PCs]
              \cup [cmd: {"reset", "advance", "hold", "flush"}, target: {NoPC}]
Inputs   == [do: Commands, ready: BOOLEAN, rsp: BOOLEAN, err: BOOLEAN]

rst(in)            == in.do.cmd = "reset"
redirect_valid(in) == in.do.cmd \in {"redirect", "trap"}
kill_event(in)     == in.do.cmd \in {"flush", "redirect", "trap"}
enable(in)         == in.do.cmd \in {"advance", "redirect", "trap"}
consume(in)        == in.do.cmd = "advance"

\* Only an instruction in EX redirects.  From the selection of a trap to its
\* commit the front end neither advances nor redirects, and only a selected
\* trap commits.  A hold is a wait of EX or an interlock that bubbles it.
Controller(in) ==
  /\ in.do.cmd = "redirect" => ex_live
  /\ drain => in.do.cmd \notin {"advance", "redirect"}
  /\ in.do.cmd = "trap" => drain
  /\ drain' = (in.do.cmd = "flush" \/ (drain /\ in.do.cmd = "hold"))
  /\ CASE in.do.cmd = "advance" -> ex_live' = (if_id # NoPacket)
       [] in.do.cmd = "hold"    -> ex_live' \in {ex_live, FALSE}
       [] OTHER                 -> ex_live' = FALSE

-----------------------------------------------------------------------------
(* The request channel.                                                    *)

want_fetch(in) ==
  \/ redirect_valid(in)
  \/ ~kill_event(in) /\ (enable(in) \/ redirect_pending_q)

launch_pc(in) == IF redirect_valid(in) THEN in.do.target ELSE next_pc_q
held_request  == state_q = "BUSY" /\ ~request_sent_q

\* A completed stale or consumed response recycles the request slot at once.
launch_request(in) ==
  /\ ~rst(in) /\ want_fetch(in)
  /\ IF state_q = "IDLE"
     THEN kill_event(in) \/ packet_q = NoPacket \/ consume(in)
     ELSE /\ request_sent_q /\ in.rsp
          /\ \/ redirect_valid(in)
             \/ /\ ~kill_event(in) /\ packet_q = NoPacket
                /\ discard_q \/ consume(in)

req_valid(in)    == ~rst(in) /\ (held_request \/ launch_request(in))
req_addr(in)     == IF held_request THEN request_pc_q ELSE launch_pc(in)
request_fire(in) == req_valid(in) /\ in.ready

request_stale(in) == discard_q \/ kill_event(in)

-----------------------------------------------------------------------------
(* The memory.                                                             *)

\* Cancelling a fetch makes the requests accepted so far stale, and the one
\* held until now; a request launched by the redirect itself is not.
Cancel(in, r) == [r EXCEPT !.stale = @ \/ kill_event(in) \/ rst(in)]
OldRequests(in) == [i \in DOMAIN bus |-> Cancel(in, bus[i])]
NewRequest(in) ==
  [pc |-> req_addr(in), stale |-> held_request /\ kill_event(in)]
Pending(in) == IF request_fire(in) THEN Append(OldRequests(in), NewRequest(in))
               ELSE OldRequests(in)

\* One request outstanding, though a new one may be accepted as the old one is
\* answered.  An answer needs a request, and not one the answer itself causes.
MemoryContract(in) ==
  /\ in.ready => bus = <<>> \/ in.rsp
  /\ in.rsp => bus # <<>> \/ request_fire([in EXCEPT !.rsp = FALSE])
  /\ in.err => in.rsp

Memory(in) ==
  /\ MemoryContract(in)
  /\ bus' = IF in.rsp THEN Tail(Pending(in)) ELSE Pending(in)
  /\ offered' = IF req_valid(in) /\ ~in.ready THEN req_addr(in) ELSE NoPC

-----------------------------------------------------------------------------
(* The response channel and the output slot.                               *)

response_seen(in) ==
  /\ in.rsp
  /\ IF state_q = "BUSY" THEN request_sent_q \/ request_fire(in)
     ELSE launch_request(in) /\ request_fire(in)
response_pc(in)    == IF state_q = "BUSY" THEN request_pc_q ELSE launch_pc(in)
response_live(in)  ==
  response_seen(in) /\ ~(state_q = "BUSY" /\ request_stale(in))
Response(in) ==
  [pc |-> response_pc(in), answer |-> Head(Pending(in)), err |-> in.err]

\* The packet IF offers: the held one first, else a response falling through.
fetch(in) ==
  IF rst(in) \/ kill_event(in)  THEN NoPacket
  ELSE IF packet_q # NoPacket   THEN packet_q
  ELSE IF response_live(in)     THEN Response(in)
  ELSE NoPacket

packet_consumed(in)   == packet_q # NoPacket /\ consume(in)
response_consumed(in) ==
  response_live(in) /\ packet_q = NoPacket /\ consume(in)

\* (An operator named Fault_X is X with a plausible mistake; the checks of
\* the properties replace X by it.)
Fault_OutputSlot(in) ==                            \* a taken packet stays
  packet_q' = IF response_live(in) /\ ~response_consumed(in) THEN Response(in)
              ELSE IF kill_event(in) THEN NoPacket
              ELSE packet_q

OutputSlot(in) ==
  packet_q' =
    IF response_live(in) /\ ~response_consumed(in)    THEN Response(in)
    ELSE IF kill_event(in) \/ packet_consumed(in)     THEN NoPacket
    ELSE packet_q

\* The IF/ID register: flushed, loaded or held.
IfId(in) ==
  if_id' = IF rst(in) \/ kill_event(in) THEN NoPacket
           ELSE IF consume(in)          THEN fetch(in)
           ELSE if_id

Fault_NextFetch(in) ==         \* a target is taken on a flush that has none
  IF request_fire(in) /\ ~(held_request /\ request_stale(in))
  THEN /\ next_pc_q' = After(req_addr(in))
       /\ redirect_pending_q' = FALSE
  ELSE /\ next_pc_q' = IF kill_event(in) THEN in.do.target ELSE next_pc_q
       /\ redirect_pending_q' =
            (redirect_valid(in) \/ (redirect_pending_q /\ ~kill_event(in)))

Fault_NextFetch2(in) ==        \* a stale request moves past the target too
  IF request_fire(in)
  THEN /\ next_pc_q' = After(req_addr(in))
       /\ redirect_pending_q' = FALSE
  ELSE /\ next_pc_q' = IF redirect_valid(in) THEN in.do.target ELSE next_pc_q
       /\ redirect_pending_q' =
            (redirect_valid(in) \/ (redirect_pending_q /\ ~kill_event(in)))

\* The newest target is the next useful address, remembered until a request
\* for it is accepted; accepting a request that is not stale moves past it.
NextFetch(in) ==
  IF request_fire(in) /\ ~(held_request /\ request_stale(in))
  THEN /\ next_pc_q' = After(req_addr(in))
       /\ redirect_pending_q' = FALSE
  ELSE /\ next_pc_q' = IF redirect_valid(in) THEN in.do.target ELSE next_pc_q
       /\ redirect_pending_q' =
            (redirect_valid(in) \/ (redirect_pending_q /\ ~kill_event(in)))

-----------------------------------------------------------------------------
(* The request slot.                                                       *)

Around(in) ==
  Controller(in) /\ Memory(in) /\ IfId(in) /\ command' = in.do
Datapath(in) == ~rst(in) /\ Around(in) /\ OutputSlot(in) /\ NextFetch(in)

\* An accepted request cannot be cancelled: its response is drained.
Reset(in) ==
  /\ rst(in)
  /\ Around(in)
  /\ next_pc_q' = ResetVector /\ request_pc_q' = ResetVector
  /\ redirect_pending_q' = FALSE
  /\ packet_q' = NoPacket
  /\ LET draining == state_q = "BUSY" /\ request_sent_q /\ ~in.rsp
     IN  /\ state_q' = IF draining THEN "BUSY" ELSE "IDLE"
         /\ request_sent_q' = draining
         /\ discard_q' = draining

Idle(in) ==
  /\ Datapath(in)
  /\ state_q = "IDLE" /\ ~launch_request(in)
  /\ discard_q' = FALSE /\ request_sent_q' = FALSE
  /\ UNCHANGED <<state_q, request_pc_q>>

\* A response in the cycle of acceptance leaves the slot free.
Launch(in) ==
  /\ Datapath(in)
  /\ state_q = "IDLE" /\ launch_request(in)
  /\ request_pc_q' = launch_pc(in)
  /\ state_q' = IF request_fire(in) /\ in.rsp THEN "IDLE" ELSE "BUSY"
  /\ request_sent_q' = (request_fire(in) /\ ~in.rsp)
  /\ discard_q' = FALSE

\* Waiting to be accepted or to be answered; a kill cannot withdraw a request.
Wait(in) ==
  /\ Datapath(in)
  /\ state_q = "BUSY" /\ ~response_seen(in)
  /\ request_sent_q' = (request_sent_q \/ request_fire(in))
  /\ discard_q' = request_stale(in)
  /\ UNCHANGED <<state_q, request_pc_q>>

Fault_Answered(in) ==                              \* discard_q not cleared
  /\ Datapath(in)
  /\ state_q = "BUSY" /\ response_seen(in) /\ ~launch_request(in)
  /\ state_q' = IF discard_q THEN "BUSY" ELSE "IDLE"
  /\ request_sent_q' = discard_q
  /\ UNCHANGED <<request_pc_q, discard_q>>

Answered(in) ==
  /\ Datapath(in)
  /\ state_q = "BUSY" /\ response_seen(in) /\ ~launch_request(in)
  /\ state_q' = "IDLE" /\ request_sent_q' = FALSE /\ discard_q' = FALSE
  /\ UNCHANGED request_pc_q

Recycle(in) ==
  /\ Datapath(in)
  /\ state_q = "BUSY" /\ response_seen(in) /\ launch_request(in)
  /\ request_pc_q' = launch_pc(in)
  /\ request_sent_q' = request_fire(in)
  /\ discard_q' = FALSE
  /\ UNCHANGED state_q

Clock(in) ==
  \/ Reset(in)
  \/ Idle(in)
  \/ Launch(in)
  \/ Wait(in)
  \/ Answered(in)
  \/ Recycle(in)

Init ==
  /\ state_q = "IDLE"
  /\ next_pc_q = ResetVector /\ request_pc_q = ResetVector
  /\ request_sent_q = FALSE /\ discard_q = FALSE
  /\ redirect_pending_q = FALSE
  /\ packet_q = NoPacket /\ if_id = NoPacket
  /\ ex_live = FALSE
  /\ drain = FALSE
  /\ bus = <<>> /\ offered = NoPC
  /\ command = [cmd |-> "reset", target |-> NoPC]

Next == \E in \in Inputs : Clock(in)

\* The memory accepts a request that stays offered and answers an accepted
\* one; the pipeline does not hold for ever.
Undisturbed(in) == in.do.cmd \in {"advance", "hold"}
Fairness ==
  /\ WF_vars(\E in \in Inputs : Undisturbed(in) /\ request_fire(in) /\ Clock(in))
  /\ WF_vars(\E in \in Inputs : Undisturbed(in) /\ bus # <<>> /\ in.rsp /\ Clock(in))
  /\ WF_vars(\E in \in Inputs : consume(in) /\ Clock(in))

Spec     == Init /\ [][Next]_vars
FairSpec == Spec /\ Fairness

-----------------------------------------------------------------------------
(* Properties.                                                             *)

TypeOK ==
  /\ state_q \in {"IDLE", "BUSY"}
  /\ next_pc_q \in PCs /\ request_pc_q \in PCs
  /\ request_sent_q \in BOOLEAN /\ discard_q \in BOOLEAN
  /\ redirect_pending_q \in BOOLEAN
  /\ packet_q \in Packets \cup {NoPacket}
  /\ if_id \in Packets \cup {NoPacket}
  /\ ex_live \in BOOLEAN /\ drain \in BOOLEAN
  /\ bus \in Seq(Requests)
  /\ offered \in PCs \cup {NoPC}
  /\ command \in Commands

\* The stage knows exactly whether a response is owed, and one it is going to
\* deliver answers its own address and was not cancelled since, across any
\* series of flushes, redirects and resets.
OwesOneResponse ==
  IF state_q = "BUSY" /\ request_sent_q
  THEN Len(bus) = 1 /\ 
       (~discard_q => bus[1] = [pc |-> request_pc_q, stale |-> FALSE])
  ELSE bus = <<>>

\* One slot is enough: a fetch is outstanding only while no packet is held,
\* so a response always finds room.
RoomForResponse == state_q = "BUSY" => packet_q = NoPacket

\* A request offered and refused stays offered with its address, whatever
\* flush or redirect comes; only a reset withdraws it.
RequestHeld == offered # NoPC => held_request /\ request_pc_q = offered

\* The stage keeps its side of the memory port whatever interrupts a fetch.
PortContract == OwesOneResponse /\ RoomForResponse /\ RequestHeld

\* The address whose packet ID gets next, as the registers imply it.
expect ==
  IF drain                                     THEN NoPC
  ELSE IF packet_q # NoPacket                  THEN packet_q.pc
  ELSE IF state_q = "BUSY" /\ ~discard_q       THEN request_pc_q
  ELSE next_pc_q

\* The stage implements the stream of FetchStream under the controller's
\* commands: no instruction is skipped, repeated, reordered or taken from a
\* cancelled fetch, and no redirect's or trap's target is lost, even while a
\* cancelled request is still refused or owed.
Stream == INSTANCE FetchStream
ImplementsStream == Stream!StreamSpec

\* The expected packet reaches IF/ID unless a flush, a redirect or a reset
\* cancels the fetch first.
FetchArrives ==
  \A a \in PCs :
    (expect = a) ~> (if_id.pc = a
                     \/ command.cmd \in {"reset", "flush", "redirect", "trap"})
=============================================================================
