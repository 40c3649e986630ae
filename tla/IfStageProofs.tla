--------------------------- MODULE IfStageProofs ---------------------------
(***************************************************************************)
(* The fetch stage keeps its side of the memory port and implements        *)
(* FetchStream, for any number of addresses, any memory latency and any    *)
(* series of holds, flushes, redirects and resets.                         *)
(***************************************************************************)
EXTENDS IfStage, SequenceTheorems, TLAPS

\* At most one request is accepted and unanswered; the memory holds the
\* request the stage waits for.
BusInv ==
  IF state_q = "BUSY" /\ request_sent_q
  THEN \E r \in Requests :
         /\ bus = <<r>>
         /\ ~discard_q => r = [pc |-> request_pc_q, stale |-> FALSE]
  ELSE bus = <<>>

\* Where next_pc_q stands: behind the packet held or the request sent, at a
\* request still refused.  A selected trap leaves nothing to deliver.
NextInv ==
  /\ state_q = "IDLE" => ~request_sent_q /\ ~discard_q
  /\ packet_q # NoPacket =>
       /\ state_q = "IDLE"
       /\ packet_q.answer = [pc |-> packet_q.pc, stale |-> FALSE]
       /\ next_pc_q = After(packet_q.pc)
  /\ (state_q = "BUSY" /\ ~discard_q) =>
       next_pc_q = IF request_sent_q THEN After(request_pc_q) ELSE request_pc_q
  /\ drain => /\ packet_q = NoPacket
              /\ state_q = "BUSY" => discard_q
              /\ ~redirect_pending_q

Types ==
  /\ state_q \in {"IDLE", "BUSY"}
  /\ next_pc_q \in PCs /\ request_pc_q \in PCs
  /\ request_sent_q \in BOOLEAN /\ discard_q \in BOOLEAN
  /\ redirect_pending_q \in BOOLEAN
  /\ packet_q \in Packets \cup {NoPacket}
  /\ if_id \in Packets \cup {NoPacket}
  /\ ex_live \in BOOLEAN /\ drain \in BOOLEAN
  /\ offered \in PCs \cup {NoPC}
  /\ command \in Commands

IInv == Types /\ BusInv /\ NextInv /\ RequestHeld

-----------------------------------------------------------------------------

\* Addresses wrap around; none is a packet's mark of absence.
LEMMA Addresses ==
  /\ \A a \in PCs : After(a) \in PCs /\ a # NoPC
  /\ ResetVector \in PCs
  /\ NoPacket \notin Packets
<1>1. NumPCs \in Nat /\ NumPCs > 0
  BY NumPCsPositive
<1>2. NoPC \notin PCs
  BY <1>1 DEF NoPC, PCs
<1>3. \A a \in PCs : After(a) \in PCs
  BY <1>1 DEF After, PCs
<1>4. NoPacket \notin Packets
  BY <1>2 DEF NoPacket, Packets
<1> QED BY <1>2, <1>3, <1>4, ResetVectorIsPC

\* The controller's command of a cycle.
LEMMA Command ==
  ASSUME NEW in \in Inputs
  PROVE  /\ in.do.cmd \in {"reset", "advance", "hold", "flush", "redirect",
                           "trap"}
         /\ redirect_valid(in) => in.do.target \in PCs
         /\ in.ready \in BOOLEAN /\ in.rsp \in BOOLEAN /\ in.err \in BOOLEAN
BY DEF Inputs, Commands, redirect_valid

\* Queues of one and two requests.
LEMMA ShortQueues ==
  ASSUME NEW x, NEW y
  PROVE  /\ Append(<<x>>, y) = <<x, y>> /\ Append(<<>>, x) = <<x>>
         /\ Head(<<x>>) = x /\ Head(<<x, y>>) = x
         /\ Tail(<<x>>) = <<>> /\ Tail(<<x, y>>) = <<y>>
         /\ <<x>> # <<>>
<1>1. <<x>> # <<>>
  OBVIOUS
<1>2. Append(<<>>, x) = <<x>>
  OBVIOUS
<1>3. Append(<<x>>, y) = <<x, y>>
  <2> DEFINE S == {x, y}
  <2>1. <<x>> \in Seq(S) /\ <<x, y>> \in Seq(S) /\ y \in S
    OBVIOUS
  <2>2. Len(<<x>>) = 1 /\ Len(<<x, y>>) = 2
        /\ <<x>>[1] = x /\ <<x, y>>[1] = x /\ <<x, y>>[2] = y
    OBVIOUS
  <2>3. /\ Append(<<x>>, y) \in Seq(S) /\ Len(Append(<<x>>, y)) = 2
        /\ Append(<<x>>, y)[1] = x /\ Append(<<x>>, y)[2] = y
    BY <2>1, <2>2, AppendProperties
  <2>4. \A i \in 1 .. 2 : Append(<<x>>, y)[i] = <<x, y>>[i]
    BY <2>2, <2>3
  <2> HIDE DEF S
  <2> QED BY <2>1, <2>2, <2>3, <2>4, SeqEqual
<1>4. Head(<<x>>) = x /\ Head(<<x, y>>) = x
  OBVIOUS
<1>5. Tail(<<x>>) = <<>>
  OBVIOUS
<1>6. Tail(<<x, y>>) = <<y>>
  OBVIOUS
<1> QED BY <1>1, <1>2, <1>3, <1>4, <1>5, <1>6

\* What one cycle does to the memory's queue.
LEMMA BusStep ==
  ASSUME IInv, NEW in \in Inputs, Memory(in)
  PROVE  /\ request_fire(in) => bus = <<>> \/ in.rsp
         /\ in.rsp => bus # <<>> \/ request_fire(in)
         /\ (bus = <<>> /\ request_fire(in)) =>
              /\ Head(Pending(in)) = NewRequest(in)
              /\ bus' = IF in.rsp THEN <<>> ELSE <<NewRequest(in)>>
         /\ (bus = <<>> /\ ~request_fire(in)) => bus' = <<>>
         /\ \A r \in Requests : bus = <<r>> =>
              /\ Head(Pending(in)) = Cancel(in, r)
              /\ bus' = IF request_fire(in) THEN <<NewRequest(in)>>
                        ELSE IF in.rsp THEN <<>> ELSE <<Cancel(in, r)>>
<1>1. request_fire(in) => bus = <<>> \/ in.rsp
  BY DEF Memory, MemoryContract, request_fire
<1>2. request_fire([in EXCEPT !.rsp = FALSE]) => request_fire(in)
  <2> DEFINE quiet == [in EXCEPT !.rsp = FALSE]
  <2>1. quiet.do = in.do /\ quiet.ready = in.ready /\ quiet.rsp = FALSE
    BY DEF Inputs
  <2>2. launch_request(quiet) => launch_request(in)
    BY <2>1 DEF launch_request, want_fetch, rst, redirect_valid, kill_event,
                enable, consume
  <2> QED BY <2>1, <2>2 DEF request_fire, req_valid, rst
<1>3. in.rsp => bus # <<>> \/ request_fire(in)
  BY <1>2 DEF Memory, MemoryContract
<1>4. CASE bus = <<>>
  <2>1. OldRequests(in) = <<>>
    BY <1>4 DEF OldRequests
  <2>2. request_fire(in) => Pending(in) = <<NewRequest(in)>>
    BY <2>1 DEF Pending
  <2>3. ~request_fire(in) => Pending(in) = <<>> /\ ~in.rsp
    BY <2>1, <1>3, <1>4 DEF Pending
  <2>4. /\ request_fire(in) =>
             /\ Head(Pending(in)) = NewRequest(in)
             /\ bus' = IF in.rsp THEN <<>> ELSE <<NewRequest(in)>>
        /\ ~request_fire(in) => bus' = <<>>
    BY <2>2, <2>3, ShortQueues DEF Memory
  <2>5. \A r \in Requests : bus # <<r>>
    BY <1>4, ShortQueues
  <2> QED BY <1>1, <1>3, <1>4, <2>4, <2>5
<1>5. ASSUME NEW r \in Requests, bus = <<r>>
      PROVE  /\ Head(Pending(in)) = Cancel(in, r)
             /\ bus' = IF request_fire(in) THEN <<NewRequest(in)>>
                       ELSE IF in.rsp THEN <<>> ELSE <<Cancel(in, r)>>
  <2>1. OldRequests(in) = <<Cancel(in, r)>>
    BY <1>5 DEF OldRequests
  <2>2. request_fire(in) =>
          Pending(in) = <<Cancel(in, r), NewRequest(in)>> /\ in.rsp
    <3>1. bus # <<>>
      BY <1>5, ShortQueues
    <3>2. request_fire(in) =>
            Pending(in) = Append(<<Cancel(in, r)>>, NewRequest(in))
      BY <2>1 DEF Pending
    <3> QED BY <3>1, <3>2, <1>1, ShortQueues
  <2>3. ~request_fire(in) => Pending(in) = <<Cancel(in, r)>>
    BY <2>1 DEF Pending
  <2> QED BY <2>2, <2>3, ShortQueues DEF Memory
<1>6. bus = <<>> \/ \E r \in Requests : bus = <<r>>
  BY DEF IInv, BusInv
<1> QED BY <1>1, <1>3, <1>4, <1>5, <1>6

-----------------------------------------------------------------------------

\* The signals of a cycle that the registers alone decide.
LEMMA Signals ==
  ASSUME IInv, NEW in \in Inputs, ~rst(in)
  PROVE  /\ req_addr(in) \in PCs
         /\ launch_request(in) => ~held_request /\ want_fetch(in)
         /\ held_request => req_addr(in) = request_pc_q /\ req_valid(in)
         /\ launch_request(in) => req_addr(in) = launch_pc(in) /\ req_valid(in)
         /\ req_valid(in) => held_request \/ launch_request(in)
         /\ launch_pc(in) = IF redirect_valid(in) THEN in.do.target
                            ELSE next_pc_q
         /\ launch_pc(in) \in PCs
BY Command DEF IInv, Types, req_addr, req_valid, launch_pc, launch_request,
               held_request, want_fetch

\* A packet made of this cycle's response is the answer to its address, and
\* the fetch was not cancelled.
LEMMA ResponseIsOwn ==
  ASSUME IInv, NEW in \in Inputs, ~rst(in), Memory(in), response_live(in)
  PROVE  /\ Response(in).pc = response_pc(in) /\ response_pc(in) \in PCs
         /\ Response(in) = Stream!Packet(response_pc(in), in.err)
         /\ Response(in) \in Packets
<1>1. Response(in).answer = [pc |-> response_pc(in), stale |-> FALSE]
  <2>1. CASE state_q = "IDLE"
    <3>1. bus = <<>> /\ launch_request(in) /\ request_fire(in)
      BY <2>1 DEF IInv, BusInv, response_live, response_seen
    <3>2. NewRequest(in) = [pc |-> launch_pc(in), stale |-> FALSE]
      BY <2>1, <3>1, Signals DEF NewRequest, held_request
    <3> QED BY <2>1, <3>1, <3>2, BusStep DEF Response, response_pc
  <2>2. CASE state_q = "BUSY" /\ request_sent_q
    <3>1. ~discard_q /\ ~kill_event(in)
      BY <2>2 DEF response_live, request_stale
    <3>2. PICK r \in Requests :
            bus = <<r>> /\ r = [pc |-> request_pc_q, stale |-> FALSE]
      BY <2>2, <3>1 DEF IInv, BusInv
    <3>3. Cancel(in, r) = [pc |-> request_pc_q, stale |-> FALSE]
      BY <3>1, <3>2 DEF Cancel, Requests
    <3> QED BY <2>2, <3>2, <3>3, BusStep DEF Response, response_pc
  <2>3. CASE state_q = "BUSY" /\ ~request_sent_q
    <3>1. bus = <<>> /\ request_fire(in) /\ ~kill_event(in)
      BY <2>3 DEF IInv, BusInv, response_live, response_seen, request_stale
    <3>2. NewRequest(in) = [pc |-> request_pc_q, stale |-> FALSE]
      BY <2>3, <3>1, Signals DEF NewRequest, held_request
    <3> QED BY <2>3, <3>1, <3>2, BusStep DEF Response, response_pc
  <2> QED BY <2>1, <2>2, <2>3 DEF IInv, Types
<1>2. response_pc(in) \in PCs /\ Response(in).pc = response_pc(in)
  BY Signals DEF IInv, Types, response_pc, Response
<1>3. Response(in) = [pc |-> response_pc(in),
                      answer |-> [pc |-> response_pc(in), stale |-> FALSE],
                      err |-> in.err]
  BY <1>1 DEF Response
<1>4. [pc |-> response_pc(in), stale |-> FALSE] \in Requests
  BY <1>2 DEF Requests
<1> QED BY <1>2, <1>3, <1>4, Command DEF Stream!Packet, Packets

\* The memory and the stage agree on what is owed after the edge.
LEMMA BusInvStep ==
  ASSUME IInv, NEW in \in Inputs, Clock(in)
  PROVE  BusInv'
<1> USE DEF IInv, Types
<1>1. CASE Reset(in)
  <2>1. Memory(in) /\ rst(in) /\ ~request_fire(in)
    BY <1>1 DEF Reset, Around, request_fire, req_valid
  <2>2. CASE state_q = "BUSY" /\ request_sent_q
    <3>1. PICK r \in Requests : bus = <<r>>
      BY <2>2 DEF BusInv
    <3>2. Cancel(in, r) \in Requests
      BY <2>1 DEF Cancel, Requests
    <3> QED BY <1>1, <2>1, <2>2, <3>1, <3>2, BusStep DEF Reset, BusInv
  <2>3. CASE ~(state_q = "BUSY" /\ request_sent_q)
    BY <1>1, <2>1, <2>3, BusStep DEF Reset, BusInv
  <2> QED BY <2>2, <2>3
<1>2. CASE Datapath(in)
  <2>1. Memory(in) /\ ~rst(in)
    BY <1>2 DEF Datapath, Around
  <2>2. NewRequest(in) \in Requests
    BY <2>1, Signals DEF NewRequest, Requests, held_request, kill_event
  <2>3. CASE Idle(in)
    <3>1. ~request_fire(in) /\ bus = <<>>
      BY <2>1, <2>3, Signals
         DEF Idle, request_fire, held_request, BusInv
    <3> QED BY <2>1, <2>3, <3>1, BusStep DEF Idle, BusInv
  <2>4. CASE Launch(in)
    <3>1. NewRequest(in) = [pc |-> launch_pc(in), stale |-> FALSE]
      BY <2>1, <2>4, Signals DEF Launch, NewRequest, held_request
    <3>2. bus = <<>>
      BY <2>4 DEF Launch, BusInv
    <3>3. in.rsp => request_fire(in)
      BY <2>1, <3>2, BusStep
    <3> QED BY <2>1, <2>2, <2>4, <3>1, <3>2, <3>3, BusStep, Command
            DEF Launch, BusInv
  <2>5. CASE Wait(in)
    <3>1. CASE request_sent_q
      <4>1. PICK r \in Requests :
              /\ bus = <<r>>
              /\ ~discard_q => r = [pc |-> request_pc_q, stale |-> FALSE]
        BY <2>5, <3>1 DEF Wait, BusInv
      <4>2. ~in.rsp /\ ~request_fire(in)
        BY <2>1, <2>5, <3>1, Signals
           DEF Wait, response_seen, request_fire, held_request, launch_request
      <4>3. /\ Cancel(in, r) \in Requests
            /\ ~request_stale(in) =>
                 Cancel(in, r) = [pc |-> request_pc_q, stale |-> FALSE]
        BY <2>1, <4>1 DEF Cancel, Requests, request_stale, kill_event
      <4> QED BY <2>1, <2>5, <3>1, <4>1, <4>2, <4>3, BusStep
              DEF Wait, BusInv
    <3>2. CASE ~request_sent_q
      <4>1. bus = <<>> /\ held_request
        BY <2>5, <3>2 DEF Wait, BusInv, held_request
      <4>2. ~kill_event(in) =>
              NewRequest(in) = [pc |-> request_pc_q, stale |-> FALSE]
        BY <2>1, <4>1, Signals DEF NewRequest
      <4>3. request_fire(in) => ~in.rsp
        BY <2>5 DEF Wait, response_seen
      <4> QED BY <2>1, <2>2, <2>5, <3>2, <4>1, <4>2, <4>3, BusStep
              DEF Wait, BusInv, request_stale, request_fire
    <3> QED BY <3>1, <3>2
  <2>6. CASE Answered(in)
    <3>1. CASE request_sent_q
      <4>1. PICK r \in Requests : bus = <<r>>
        BY <2>6, <3>1 DEF Answered, BusInv
      <4>2. in.rsp /\ ~request_fire(in)
        BY <2>1, <2>6, <3>1, Signals
           DEF Answered, response_seen, request_fire, held_request
      <4> QED BY <2>1, <2>6, <4>1, <4>2, BusStep DEF Answered, BusInv
    <3>2. CASE ~request_sent_q
      BY <2>1, <2>6, <3>2, BusStep DEF Answered, BusInv, response_seen
    <3> QED BY <3>1, <3>2
  <2>7. CASE Recycle(in)
    <3>1. request_sent_q /\ in.rsp
      BY <2>7 DEF Recycle, launch_request
    <3>2. PICK r \in Requests : bus = <<r>>
      BY <2>7, <3>1 DEF Recycle, BusInv
    <3>3. NewRequest(in) = [pc |-> launch_pc(in), stale |-> FALSE]
      BY <2>1, <2>7, Signals DEF Recycle, NewRequest
    <3> QED BY <2>1, <2>2, <2>7, <3>1, <3>2, <3>3, BusStep
            DEF Recycle, BusInv, request_fire
  <2> QED BY <1>2, <2>1, <2>3, <2>4, <2>5, <2>6, <2>7
          DEF Clock, Reset
<1> QED BY <1>1, <1>2 DEF Clock, Idle, Launch, Wait, Answered, Recycle

-----------------------------------------------------------------------------

\* The output slot after an edge: a response, the packet held, or none.
LEMMA SlotStep ==
  ASSUME IInv, NEW in \in Inputs, ~rst(in), Memory(in), OutputSlot(in)
  PROVE  /\ packet_q' \in Packets \cup {NoPacket}
         /\ response_live(in) /\ ~response_consumed(in) =>
              packet_q' = Stream!Packet(response_pc(in), in.err)
         /\ ~(response_live(in) /\ ~response_consumed(in)) =>
              packet_q' = IF kill_event(in) \/ packet_consumed(in)
                          THEN NoPacket ELSE packet_q
BY ResponseIsOwn DEF OutputSlot, IInv, Types

\* The registers keep their types.
LEMMA TypesStep ==
  ASSUME IInv, NEW in \in Inputs, Clock(in)
  PROVE  Types'
<1> USE DEF IInv, Types
<1>1. Memory(in) /\ Controller(in) /\ IfId(in)
  BY DEF Clock, Reset, Idle, Launch, Wait, Answered, Recycle, Datapath, Around
<1>2. ex_live' \in BOOLEAN /\ drain' \in BOOLEAN
  BY <1>1 DEF Controller
<1>3. command' \in Commands
  BY DEF Inputs, Clock, Reset, Idle, Launch, Wait, Answered, Recycle, Datapath,
         Around
<1>4. offered' \in PCs \cup {NoPC}
  <2>1. req_valid(in) => ~rst(in)
    BY DEF req_valid
  <2> QED BY <1>1, <2>1, Signals DEF Memory
<1>5. if_id' \in Packets \cup {NoPacket}
  <2>1. ~rst(in) => fetch(in) \in Packets \cup {NoPacket}
    BY <1>1, ResponseIsOwn DEF fetch
  <2> QED BY <1>1, <2>1 DEF IfId
<1>6. CASE Reset(in)
  BY <1>2, <1>3, <1>4, <1>5, <1>6, Addresses DEF Reset
<1>7. CASE Datapath(in)
  <2>1. ~rst(in) /\ packet_q' \in Packets \cup {NoPacket}
    BY <1>1, <1>7, SlotStep DEF Datapath
  <2>2. next_pc_q' \in PCs /\ redirect_pending_q' \in BOOLEAN
    BY <1>7, <2>1, Signals, Addresses, Command
       DEF Datapath, NextFetch, redirect_valid, kill_event
  <2>3. /\ state_q' \in {"IDLE", "BUSY"} /\ request_pc_q' \in PCs
        /\ request_sent_q' \in BOOLEAN /\ discard_q' \in BOOLEAN
    BY <2>1, Signals
       DEF Clock, Reset, Idle, Launch, Wait, Answered, Recycle,
           request_fire, request_stale, kill_event, req_valid
  <2> QED BY <1>2, <1>3, <1>4, <1>5, <2>1, <2>2, <2>3
<1> QED BY <1>6, <1>7 DEF Clock, Idle, Launch, Wait, Answered, Recycle

\* A refused request stays offered.
LEMMA HeldStep ==
  ASSUME IInv, NEW in \in Inputs, Clock(in)
  PROVE  RequestHeld'
<1> USE DEF IInv, Types
<1>1. Memory(in)
  BY DEF Clock, Reset, Idle, Launch, Wait, Answered, Recycle, Datapath, Around
<1>2. offered' = IF req_valid(in) /\ ~in.ready THEN req_addr(in) ELSE NoPC
  BY <1>1 DEF Memory
<1>3. SUFFICES ASSUME req_valid(in), ~in.ready
               PROVE  held_request' /\ request_pc_q' = req_addr(in)
  BY <1>2 DEF RequestHeld
<1>4. ~rst(in) /\ ~request_fire(in)
  BY <1>3 DEF req_valid, request_fire
<1>5. CASE held_request
  <2>1. ~response_seen(in) /\ ~launch_request(in) /\ state_q = "BUSY"
    BY <1>4, <1>5, Signals DEF response_seen, held_request
  <2> QED BY <1>4, <1>5, <2>1, Signals
          DEF Clock, Reset, Idle, Launch, Wait, Answered, Recycle, held_request
<1>6. CASE launch_request(in)
  <2>1. state_q = "BUSY" => response_seen(in)
    BY <1>6 DEF launch_request, response_seen
  <2> QED BY <1>4, <1>6, <2>1, Signals
          DEF Clock, Reset, Idle, Launch, Wait, Answered, Recycle, held_request
<1> QED BY <1>3, <1>4, <1>5, <1>6, Signals

\* The next address after an edge.
LEMMA NextFetchStep ==
  ASSUME IInv, NEW in \in Inputs, ~rst(in), NextFetch(in)
  PROVE  /\ (request_fire(in) /\ launch_request(in)) =>
              next_pc_q' = After(launch_pc(in)) /\ ~redirect_pending_q'
         /\ (request_fire(in) /\ held_request /\ ~request_stale(in)) =>
              next_pc_q' = After(request_pc_q) /\ ~redirect_pending_q'
         /\ (~request_fire(in) \/ (held_request /\ request_stale(in))) =>
              /\ next_pc_q' = launch_pc(in)
              /\ (kill_event(in) /\ ~redirect_valid(in)) =>
                   ~redirect_pending_q'
              /\ ~redirect_pending_q =>
                   redirect_valid(in) \/ ~redirect_pending_q'
         /\ request_fire(in) => held_request \/ launch_request(in)
BY Signals DEF NextFetch, request_fire

\* The places of packet, request and next address after an edge.
LEMMA NextInvStep ==
  ASSUME IInv, NEW in \in Inputs, Clock(in)
  PROVE  NextInv'
<1> USE DEF IInv, Types
<1>1. CASE Reset(in)
  <2>1. ~drain'
    BY <1>1 DEF Reset, Around, Controller, rst
  <2> QED BY <1>1, <2>1 DEF Reset, NextInv
<1>2. CASE Datapath(in)
  <2>0. /\ ~rst(in) /\ Memory(in) /\ OutputSlot(in) /\ NextFetch(in)
        /\ Controller(in)
    BY <1>2 DEF Datapath, Around
  <2>1. state_q' = "IDLE" => ~request_sent_q' /\ ~discard_q'
    BY <2>0 DEF Clock, Reset, Idle, Launch, Wait, Answered, Recycle, NextInv
  <2>2. ~kill_event(in) => ~redirect_valid(in) /\ launch_pc(in) = next_pc_q
    BY DEF kill_event, redirect_valid, launch_pc
  <2>3. packet_q' # NoPacket =>
          /\ state_q' = "IDLE"
          /\ packet_q'.answer = [pc |-> packet_q'.pc, stale |-> FALSE]
          /\ next_pc_q' = After(packet_q'.pc)
    <3>1. CASE response_live(in) /\ ~response_consumed(in)
      <4>0. packet_q' = Stream!Packet(response_pc(in), in.err)
        BY <2>0, <3>1, SlotStep
      <4>1. packet_q'.pc = response_pc(in)
            /\ packet_q'.answer = [pc |-> packet_q'.pc, stale |-> FALSE]
        BY ONLY <4>0 DEF Stream!Packet
      <4>2. CASE state_q = "IDLE"
        <5>1. launch_request(in) /\ request_fire(in) /\ in.rsp
          BY <3>1, <4>2 DEF response_live, response_seen
        <5>2. state_q' = "IDLE"
          BY <2>0, <4>2, <5>1
             DEF Clock, Reset, Idle, Launch, Wait, Answered, Recycle
        <5> QED BY <2>0, <4>1, <4>2, <5>1, <5>2, NextFetchStep
                DEF response_pc
      <4>3. CASE state_q = "BUSY"
        <5>1. ~kill_event(in) /\ ~discard_q /\ packet_q = NoPacket
              /\ response_seen(in) /\ ~request_stale(in)
          BY <3>1, <4>3 DEF response_live, request_stale, NextInv
        <5>2. ~consume(in)
          BY <3>1, <5>1 DEF response_consumed
        <5>3. ~launch_request(in)
          BY <2>2, <4>3, <5>1, <5>2 DEF launch_request
        <5>4. state_q' = "IDLE"
          BY <2>0, <4>3, <5>1, <5>3
             DEF Clock, Reset, Idle, Launch, Wait, Answered, Recycle
        <5>5. CASE request_sent_q
          <6>1. ~held_request /\ ~request_fire(in)
            BY <2>0, <5>3, <5>5, NextFetchStep DEF held_request
          <6>2. next_pc_q' = next_pc_q
            BY <2>0, <2>2, <5>1, <6>1, NextFetchStep
          <6> QED BY <4>1, <4>3, <5>1, <5>4, <5>5, <6>2
                  DEF NextInv, response_pc
        <5>6. CASE ~request_sent_q
          <6>1. request_fire(in) /\ held_request
            BY <4>3, <5>1, <5>6 DEF response_seen, held_request
          <6> QED BY <2>0, <4>1, <4>3, <5>1, <5>4, <6>1, NextFetchStep
                  DEF response_pc
        <5> QED BY <5>5, <5>6
      <4> QED BY <4>2, <4>3
    <3>2. CASE ~(response_live(in) /\ ~response_consumed(in))
      <4>1. SUFFICES ASSUME packet_q' # NoPacket
                     PROVE  /\ state_q' = "IDLE" /\ packet_q' = packet_q
                            /\ packet_q # NoPacket /\ next_pc_q' = next_pc_q
        BY DEF NextInv
      <4>2. /\ packet_q' = packet_q /\ packet_q # NoPacket
            /\ ~kill_event(in) /\ ~consume(in)
        BY <2>0, <3>2, <4>1, SlotStep DEF packet_consumed
      <4>3. state_q = "IDLE" /\ ~launch_request(in)
        BY <4>2 DEF NextInv, launch_request
      <4>4. state_q' = "IDLE"
        BY <2>0, <4>3 DEF Clock, Reset, Idle, Launch, Wait, Answered, Recycle
      <4>5. next_pc_q' = next_pc_q
        BY <2>0, <2>2, <4>2, <4>3, NextFetchStep DEF held_request
      <4> QED BY <4>2, <4>4, <4>5
    <3> QED BY <3>1, <3>2
  <2>4. (state_q' = "BUSY" /\ ~discard_q') =>
          next_pc_q' = IF request_sent_q' THEN After(request_pc_q')
                       ELSE request_pc_q'
    <3> SUFFICES ASSUME state_q' = "BUSY", ~discard_q'
                 PROVE  next_pc_q' = IF request_sent_q'
                                     THEN After(request_pc_q')
                                     ELSE request_pc_q'
      OBVIOUS
    <3>1. CASE Launch(in) \/ Recycle(in)
      <4>1. /\ launch_request(in) /\ request_pc_q' = launch_pc(in)
            /\ request_sent_q' <=> request_fire(in)
        BY <3>1 DEF Launch, Recycle
      <4>2. ~held_request
        BY <2>0, <4>1, Signals
      <4> QED BY <2>0, <4>1, <4>2, NextFetchStep
    <3>2. CASE Wait(in)
      <4>1. /\ ~request_stale(in) /\ request_pc_q' = request_pc_q
            /\ request_sent_q' <=> (request_sent_q \/ request_fire(in))
            /\ state_q = "BUSY" /\ ~response_seen(in)
        BY <3>2 DEF Wait
      <4>2. ~discard_q /\ ~kill_event(in)
        BY <4>1 DEF request_stale
      <4>3. CASE request_sent_q
        <5>1. ~request_fire(in)
          BY <2>0, <4>1, <4>3, NextFetchStep
             DEF response_seen, held_request, launch_request
        <5> QED BY <2>0, <2>2, <4>1, <4>2, <4>3, <5>1, NextFetchStep
                DEF NextInv
      <4>4. CASE ~request_sent_q
        <5>1. held_request
          BY <4>1, <4>4 DEF held_request
        <5> QED BY <2>0, <2>2, <4>1, <4>2, <4>4, <5>1, NextFetchStep
                DEF NextInv
      <4> QED BY <4>3, <4>4
    <3> QED BY <2>0, <3>1, <3>2 DEF Clock, Reset, Idle, Answered
  <2>5. drain' => /\ packet_q' = NoPacket
                  /\ state_q' = "BUSY" => discard_q'
                  /\ ~redirect_pending_q'
    <3> SUFFICES ASSUME drain'
                 PROVE  /\ packet_q' = NoPacket
                        /\ state_q' = "BUSY" => discard_q'
                        /\ ~redirect_pending_q'
      OBVIOUS
    <3>1. \/ in.do.cmd = "flush"
          \/ drain /\ in.do.cmd = "hold"
      BY <2>0 DEF Controller
    <3>2. ~redirect_valid(in) /\ ~enable(in)
      BY <3>1 DEF redirect_valid, enable
    <3>3. kill_event(in) \/ drain
      BY <3>1 DEF kill_event
    <3>4. ~launch_request(in)
      BY <3>2, <3>3 DEF launch_request, want_fetch, NextInv
    <3>5. ~response_live(in)
      BY <3>3, <3>4
         DEF response_live, response_seen, request_stale, NextInv
    <3>6. packet_q' = NoPacket
      BY <2>0, <3>3, <3>5, SlotStep DEF NextInv
    <3>7. state_q' = "BUSY" => discard_q'
      BY <2>0, <3>3, <3>4
         DEF Clock, Reset, Idle, Launch, Wait, Answered, Recycle,
             request_stale, NextInv
    <3>8. held_request => request_stale(in)
      BY <3>3 DEF held_request, request_stale, NextInv
    <3>9. ~redirect_pending_q'
      BY <2>0, <3>2, <3>3, <3>4, <3>8, NextFetchStep DEF NextInv
    <3> QED BY <3>6, <3>7, <3>9
  <2> QED BY <2>1, <2>3, <2>4, <2>5 DEF NextInv
<1> QED BY <1>1, <1>2 DEF Clock, Idle, Launch, Wait, Answered, Recycle

-----------------------------------------------------------------------------

\* The invariant holds in every reachable state.
LEMMA Invariance == Spec => []IInv
<1>1. Init => IInv
  <2>1. Init => command \in Commands
    BY DEF Init, Commands
  <2> QED BY <2>1, Addresses DEF Init, IInv, Types, BusInv, NextInv, RequestHeld
<1>2. IInv /\ [Next]_vars => IInv'
  <2> SUFFICES ASSUME IInv, [Next]_vars PROVE IInv'
    OBVIOUS
  <2>1. ASSUME NEW in \in Inputs, Clock(in) PROVE IInv'
    BY <2>1, TypesStep, BusInvStep, NextInvStep, HeldStep DEF IInv
  <2>2. CASE UNCHANGED vars
    BY <2>2 DEF vars, fetcher, IInv, Types, BusInv, NextInv, RequestHeld,
                held_request
  <2> QED BY <2>1, <2>2 DEF Next
<1> QED BY <1>1, <1>2, PTL DEF Spec

\* Type correctness.  The queue never grows, since the stage never has two
\* requests accepted.
THEOREM TypeCorrect == Spec => []TypeOK
<1>1. IInv => TypeOK
  <2> SUFFICES ASSUME IInv PROVE TypeOK
    OBVIOUS
  <2>1. CASE state_q = "BUSY" /\ request_sent_q
    <3>1. PICK r \in Requests : bus = <<r>>
      BY <2>1 DEF IInv, BusInv
    <3> QED BY <3>1 DEF IInv, Types, TypeOK
  <2>2. CASE ~(state_q = "BUSY" /\ request_sent_q)
    <3>1. bus = <<>>
      BY <2>2 DEF IInv, BusInv
    <3> QED BY <3>1 DEF IInv, Types, TypeOK
  <2> QED BY <2>1, <2>2
<1> QED BY <1>1, Invariance, PTL

\* The stage keeps its side of the memory port whatever flush, redirect or
\* reset interrupts a fetch: it knows whether a response is owed, has room for
\* it, and withdraws no request that it offered.
THEOREM KeepsPortContract == Spec => []PortContract
<1>1. IInv => PortContract
  <2> SUFFICES ASSUME IInv PROVE PortContract
    OBVIOUS
  <2>1. OwesOneResponse
    <3>1. CASE state_q = "BUSY" /\ request_sent_q
      <4>1. PICK r \in Requests :
              /\ bus = <<r>>
              /\ ~discard_q => r = [pc |-> request_pc_q, stale |-> FALSE]
        BY <3>1 DEF IInv, BusInv
      <4>2. Len(bus) = 1 /\ bus[1] = r
        BY <4>1
      <4> QED BY <3>1, <4>1, <4>2 DEF OwesOneResponse
    <3>2. CASE ~(state_q = "BUSY" /\ request_sent_q)
      BY <3>2 DEF IInv, BusInv, OwesOneResponse
    <3> QED BY <3>1, <3>2
  <2>2. RoomForResponse
    BY DEF IInv, Types, NextInv, RoomForResponse
  <2> QED BY <2>1, <2>2 DEF IInv, PortContract
<1> QED BY <1>1, Invariance, PTL

-----------------------------------------------------------------------------

\* A cycle that cancels nothing, with no packet held and none arriving, moves
\* the registers but not the address that ID gets next.
LEMMA NothingArrives ==
  ASSUME IInv, NEW in \in Inputs, Clock(in), ~rst(in), ~kill_event(in),
         packet_q = NoPacket, ~response_live(in), ~drain, ~drain'
  PROVE  expect' = expect
<1> USE DEF IInv, Types
<1>1. /\ Memory(in) /\ OutputSlot(in) /\ NextFetch(in)
  BY DEF Clock, Reset, Idle, Launch, Wait, Answered, Recycle, Datapath, Around
<1>2. packet_q' = NoPacket
  BY <1>1, SlotStep
<1>3. launch_pc(in) = next_pc_q
  BY DEF kill_event, redirect_valid, launch_pc
<1>4. CASE state_q = "BUSY" /\ ~discard_q
  <2>1. ~response_seen(in) /\ ~request_stale(in)
    BY <1>4 DEF response_live, request_stale
  <2>2. state_q' = "BUSY" /\ ~discard_q' /\ request_pc_q' = request_pc_q
    BY <1>4, <2>1 DEF Clock, Reset, Idle, Launch, Wait, Answered, Recycle
  <2> QED BY <1>2, <1>4, <2>2 DEF expect
<1>5. CASE ~(state_q = "BUSY" /\ ~discard_q)
  <2>1. expect = next_pc_q
    BY <1>5 DEF expect
  <2>2. CASE Launch(in) \/ Recycle(in)
    <3>1. ~(Launch(in) /\ request_fire(in) /\ in.rsp)
      BY DEF Launch, response_live, response_seen
    <3>2. state_q' = "BUSY" /\ ~discard_q' /\ request_pc_q' = next_pc_q
      BY <1>3, <2>2, <3>1 DEF Launch, Recycle
    <3> QED BY <1>2, <2>1, <3>2 DEF expect
  <2>3. CASE Idle(in) \/ Wait(in) \/ Answered(in)
    <3>1. ~launch_request(in)
      BY <2>3 DEF Idle, Wait, Answered, launch_request, response_seen
    <3>2. held_request => request_stale(in)
      BY <1>5 DEF held_request, request_stale
    <3>3. next_pc_q' = next_pc_q
      BY <1>1, <1>3, <3>1, <3>2, NextFetchStep
    <3>4. ~(state_q' = "BUSY" /\ ~discard_q')
      BY <1>5, <2>3 DEF Idle, Wait, Answered, request_stale
    <3> QED BY <1>2, <2>1, <3>3, <3>4 DEF expect
  <2> QED BY <2>2, <2>3 DEF Clock, Reset
<1> QED BY <1>4, <1>5

\* After a redirect or a trap the target's instruction comes next, whether its
\* request was sent, answered, or waits behind a stale one.
LEMMA TargetIsNext ==
  ASSUME IInv, NEW in \in Inputs, Clock(in), redirect_valid(in)
  PROVE  expect' = in.do.target
<1> USE DEF IInv, Types
<1>1. ~rst(in) /\ kill_event(in) /\ ~consume(in)
  BY DEF rst, redirect_valid, kill_event, consume
<1>2. /\ Memory(in) /\ OutputSlot(in) /\ NextFetch(in) /\ Controller(in)
  BY <1>1
     DEF Clock, Reset, Idle, Launch, Wait, Answered, Recycle, Datapath, Around
<1>3. ~drain'
  BY <1>2 DEF Controller, redirect_valid
<1>4. launch_pc(in) = in.do.target /\ in.do.target \in PCs
  BY Command DEF launch_pc
<1>5. CASE response_live(in)
  <2>1. state_q = "IDLE"
    BY <1>1, <1>5 DEF response_live, request_stale
  <2>2. packet_q' = Stream!Packet(in.do.target, in.err)
    BY <1>1, <1>2, <1>4, <1>5, <2>1, SlotStep
       DEF response_consumed, response_pc
  <2>3. packet_q'.pc = in.do.target
    BY ONLY <2>2 DEF Stream!Packet
  <2>4. packet_q' # NoPacket
    BY <1>4, <2>3, Addresses DEF NoPacket, PCs, NoPC
  <2> QED BY <1>3, <2>3, <2>4 DEF expect
<1>6. CASE ~response_live(in)
  <2>1. packet_q' = NoPacket
    BY <1>1, <1>2, <1>6, SlotStep
  <2>2. CASE Launch(in) \/ Recycle(in)
    <3>1. ~(Launch(in) /\ request_fire(in) /\ in.rsp)
      BY <1>6 DEF Launch, response_live, response_seen
    <3>2. state_q' = "BUSY" /\ ~discard_q' /\ request_pc_q' = in.do.target
      BY <1>4, <2>2, <3>1 DEF Launch, Recycle
    <3> QED BY <1>3, <2>1, <3>2 DEF expect
  <2>3. CASE Idle(in) \/ Wait(in) \/ Answered(in)
    <3>1. ~launch_request(in)
      BY <2>3 DEF Idle, Wait, Answered, launch_request, response_seen
    <3>2. held_request => request_stale(in)
      BY <1>1 DEF request_stale
    <3>3. next_pc_q' = in.do.target
      BY <1>1, <1>2, <1>4, <3>1, <3>2, NextFetchStep
    <3>4. ~(state_q' = "BUSY" /\ ~discard_q')
      BY <1>1, <2>3 DEF Idle, Wait, Answered, request_stale
    <3> QED BY <1>3, <2>1, <3>3, <3>4 DEF expect
  <2> QED BY <1>1, <2>2, <2>3 DEF Clock, Reset
<1> QED BY <1>5, <1>6

\* When the pipeline holds, the packet of this cycle is kept or skidded, and
\* its address still comes next.
LEMMA HoldKeepsPlace ==
  ASSUME IInv, NEW in \in Inputs, Clock(in), in.do.cmd = "hold"
  PROVE  expect' = expect /\ if_id' = if_id
<1> USE DEF IInv, Types
<1>1. ~rst(in) /\ ~kill_event(in) /\ ~consume(in) /\ ~redirect_valid(in)
  BY DEF rst, redirect_valid, kill_event, consume
<1>2. /\ Memory(in) /\ OutputSlot(in) /\ Controller(in) /\ IfId(in)
  BY <1>1
     DEF Clock, Reset, Idle, Launch, Wait, Answered, Recycle, Datapath, Around
<1>3. if_id' = if_id
  BY <1>1, <1>2 DEF IfId
<1>4. drain' = drain
  BY <1>2 DEF Controller
<1>5. CASE drain
  BY <1>3, <1>4, <1>5 DEF expect
<1>6. CASE ~drain /\ packet_q # NoPacket
  <2>1. state_q = "IDLE" /\ ~launch_request(in)
    BY <1>1, <1>6 DEF NextInv, launch_request
  <2>2. ~response_live(in)
    BY <2>1 DEF response_live, response_seen
  <2>3. packet_q' = packet_q
    BY <1>1, <1>2, <2>2, SlotStep DEF packet_consumed
  <2> QED BY <1>3, <1>4, <1>6, <2>3 DEF expect
<1>7. CASE ~drain /\ packet_q = NoPacket /\ response_live(in)
  <2>1. packet_q' = Stream!Packet(response_pc(in), in.err)
    BY <1>1, <1>2, <1>7, SlotStep DEF response_consumed
  <2>2. packet_q'.pc = response_pc(in)
    BY ONLY <2>1 DEF Stream!Packet
  <2>3. packet_q' # NoPacket
    BY <1>1, <1>2, <1>7, <2>2, ResponseIsOwn, Addresses
       DEF NoPacket, PCs, NoPC
  <2>4. expect = response_pc(in)
    BY <1>1, <1>7
       DEF expect, response_pc, launch_pc, response_live, request_stale
  <2> QED BY <1>3, <1>4, <1>7, <2>2, <2>3, <2>4 DEF expect
<1>8. CASE ~drain /\ packet_q = NoPacket /\ ~response_live(in)
  BY <1>3, <1>1, <1>4, <1>8, NothingArrives
<1> QED BY <1>3, <1>5, <1>6, <1>7, <1>8

\* When the pipeline advances, ID takes the expected packet or finds none.
LEMMA AdvanceDelivers ==
  ASSUME IInv, NEW in \in Inputs, Clock(in), in.do.cmd = "advance"
  PROVE  \/ /\ expect \in PCs /\ expect' = After(expect)
            /\ \E err \in BOOLEAN : if_id' = Stream!Packet(expect, err)
         \/ expect' = expect /\ if_id' = NoPacket
<1> USE DEF IInv, Types
<1>1. /\ ~rst(in) /\ ~kill_event(in) /\ consume(in) /\ enable(in)
      /\ ~redirect_valid(in)
  BY DEF rst, redirect_valid, kill_event, consume, enable
<1>2. /\ Memory(in) /\ OutputSlot(in) /\ Controller(in) /\ IfId(in)
      /\ NextFetch(in)
  BY <1>1
     DEF Clock, Reset, Idle, Launch, Wait, Answered, Recycle, Datapath, Around
<1>3. ~drain /\ ~drain' /\ if_id' = fetch(in)
  BY <1>1, <1>2 DEF Controller, IfId
<1>4. launch_pc(in) = next_pc_q /\ want_fetch(in)
  BY <1>1 DEF launch_pc, want_fetch
<1>5. CASE packet_q # NoPacket
  <2>1. /\ state_q = "IDLE" /\ launch_request(in)
        /\ next_pc_q = After(packet_q.pc)
        /\ packet_q.answer = [pc |-> packet_q.pc, stale |-> FALSE]
    BY <1>1, <1>4, <1>5 DEF NextInv, launch_request
  <2>2. packet_q \in Packets
    BY <1>5
  <2>3. /\ expect = packet_q.pc /\ expect \in PCs
        /\ packet_q = Stream!Packet(expect, packet_q.err)
        /\ packet_q.err \in BOOLEAN
    BY <1>3, <1>5, <2>1, <2>2 DEF expect, Packets, Stream!Packet
  <2>4. if_id' = packet_q
    BY <1>1, <1>3, <1>5 DEF fetch
  <2>5. Launch(in)
    BY <1>1, <2>1 DEF Clock, Reset, Idle, Wait, Answered, Recycle
  <2>6. expect' = next_pc_q
    <3>1. CASE response_live(in)
      <4>1. packet_q' = Stream!Packet(next_pc_q, in.err)
        BY <1>1, <1>2, <1>4, <1>5, <2>1, <3>1, SlotStep
           DEF response_consumed, response_pc
      <4>2. packet_q'.pc = next_pc_q
        BY ONLY <4>1 DEF Stream!Packet
      <4>3. packet_q' # NoPacket
        BY <4>2, Addresses DEF NoPacket, PCs, NoPC
      <4> QED BY <1>3, <4>2, <4>3 DEF expect
    <3>2. CASE ~response_live(in)
      <4>1. packet_q' = NoPacket
        BY <1>1, <1>2, <3>2, SlotStep DEF packet_consumed
      <4>2. ~(request_fire(in) /\ in.rsp)
        BY <2>1, <3>2 DEF response_live, response_seen
      <4>3. state_q' = "BUSY" /\ ~discard_q' /\ request_pc_q' = next_pc_q
        BY <1>4, <2>5, <4>2 DEF Launch
      <4> QED BY <1>3, <4>1, <4>3 DEF expect
    <3> QED BY <3>1, <3>2
  <2> QED BY <2>1, <2>3, <2>4, <2>6
<1>6. CASE packet_q = NoPacket /\ response_live(in)
  <2>1. /\ expect = response_pc(in) /\ expect \in PCs
        /\ if_id' = Stream!Packet(expect, in.err)
    <3>1. expect = response_pc(in)
      BY <1>3, <1>4, <1>6
         DEF expect, response_pc, response_live, request_stale
    <3>2. if_id' = Response(in)
      BY <1>1, <1>3, <1>6 DEF fetch
    <3> QED BY <1>1, <1>2, <1>6, <3>1, <3>2, ResponseIsOwn
  <2>2. packet_q' = NoPacket
    BY <1>1, <1>2, <1>6, SlotStep DEF response_consumed, packet_consumed
  <2>3. expect' = After(expect)
    <3>1. CASE state_q = "IDLE"
      <4>1. launch_request(in) /\ request_fire(in) /\ in.rsp
        BY <1>6, <3>1 DEF response_live, response_seen
      <4>2. Launch(in)
        BY <1>1, <3>1, <4>1 DEF Clock, Reset, Idle, Wait, Answered, Recycle
      <4>3. state_q' = "IDLE" /\ next_pc_q' = After(next_pc_q)
        BY <1>1, <1>2, <1>4, <4>1, <4>2, NextFetchStep DEF Launch
      <4>4. expect = next_pc_q
        BY <1>4, <2>1, <3>1 DEF response_pc
      <4> QED BY <1>3, <2>2, <4>3, <4>4 DEF expect
    <3>2. CASE state_q = "BUSY" /\ request_sent_q
      <4>1. in.rsp /\ response_seen(in) /\ ~discard_q
        BY <1>6, <3>2 DEF response_live, response_seen, request_stale
      <4>2. launch_request(in)
        BY <1>1, <1>4, <1>6, <3>2, <4>1 DEF launch_request
      <4>3. Recycle(in)
        BY <1>1, <3>2, <4>1, <4>2
           DEF Clock, Reset, Idle, Launch, Wait, Answered
      <4>4. /\ state_q' = "BUSY" /\ ~discard_q' /\ request_pc_q' = next_pc_q
        BY <1>4, <3>2, <4>3 DEF Recycle
      <4>5. next_pc_q = After(request_pc_q) /\ expect = request_pc_q
        BY <2>1, <3>2, <4>1 DEF NextInv, response_pc
      <4> QED BY <1>3, <2>2, <4>4, <4>5 DEF expect
    <3>3. CASE state_q = "BUSY" /\ ~request_sent_q
      <4>1. /\ request_fire(in) /\ held_request /\ response_seen(in)
            /\ ~request_stale(in) /\ ~launch_request(in)
        BY <1>6, <3>3
           DEF response_live, response_seen, held_request, launch_request
      <4>2. Answered(in)
        BY <1>1, <3>3, <4>1 DEF Clock, Reset, Idle, Launch, Wait, Recycle
      <4>3. state_q' = "IDLE" /\ next_pc_q' = After(request_pc_q)
        BY <1>1, <1>2, <4>1, <4>2, NextFetchStep DEF Answered
      <4>4. expect = request_pc_q
        BY <2>1, <3>3 DEF response_pc
      <4> QED BY <1>3, <2>2, <4>3, <4>4 DEF expect
    <3> QED BY <3>1, <3>2, <3>3
  <2>4. in.err \in BOOLEAN
    BY Command
  <2> QED BY <2>1, <2>3, <2>4
<1>7. CASE packet_q = NoPacket /\ ~response_live(in)
  <2>1. if_id' = NoPacket
    BY <1>1, <1>3, <1>7 DEF fetch
  <2> QED BY <1>1, <1>3, <1>7, <2>1, NothingArrives
<1> QED BY <1>5, <1>6, <1>7

\* Every edge of the stage is the step of the stream that the controller's
\* command asks for.
LEMMA EdgeIsStreamStep ==
  ASSUME IInv, NEW in \in Inputs, Clock(in)
  PROVE  Stream!StreamNext
<1> USE DEF Stream!StreamNext
<1>0. Controller(in) /\ IfId(in) /\ command' = in.do
  BY DEF Clock, Reset, Idle, Launch, Wait, Answered, Recycle, Datapath, Around
<1>1. Stream!NoPacket = NoPacket /\ Stream!NoPC = NoPC /\ Stream!PCs = PCs
      /\ \A a \in PCs : Stream!After(a) = After(a)
  BY DEF Stream!NoPacket, NoPacket, Stream!NoPC, NoPC, Stream!PCs, PCs,
         Stream!After, After
<1>2. in.do = [cmd |-> in.do.cmd, target |-> in.do.target]
      /\ (~redirect_valid(in) => in.do.target = NoPC)
  BY DEF Inputs, Commands, redirect_valid
<1>3. CASE in.do.cmd = "reset"
  <2>1. rst(in) /\ Reset(in)
    BY <1>3 DEF rst, Clock, Idle, Launch, Wait, Answered, Recycle, Datapath
  <2>2. ~drain' /\ if_id' = NoPacket
    BY <1>0, <1>3, <2>1 DEF Controller, IfId
  <2>3. expect' = ResetVector
    BY <2>1, <2>2 DEF Reset, expect
  <2>4. command' = [cmd |-> "reset", target |-> NoPC]
    BY <1>0, <1>2, <1>3 DEF redirect_valid
  <2> QED BY <1>1, <2>2, <2>3, <2>4 DEF Stream!StreamReset
<1>4. CASE redirect_valid(in)
  <2>1. if_id' = NoPacket
    BY <1>0, <1>4 DEF IfId, redirect_valid, kill_event
  <2>2. expect' = in.do.target /\ in.do.target \in PCs
    BY <1>4, TargetIsNext, Command
  <2>3. command' \in [cmd: {"redirect", "trap"}, target: {in.do.target}]
    BY <1>0, <1>2, <1>4 DEF redirect_valid
  <2>4. Stream!StreamRedirect(in.do.target)
    BY <1>1, <2>1, <2>2, <2>3 DEF Stream!StreamRedirect
  <2> QED BY <1>1, <2>2, <2>4
<1>5. CASE in.do.cmd = "flush"
  <2>1. if_id' = NoPacket /\ drain'
    BY <1>0, <1>5 DEF IfId, kill_event, Controller
  <2>2. expect' = NoPC
    BY <2>1 DEF expect
  <2>3. command' = [cmd |-> "flush", target |-> NoPC]
    BY <1>0, <1>2, <1>5 DEF redirect_valid
  <2> QED BY <1>1, <2>1, <2>2, <2>3 DEF Stream!StreamFlush
<1>6. CASE in.do.cmd = "hold"
  <2>1. command' = [cmd |-> "hold", target |-> NoPC]
    BY <1>0, <1>2, <1>6 DEF redirect_valid
  <2> QED BY <1>1, <1>6, <2>1, HoldKeepsPlace DEF Stream!StreamHold
<1>7. CASE in.do.cmd = "advance"
  <2>1. command' = [cmd |-> "advance", target |-> NoPC]
    BY <1>0, <1>2, <1>7 DEF redirect_valid
  <2>2. CASE expect' = expect /\ if_id' = NoPacket
    BY <1>1, <2>1, <2>2 DEF Stream!StreamStarve
  <2>3. CASE /\ expect \in PCs /\ expect' = After(expect)
             /\ \E err \in BOOLEAN : if_id' = Stream!Packet(expect, err)
    BY <1>1, <2>1, <2>3, Addresses DEF Stream!StreamDeliver, PCs, NoPC
  <2> QED BY <1>7, <2>2, <2>3, AdvanceDelivers
<1> QED BY <1>3, <1>4, <1>5, <1>6, <1>7, Command DEF redirect_valid

\* The stage implements the stream: across any holds, flushes, redirects,
\* traps and resets, ID receives consecutive instructions, each once and none
\* of a cancelled fetch, and the stream restarts only on a reset, a redirect
\* or a trap, at exactly the reset vector or the target commanded.
THEOREM ImplementsFetchStream == Spec => ImplementsStream
<1>1. Init => Stream!Start
  BY DEF Init, Stream!Start, expect, Stream!NoPacket, NoPacket, NoPC,
         Stream!NoPC
<1>2. IInv /\ [Next]_vars => [Stream!StreamNext]_(Stream!stream)
  <2> SUFFICES ASSUME IInv, [Next]_vars
               PROVE  [Stream!StreamNext]_(Stream!stream)
    OBVIOUS
  <2>1. ASSUME NEW in \in Inputs, Clock(in)
        PROVE  [Stream!StreamNext]_(Stream!stream)
    BY <2>1, EdgeIsStreamStep
  <2>2. CASE UNCHANGED vars
    BY <2>2 DEF vars, fetcher, Stream!stream, expect
  <2> QED BY <2>1, <2>2 DEF Next
<1> QED BY <1>1, <1>2, Invariance, PTL
        DEF Spec, ImplementsStream, Stream!StreamSpec
=============================================================================
