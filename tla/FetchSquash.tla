---------------------------- MODULE FetchSquash ----------------------------
(***************************************************************************)
(* The fetch stage with the performance counter perf_squash of             *)
(* rv32_core.sv, which an accepted EX redirect increments by the valid     *)
(* packets in IF/ID and at the fetch stage's output, and with the number   *)
(* of packets such redirects really discard.                               *)
(***************************************************************************)
EXTENDS IfStage

CONSTANT MaxCount  \* the counters are followed up to this natural number

VARIABLES
  perf_squash,  \* the counter
  discarded     \* history: packets EX redirects took away from ID

ex_redirect(in) == in.do.cmd = "redirect"

One(packet) == IF packet # NoPacket THEN 1 ELSE 0

\* What IF would offer in this cycle if the pipeline were not redirected.
\* The request of the new target is not yet part of it.
Takeable(in) ==
  IF packet_q # NoPacket THEN packet_q
  ELSE IF state_q = "BUSY" /\ response_seen(in) /\ ~discard_q THEN Response(in)
  ELSE NoPacket

Count(in) ==
  IF ex_redirect(in)
  THEN /\ perf_squash' = perf_squash + One(if_id) + One(fetch(in))
       /\ discarded' = discarded + One(if_id) + One(Takeable(in))
  ELSE IF rst(in) THEN perf_squash' = 0 /\ discarded' = 0
  ELSE UNCHANGED <<perf_squash, discarded>>

SquashInit == Init /\ perf_squash = 0 /\ discarded = 0
SquashNext ==
  \E in \in Inputs : discarded < MaxCount /\ Clock(in) /\ Count(in)

SquashSpec == SquashInit /\ [][SquashNext]_<<vars, perf_squash, discarded>>

\* docs/pipeline-control.md:352 and docs/architecture.md:639: the counter is
\* the number of valid younger IF/ID and fetch packets EX redirects discard.
SquashCounted == perf_squash = discarded
=============================================================================
