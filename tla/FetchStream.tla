---------------------------- MODULE FetchStream ----------------------------
(***************************************************************************)
(* What the instruction fetch stage promises the rest of the core.  The    *)
(* controller gives a command at each edge.  IF/ID receives the            *)
(* instructions at consecutive addresses, each once and none out of turn,  *)
(* whatever the memory's latency; the stream restarts only at a reset, a   *)
(* redirect or a trap, at exactly the address commanded.  After a flush    *)
(* that names no target, nothing is delivered until one of them comes.     *)
(***************************************************************************)
EXTENDS Naturals

CONSTANTS
  NumPCs,       \* how many instruction addresses there are; they wrap around
  ResetVector   \* one of them

VARIABLES
  command, \* the controller's command at the last edge
  expect,  \* the address whose instruction comes next, or NoPC
  if_id    \* the IF/ID register: a packet or NoPacket

stream == <<command, expect, if_id>>

PCs      == 0 .. NumPCs - 1
NoPC     == NumPCs
After(a) == (a + 1) % NumPCs

\* An instruction is represented by the request whose answer it is: the
\* address asked for, and whether the fetch had since been cancelled.
Packet(a, err) ==
  [pc |-> a, answer |-> [pc |-> a, stale |-> FALSE], err |-> err]
NoPacket ==
  [pc |-> NumPCs, answer |-> [pc |-> NumPCs, stale |-> FALSE], err |-> FALSE]

Start ==
  /\ command = [cmd |-> "reset", target |-> NoPC]
  /\ expect = ResetVector /\ if_id = NoPacket

StreamReset ==
  /\ command' = [cmd |-> "reset", target |-> NoPC]
  /\ expect' = ResetVector /\ if_id' = NoPacket

\* A branch taken in EX, or the commit of a trap.
StreamRedirect(target) ==
  /\ command' \in [cmd: {"redirect", "trap"}, target: {target}]
  /\ expect' = target /\ if_id' = NoPacket

\* A trap was selected; its commit will name the target.
StreamFlush ==
  /\ command' = [cmd |-> "flush", target |-> NoPC]
  /\ expect' = NoPC /\ if_id' = NoPacket

StreamHold ==
  /\ command' = [cmd |-> "hold", target |-> NoPC]
  /\ UNCHANGED <<expect, if_id>>

\* ID takes a packet, a faulting fetch included, or finds none yet.
StreamDeliver ==
  /\ command' = [cmd |-> "advance", target |-> NoPC]
  /\ expect # NoPC
  /\ \E err \in BOOLEAN : if_id' = Packet(expect, err)
  /\ expect' = After(expect)

StreamStarve ==
  /\ command' = [cmd |-> "advance", target |-> NoPC]
  /\ if_id' = NoPacket /\ UNCHANGED expect

StreamNext ==
  \/ StreamReset
  \/ \E target \in PCs : StreamRedirect(target)
  \/ StreamFlush
  \/ StreamHold
  \/ StreamDeliver
  \/ StreamStarve

StreamSpec == Start /\ [][StreamNext]_stream
=============================================================================
