------------------------------ MODULE Runtime ------------------------------
(***************************************************************************)
(* The routines a freestanding program links instead of a C library        *)
(* (sw/runtime/runtime.c, and the string helpers of core_portme.c and      *)
(* platform.c), each as its loop: one step is one iteration, on a memory   *)
(* of bytes.  Pointers are addresses; a loop has come to offset i.         *)
(***************************************************************************)
EXTENDS Integers

CONSTANTS
  Size,          \* bytes of memory
  Bytes,         \* values a byte takes
  Values         \* the int arguments given to memset

ASSUME MemoryAssumption == Size \in Nat /\ Bytes \subseteq 0 .. 255
ASSUME ValueAssumption == \A v \in Values : v \in Int /\ v % 256 \in Bytes

VARIABLES
  mem,           \* the memory
  call,          \* the routine and its arguments
  text,          \* text_contains: where the candidate match starts
  i,             \* offset the loop has come to
  result,        \* what the routine returned; Running before
  before         \* history: the memory at the call

routine == <<mem, call, text, i, result, before>>

Addrs == 0 .. Size - 1
Running == -2
NoCall == [fn |-> "none", d |-> 0, s |-> 0, n |-> 0, v |-> 0]

\* A terminated string of length n.
IsString(m, a, n) ==
  /\ a + n \in Addrs /\ m[a + n] = 0
  /\ \A j \in 0 .. n - 1 : m[a + j] # 0
HasString(m, a) == \E n \in 0 .. Size - 1 - a : IsString(m, a, n)

\* Arguments C allows: ranges inside the memory, disjoint for memcpy, and
\* terminated strings.
Legal(m, c) ==
  CASE c.fn = "memcpy" -> /\ c.d + c.n <= Size /\ c.s + c.n <= Size
                          /\ c.d + c.n <= c.s \/ c.s + c.n <= c.d
    [] c.fn = "memset" -> c.d + c.n <= Size
    [] c.fn = "memcmp" -> c.d + c.n <= Size /\ c.s + c.n <= Size
    [] c.fn = "strlen" -> HasString(m, c.d)
    [] OTHER -> HasString(m, c.d) /\ HasString(m, c.s)

Copying == [fn: {"memcpy", "memcmp"}, d: Addrs, s: Addrs, n: 0 .. Size, v: {0}]
Setting == [fn: {"memset"}, d: Addrs, s: {0}, n: 0 .. Size, v: Values]
Measuring == [fn: {"strlen"}, d: Addrs, s: {0}, n: {0}, v: {0}]
Matching == [fn: {"text_equal", "text_contains"},
             d: Addrs, s: Addrs, n: {0}, v: {0}]
Calls == Copying \cup Setting \cup Measuring \cup Matching

-----------------------------------------------------------------------------

Call(c) ==
  /\ result # Running
  /\ Legal(mem, c)
  /\ call' = c /\ text' = c.d /\ i' = 0
  /\ result' = Running /\ before' = mem
  /\ UNCHANGED mem

In(fn) == result = Running /\ call.fn = fn
Return(r) == result' = r /\ UNCHANGED <<mem, call, text, i, before>>
Continue == i' = i + 1 /\ UNCHANGED <<call, text, result, before>>

memcpy ==
  /\ In("memcpy")
  /\ IF i # call.n
     THEN Continue /\ mem' = [mem EXCEPT ![call.d + i] = mem[call.s + i]]
     ELSE Return(call.d)

memset ==
  /\ In("memset")
  /\ IF i # call.n
     THEN Continue /\ mem' = [mem EXCEPT ![call.d + i] = call.v % 256]
     ELSE Return(call.d)

\* Bytes are compared as unsigned numbers.
Signed(b) == IF b > 127 THEN b - 256 ELSE b
Fault_Less(a, b) == Signed(a) < Signed(b)
Less(a, b) == a < b
memcmp ==
  /\ In("memcmp")
  /\ IF i = call.n THEN Return(0)
     ELSE IF mem[call.d + i] # mem[call.s + i]
     THEN Return(IF Less(mem[call.d + i], mem[call.s + i]) THEN -1 ELSE 1)
     ELSE Continue /\ UNCHANGED mem

strlen ==
  /\ In("strlen")
  /\ IF mem[call.d + i] # 0 THEN Continue /\ UNCHANGED mem ELSE Return(i)

Truth(p) == IF p THEN 1 ELSE 0

text_equal ==
  /\ In("text_equal")
  /\ IF mem[call.d + i] # 0 /\ mem[call.d + i] = mem[call.s + i]
     THEN Continue /\ UNCHANGED mem
     ELSE Return(Truth(mem[call.d + i] = mem[call.s + i]))

\* A mismatch moves on to the next character of the text.
text_contains ==
  /\ In("text_contains")
  /\ IF mem[text] = 0 THEN Return(0)
     ELSE IF mem[text + i] # 0 /\ mem[call.s + i] # 0
             /\ mem[text + i] = mem[call.s + i]
     THEN Continue /\ UNCHANGED mem
     ELSE IF mem[call.s + i] = 0 THEN Return(1)
     ELSE /\ text' = text + 1 /\ i' = 0
          /\ UNCHANGED <<mem, call, result, before>>

RoutineInit ==
  /\ mem \in [Addrs -> Bytes] /\ before = mem
  /\ call = NoCall /\ text = 0 /\ i = 0 /\ result = 0

RoutineStep ==
  memcpy \/ memset \/ memcmp \/ strlen \/ text_equal \/ text_contains

RoutineNext == (\E c \in Calls : Call(c)) \/ RoutineStep

RoutineSpec == RoutineInit /\ [][RoutineNext]_routine

-----------------------------------------------------------------------------
(* What the routines promise.                                              *)

Copied(m, d, s, n) ==
  [a \in Addrs |-> IF a \in d .. d + n - 1 THEN m[s + (a - d)] ELSE m[a]]

Filled(m, d, v, n) ==
  [a \in Addrs |-> IF a \in d .. d + n - 1 THEN v % 256 ELSE m[a]]

\* The order of the first difference.
Compares(m, c, r) ==
  \/ r = 0 /\ \A j \in 0 .. c.n - 1 : m[c.d + j] = m[c.s + j]
  \/ \E k \in 0 .. c.n - 1 :
       /\ \A j \in 0 .. k - 1 : m[c.d + j] = m[c.s + j]
       /\ \/ r = -1 /\ m[c.d + k] < m[c.s + k]
          \/ r = 1 /\ m[c.d + k] > m[c.s + k]

EqualStrings(m, a, b) ==
  \E n \in 0 .. Size - 1 : /\ IsString(m, a, n) /\ IsString(m, b, n)
                           /\ \A j \in 0 .. n - 1 : m[a + j] = m[b + j]

OccursAt(m, a, b) ==
  \E n \in 0 .. Size - 1 : /\ IsString(m, b, n)
                           /\ \A j \in 0 .. n - 1 : /\ a + j \in Addrs
                                                    /\ m[a + j] = m[b + j]

\* An occurrence begins at a character of the text: in the empty text
\* nothing occurs, not even the empty string.
Occurs(m, a, b) ==
  \E n \in 0 .. Size - 1 : /\ IsString(m, a, n)
                           /\ \E k \in 0 .. n - 1 : OccursAt(m, a + k, b)

Correct(m, c, m2, r) ==
  CASE c.fn = "memcpy" -> m2 = Copied(m, c.d, c.s, c.n) /\ r = c.d
    [] c.fn = "memset" -> m2 = Filled(m, c.d, c.v, c.n) /\ r = c.d
    [] c.fn = "memcmp" -> m2 = m /\ Compares(m, c, r)
    [] c.fn = "strlen" -> m2 = m /\ IsString(m, c.d, r)
    [] c.fn = "text_equal" ->
         m2 = m /\ (r = Truth(EqualStrings(m, c.d, c.s)))
    [] c.fn = "text_contains" ->
         m2 = m /\ (r = Truth(Occurs(m, c.d, c.s)))

\* Every routine that has returned did to the memory it was called with, and
\* returned, what its C definition says: no byte off the end, no byte
\* skipped, no match missed after a partial one.
RoutineCorrect ==
  (result # Running /\ call.fn # "none") => Correct(before, call, mem, result)
=============================================================================
