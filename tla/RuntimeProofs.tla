--------------------------- MODULE RuntimeProofs ---------------------------
(***************************************************************************)
(* The library routines are correct on memories of any size, any bytes in  *)
(* them and any legal arguments: one loop invariant per routine.           *)
(***************************************************************************)
EXTENDS Runtime, TLAPS

\* What each loop has done when it has come to offset i.
CopyInv == call.fn = "memcpy" =>
  i <= call.n /\ mem = Copied(before, call.d, call.s, i)

FillInv == call.fn = "memset" =>
  i <= call.n /\ mem = Filled(before, call.d, call.v, i)

CompareInv == call.fn = "memcmp" =>
  i <= call.n /\ \A j \in 0 .. i - 1 : before[call.d + j] = before[call.s + j]

LengthInv == call.fn = "strlen" =>
  \A j \in 0 .. i - 1 : before[call.d + j] # 0

EqualInv == call.fn = "text_equal" =>
  \A j \in 0 .. i - 1 : /\ before[call.d + j] = before[call.s + j]
                        /\ before[call.d + j] # 0

SearchInv == call.fn = "text_contains" =>
  /\ text \in Nat /\ call.d <= text
  /\ \A k \in 0 .. text - call.d - 1 :
       before[call.d + k] # 0 /\ ~OccursAt(before, call.d + k, call.s)
  /\ \A j \in 0 .. i - 1 : /\ before[text + j] = before[call.s + j]
                           /\ before[text + j] # 0

LoopInv ==
  /\ call \in Calls /\ Legal(before, call) /\ i \in Nat
  /\ call.fn \notin {"memcpy", "memset"} => mem = before
  /\ CopyInv /\ FillInv /\ CompareInv /\ LengthInv /\ EqualInv /\ SearchInv

Memories == [Addrs -> Bytes]

IInv == /\ mem \in Memories /\ before \in Memories
        /\ result = Running => LoopInv
        /\ RoutineCorrect

-----------------------------------------------------------------------------

\* The arguments of a call, by routine.
LEMMA CallTypes ==
  ASSUME NEW c \in Calls
  PROVE  /\ c.fn \in {"memcpy", "memset", "memcmp", "strlen", "text_equal",
                      "text_contains"}
         /\ c.d \in Nat /\ c.s \in Nat /\ c.n \in Nat
         /\ c.fn = "memset" => c.v \in Values
BY MemoryAssumption
   DEF Calls, Copying, Setting, Measuring, Matching, Addrs

\* A loop that has met no terminator is inside the string.
LEMMA InString ==
  ASSUME NEW m, NEW a \in Nat, NEW k \in Nat, HasString(m, a),
         \A j \in 0 .. k - 1 : m[a + j] # 0
  PROVE  /\ a + k \in Addrs /\ k \in 0 .. Size - 1
         /\ m[a + k] = 0 => IsString(m, a, k)
         /\ m[a + k] # 0 => a + k + 1 \in Addrs
<1>1. PICK n \in 0 .. Size - 1 - a : IsString(m, a, n)
  BY DEF HasString
<1>2. n \in Nat /\ a + n \in Addrs /\ m[a + n] = 0 /\ Size \in Nat
  BY <1>1, MemoryAssumption DEF IsString
<1>3. k <= n
  BY <1>2
<1>4. m[a + k] # 0 => k < n
  BY <1>2, <1>3
<1> QED BY <1>2, <1>3, <1>4 DEF Addrs, IsString

\* Two strings end together or not at all where they agree.
LEMMA StringEnd ==
  ASSUME NEW m, NEW a, NEW k \in Nat, NEW n \in Nat, IsString(m, a, n),
         \A j \in 0 .. k - 1 : m[a + j] # 0
  PROVE  k <= n /\ (k = n <=> m[a + k] = 0)
BY DEF IsString

-----------------------------------------------------------------------------

\* A legal call starts its routine's loop.
LEMMA CallStep ==
  ASSUME IInv, NEW c \in Calls, Call(c)
  PROVE  IInv'
<1>1. /\ c.d \in Nat /\ c.s \in Nat /\ c.n \in Nat
  BY CallTypes
<1>2. /\ call' = c /\ text' = c.d /\ i' = 0 /\ result' = Running
      /\ before' = mem /\ mem' = mem /\ Legal(mem, c) /\ mem \in Memories
  BY DEF Call, IInv
<1>3. mem = [a \in Addrs |-> mem[a]]
  BY <1>2 DEF Memories
<1>4. CopyInv'
  BY <1>1, <1>2, <1>3 DEF CopyInv, Copied
<1>5. FillInv'
  BY <1>1, <1>2, <1>3 DEF FillInv, Filled
<1>6. CompareInv' /\ LengthInv' /\ EqualInv' /\ SearchInv'
  BY <1>1, <1>2 DEF CompareInv, LengthInv, EqualInv, SearchInv
<1> QED BY <1>2, <1>4, <1>5, <1>6 DEF IInv, LoopInv, RoutineCorrect

\* One iteration of memcpy copies one more byte, from outside what it has
\* written.
LEMMA CopyStep ==
  ASSUME IInv, memcpy
  PROVE  IInv'
<1> USE DEF In
<1>1. /\ call.fn = "memcpy" /\ result = Running /\ LoopInv /\ CopyInv
      /\ call \in Calls /\ i \in Nat /\ i <= call.n /\ Legal(before, call)
      /\ mem = Copied(before, call.d, call.s, i)
      /\ mem \in Memories /\ before \in Memories
  BY DEF memcpy, IInv, LoopInv, CopyInv
<1>2. call.d \in Nat /\ call.s \in Nat /\ call.n \in Nat
  BY <1>1, CallTypes
<1>3. /\ call.d + call.n <= Size /\ call.s + call.n <= Size /\ Size \in Nat
      /\ call.d + call.n <= call.s \/ call.s + call.n <= call.d
  BY <1>1, MemoryAssumption DEF Legal
<1>4. CASE i # call.n
  <2>1. /\ i' = i + 1 /\ UNCHANGED <<call, text, result, before>>
        /\ mem' = [mem EXCEPT ![call.d + i] = mem[call.s + i]]
    BY <1>4 DEF memcpy, Continue
  <2>2. call.d + i \in Addrs /\ call.s + i \in Addrs /\ i + 1 <= call.n
    BY <1>1, <1>2, <1>3, <1>4 DEF Addrs
  <2>3. mem[call.s + i] = before[call.s + i]
    BY <1>1, <1>2, <1>3, <2>2 DEF Copied
  <2>4. ASSUME NEW a \in Addrs
        PROVE  mem'[a] = Copied(before, call.d, call.s, i + 1)[a]
    <3>1. a \in Int
      BY <1>3 DEF Addrs
    <3>2. CASE a = call.d + i
      <4>1. mem'[a] = before[call.s + i]
        BY <2>1, <2>2, <2>3, <3>2, <1>1 DEF Memories
      <4>2. a \in call.d .. call.d + (i + 1) - 1 /\ a - call.d = i
        BY <3>2, <1>1, <1>2
      <4> QED BY <4>1, <4>2 DEF Copied
    <3>3. CASE a # call.d + i
      <4>1. mem'[a] = mem[a]
        BY <2>1, <3>3, <1>1 DEF Memories
      <4>2. a \in call.d .. call.d + (i + 1) - 1 <=>
              a \in call.d .. call.d + i - 1
        BY <3>1, <3>3, <1>1, <1>2
      <4> QED BY <4>1, <4>2, <1>1 DEF Copied
    <3> QED BY <3>2, <3>3
  <2>5. mem' \in Memories
    BY <2>1, <2>2, <1>1 DEF Memories
  <2>6. mem' = Copied(before, call.d, call.s, i + 1)
    BY <2>4, <2>5 DEF Copied, Memories
  <2>7. LoopInv'
    BY <1>1, <2>1, <2>2, <2>6
       DEF LoopInv, CopyInv, FillInv, CompareInv, LengthInv, EqualInv,
           SearchInv
  <2> QED BY <1>1, <2>1, <2>5, <2>7 DEF IInv, RoutineCorrect
<1>5. CASE i = call.n
  <2>1. result' = call.d /\ UNCHANGED <<mem, call, text, i, before>>
    BY <1>5 DEF memcpy, Return
  <2>2. Correct(before, call, mem, call.d)
    BY <1>1, <1>5 DEF Correct
  <2>3. result' # Running
    BY <2>1, <1>2 DEF Running
  <2> QED BY <1>1, <2>1, <2>2, <2>3 DEF IInv, RoutineCorrect
<1> QED BY <1>4, <1>5

\* One iteration of memset sets one more byte, to the value's low byte.
LEMMA FillStep ==
  ASSUME IInv, memset
  PROVE  IInv'
<1> USE DEF In
<1>1. /\ call.fn = "memset" /\ result = Running /\ LoopInv /\ FillInv
      /\ call \in Calls /\ i \in Nat /\ i <= call.n /\ Legal(before, call)
      /\ mem = Filled(before, call.d, call.v, i)
      /\ mem \in Memories /\ before \in Memories
  BY DEF memset, IInv, LoopInv, FillInv
<1>2. call.d \in Nat /\ call.n \in Nat /\ call.v % 256 \in Bytes
  BY <1>1, CallTypes, ValueAssumption
<1>3. call.d + call.n <= Size /\ Size \in Nat
  BY <1>1, MemoryAssumption DEF Legal
<1>4. CASE i # call.n
  <2>1. /\ i' = i + 1 /\ UNCHANGED <<call, text, result, before>>
        /\ mem' = [mem EXCEPT ![call.d + i] = call.v % 256]
    BY <1>4 DEF memset, Continue
  <2>2. call.d + i \in Addrs /\ i + 1 <= call.n
    BY <1>1, <1>2, <1>3, <1>4 DEF Addrs
  <2>3. ASSUME NEW a \in Addrs
        PROVE  mem'[a] = Filled(before, call.d, call.v, i + 1)[a]
    <3>1. a \in Int
      BY <1>3 DEF Addrs
    <3>2. CASE a = call.d + i
      <4>1. mem'[a] = call.v % 256
        BY <2>1, <2>2, <3>2, <1>1 DEF Memories
      <4>2. a \in call.d .. call.d + (i + 1) - 1
        BY <3>2, <1>1, <1>2
      <4> QED BY <4>1, <4>2 DEF Filled
    <3>3. CASE a # call.d + i
      <4>1. mem'[a] = mem[a]
        BY <2>1, <3>3, <1>1 DEF Memories
      <4>2. a \in call.d .. call.d + (i + 1) - 1 <=>
              a \in call.d .. call.d + i - 1
        BY <3>1, <3>3, <1>1, <1>2
      <4> QED BY <4>1, <4>2, <1>1 DEF Filled
    <3> QED BY <3>2, <3>3
  <2>4. mem' \in Memories
    BY <2>1, <2>2, <1>1, <1>2 DEF Memories
  <2>5. mem' = Filled(before, call.d, call.v, i + 1)
    BY <2>3, <2>4 DEF Filled, Memories
  <2>6. LoopInv'
    BY <1>1, <2>1, <2>2, <2>5
       DEF LoopInv, CopyInv, FillInv, CompareInv, LengthInv, EqualInv,
           SearchInv
  <2> QED BY <1>1, <2>1, <2>4, <2>6 DEF IInv, RoutineCorrect
<1>5. CASE i = call.n
  <2>1. result' = call.d /\ UNCHANGED <<mem, call, text, i, before>>
    BY <1>5 DEF memset, Return
  <2>2. Correct(before, call, mem, call.d)
    BY <1>1, <1>5 DEF Correct
  <2>3. result' # Running
    BY <2>1, <1>2 DEF Running
  <2> QED BY <1>1, <2>1, <2>2, <2>3 DEF IInv, RoutineCorrect
<1> QED BY <1>4, <1>5

\* One iteration of memcmp: the bytes before offset i agree.
LEMMA CompareStep ==
  ASSUME IInv, memcmp
  PROVE  IInv'
<1> USE DEF In
<1>1. /\ call.fn = "memcmp" /\ result = Running /\ LoopInv /\ CompareInv
      /\ call \in Calls /\ i \in Nat /\ i <= call.n /\ Legal(before, call)
      /\ \A j \in 0 .. i - 1 : before[call.d + j] = before[call.s + j]
      /\ mem = before /\ before \in Memories
  BY DEF memcmp, IInv, LoopInv, CompareInv
<1>2. call.d \in Nat /\ call.s \in Nat /\ call.n \in Nat
  BY <1>1, CallTypes
<1>3. call.d + call.n <= Size /\ call.s + call.n <= Size /\ Size \in Nat
  BY <1>1, MemoryAssumption DEF Legal
<1> DEFINE a == before[call.d + i]
           b == before[call.s + i]
<1>4. CASE i = call.n
  <2>1. result' = 0 /\ UNCHANGED <<mem, call, text, i, before>>
    BY <1>4 DEF memcmp, Return
  <2>2. Correct(before, call, mem, 0)
    BY <1>1, <1>4 DEF Correct, Compares
  <2> QED BY <1>1, <2>1, <2>2 DEF IInv, RoutineCorrect, Running
<1>5. CASE i # call.n /\ a # b
  <2>1. /\ result' = IF a < b THEN -1 ELSE 1
        /\ UNCHANGED <<mem, call, text, i, before>>
    BY <1>1, <1>5 DEF memcmp, Return, Less
  <2>2. call.d + i \in Addrs /\ call.s + i \in Addrs /\ i \in 0 .. call.n - 1
    BY <1>1, <1>2, <1>3, <1>5 DEF Addrs
  <2>3. a \in Int /\ b \in Int
    <3>1. a \in Bytes /\ b \in Bytes
      BY <1>1, <2>2 DEF Memories
    <3>2. \A e \in Bytes : e \in Int
      BY MemoryAssumption
    <3> QED BY <3>1, <3>2
  <2>4. \/ result' = -1 /\ a < b
        \/ result' = 1 /\ a > b
    BY <2>1, <2>3, <1>5
  <2>5. Compares(before, call, result')
    BY <2>2, <2>4, <1>1 DEF Compares
  <2>6. Correct(before, call, mem, result')
    BY <2>5, <1>1 DEF Correct
  <2>7. result' # Running
    BY <2>4 DEF Running
  <2> QED BY <1>1, <2>1, <2>6, <2>7 DEF IInv, RoutineCorrect
<1>6. CASE i # call.n /\ a = b
  <2>1. i' = i + 1 /\ UNCHANGED <<mem, call, text, result, before>>
    BY <1>1, <1>6 DEF memcmp, Continue
  <2>2. \A j \in 0 .. i' - 1 : before[call.d + j] = before[call.s + j]
    BY <1>1, <1>6, <2>1
  <2>3. i' \in Nat /\ i' <= call.n
    BY <1>1, <1>2, <1>6, <2>1
  <2>4. LoopInv'
    BY <1>1, <2>1, <2>2, <2>3
       DEF LoopInv, CopyInv, FillInv, CompareInv, LengthInv, EqualInv,
           SearchInv
  <2> QED BY <1>1, <2>1, <2>4 DEF IInv, RoutineCorrect
<1> QED BY <1>4, <1>5, <1>6

\* One iteration of strlen: no terminator before offset i.
LEMMA LengthStep ==
  ASSUME IInv, strlen
  PROVE  IInv'
<1> USE DEF In
<1>1. /\ call.fn = "strlen" /\ result = Running /\ LoopInv
      /\ call \in Calls /\ i \in Nat /\ HasString(before, call.d)
      /\ \A j \in 0 .. i - 1 : before[call.d + j] # 0
      /\ mem = before /\ before \in Memories
  BY DEF strlen, IInv, LoopInv, LengthInv, Legal
<1>2. call.d \in Nat
  BY <1>1, CallTypes
<1>3. CASE before[call.d + i] # 0
  <2>1. i' = i + 1 /\ UNCHANGED <<mem, call, text, result, before>>
    BY <1>1, <1>3 DEF strlen, Continue
  <2>2. \A j \in 0 .. i' - 1 : before[call.d + j] # 0
    BY <1>1, <1>3, <2>1
  <2>3. LoopInv'
    BY <1>1, <2>1, <2>2
       DEF LoopInv, CopyInv, FillInv, CompareInv, LengthInv, EqualInv,
           SearchInv
  <2> QED BY <1>1, <2>1, <2>3 DEF IInv, RoutineCorrect
<1>4. CASE before[call.d + i] = 0
  <2>1. result' = i /\ UNCHANGED <<mem, call, text, i, before>>
    BY <1>1, <1>4 DEF strlen, Return
  <2>2. IsString(before, call.d, i)
    BY <1>1, <1>2, <1>4, InString
  <2>3. Correct(before, call, mem, i)
    BY <2>2, <1>1 DEF Correct
  <2>4. result' # Running
    BY <2>1, <1>1 DEF Running
  <2> QED BY <1>1, <2>1, <2>3, <2>4 DEF IInv, RoutineCorrect
<1> QED BY <1>3, <1>4

\* One iteration of text_equal: the characters before offset i agree, and
\* none is a terminator.
LEMMA EqualStep ==
  ASSUME IInv, text_equal
  PROVE  IInv'
<1> USE DEF In
<1>1. /\ call.fn = "text_equal" /\ result = Running /\ LoopInv
      /\ call \in Calls /\ i \in Nat
      /\ HasString(before, call.d) /\ HasString(before, call.s)
      /\ \A j \in 0 .. i - 1 : /\ before[call.d + j] = before[call.s + j]
                               /\ before[call.d + j] # 0
      /\ mem = before /\ before \in Memories
  BY DEF text_equal, IInv, LoopInv, EqualInv, Legal
<1>2. call.d \in Nat /\ call.s \in Nat
  BY <1>1, CallTypes
<1> DEFINE a == before[call.d + i]
           b == before[call.s + i]
<1>3. CASE a # 0 /\ a = b
  <2>1. i' = i + 1 /\ UNCHANGED <<mem, call, text, result, before>>
    BY <1>1, <1>3 DEF text_equal, Continue
  <2>2. \A j \in 0 .. i' - 1 : /\ before[call.d + j] = before[call.s + j]
                               /\ before[call.d + j] # 0
    BY <1>1, <1>3, <2>1
  <2>3. LoopInv'
    BY <1>1, <2>1, <2>2
       DEF LoopInv, CopyInv, FillInv, CompareInv, LengthInv, EqualInv,
           SearchInv
  <2> QED BY <1>1, <2>1, <2>3 DEF IInv, RoutineCorrect
<1>4. CASE ~(a # 0 /\ a = b)
  <2>1. result' = Truth(a = b) /\ UNCHANGED <<mem, call, text, i, before>>
    BY <1>1, <1>4 DEF text_equal, Return
  <2>2. /\ \A j \in 0 .. i - 1 : before[call.d + j] # 0
        /\ \A j \in 0 .. i - 1 : before[call.s + j] # 0
    BY <1>1
  <2>3. a = b => EqualStrings(before, call.d, call.s)
    <3> SUFFICES ASSUME a = b PROVE EqualStrings(before, call.d, call.s)
      OBVIOUS
    <3>1. a = 0 /\ b = 0
      BY <1>4
    <3>2. i \in 0 .. Size - 1 /\ IsString(before, call.d, i)
      BY <3>1, <2>2, <1>1, <1>2, InString
    <3>3. IsString(before, call.s, i)
      BY <3>1, <2>2, <1>1, <1>2, InString
    <3> QED BY <3>2, <3>3, <1>1 DEF EqualStrings
  <2>4. EqualStrings(before, call.d, call.s) => a = b
    <3> SUFFICES ASSUME EqualStrings(before, call.d, call.s) PROVE a = b
      OBVIOUS
    <3>1. PICK n \in 0 .. Size - 1 :
            /\ IsString(before, call.d, n) /\ IsString(before, call.s, n)
            /\ \A j \in 0 .. n - 1 : before[call.d + j] = before[call.s + j]
      BY DEF EqualStrings
    <3>2. n \in Nat
      BY <3>1, MemoryAssumption
    <3>3. i <= n
      BY <3>1, <3>2, <2>2, <1>1, StringEnd
    <3>4. CASE i = n
      BY <3>1, <3>4 DEF IsString
    <3>5. CASE i < n
      BY <3>1, <3>2, <3>5, <1>1
    <3> QED BY <3>2, <3>3, <3>4, <3>5, <1>1
  <2>5. Correct(before, call, mem, result')
    BY <2>1, <2>3, <2>4, <1>1 DEF Correct, Truth
  <2>6. result' # Running
    BY <2>1 DEF Running, Truth
  <2> QED BY <1>1, <2>1, <2>5, <2>6 DEF IInv, RoutineCorrect
<1> QED BY <1>3, <1>4

\* One iteration of text_contains: no occurrence begins before the candidate
\* at text, and the candidate agrees with the token up to offset i.
LEMMA SearchStep ==
  ASSUME IInv, text_contains
  PROVE  IInv'
<1> USE DEF In
<1> DEFINE k == text - call.d
           a == before[text + i]
           b == before[call.s + i]
<1>1. /\ call.fn = "text_contains" /\ result = Running /\ LoopInv
      /\ call \in Calls /\ i \in Nat /\ text \in Nat /\ call.d <= text
      /\ HasString(before, call.d) /\ HasString(before, call.s)
      /\ \A j \in 0 .. k - 1 :
           before[call.d + j] # 0 /\ ~OccursAt(before, call.d + j, call.s)
      /\ \A j \in 0 .. i - 1 : /\ before[text + j] = before[call.s + j]
                               /\ before[text + j] # 0
      /\ mem = before /\ before \in Memories
  BY DEF text_contains, IInv, LoopInv, SearchInv, Legal
<1>2. /\ call.d \in Nat /\ call.s \in Nat /\ k \in Nat /\ text = call.d + k
  BY <1>1, CallTypes
<1>3. /\ \A j \in 0 .. k - 1 : before[call.d + j] # 0
      /\ \A j \in 0 .. i - 1 : before[call.s + j] # 0
  BY <1>1
<1>4. CASE before[text] = 0
  <2>1. result' = 0 /\ UNCHANGED <<mem, call, text, i, before>>
    BY <1>1, <1>4 DEF text_contains, Return
  <2>2. ASSUME Occurs(before, call.d, call.s) PROVE FALSE
    <3>1. PICK n \in 0 .. Size - 1 :
            /\ IsString(before, call.d, n)
            /\ \E m \in 0 .. n - 1 : OccursAt(before, call.d + m, call.s)
      BY <2>2 DEF Occurs
    <3>2. n \in Nat
      BY <3>1, MemoryAssumption
    <3>3. k = n
      BY <3>1, <3>2, <1>2, <1>3, <1>4, StringEnd
    <3> QED BY <3>1, <3>3, <1>1
  <2>3. Correct(before, call, mem, 0)
    BY <2>2, <1>1 DEF Correct, Truth
  <2> QED BY <1>1, <2>1, <2>3 DEF IInv, RoutineCorrect, Running
<1>5. CASE before[text] # 0 /\ a # 0 /\ b # 0 /\ a = b
  <2>1. i' = i + 1 /\ UNCHANGED <<mem, call, text, result, before>>
    BY <1>1, <1>5 DEF text_contains, Continue
  <2>2. \A j \in 0 .. i' - 1 : /\ before[text + j] = before[call.s + j]
                               /\ before[text + j] # 0
    BY <1>1, <1>5, <2>1
  <2>3. LoopInv'
    BY <1>1, <2>1, <2>2
       DEF LoopInv, CopyInv, FillInv, CompareInv, LengthInv, EqualInv,
           SearchInv
  <2> QED BY <1>1, <2>1, <2>3 DEF IInv, RoutineCorrect
<1>6. CASE before[text] # 0 /\ b = 0
  <2>1. result' = 1 /\ UNCHANGED <<mem, call, text, i, before>>
    BY <1>1, <1>6 DEF text_contains, Return
  <2>2. PICK n \in 0 .. Size - 1 - call.d : IsString(before, call.d, n)
    BY <1>1 DEF HasString
  <2>3. n \in 0 .. Size - 1 /\ n \in Nat
    BY <2>2, <1>2, MemoryAssumption
  <2>4. k \in 0 .. n - 1
    <3>1. before[call.d + k] # 0
      BY <1>2, <1>6
    <3>2. k <= n /\ k # n
      BY <3>1, <2>2, <2>3, <1>2, <1>3, StringEnd
    <3>3. k \in Nat /\ n \in Nat
      BY <2>3, <1>2
    <3> HIDE DEF k
    <3> QED BY <3>2, <3>3
  <2>5. ASSUME NEW j \in 0 .. i - 1 PROVE call.d + (k + j) \in Addrs
    <3>1. ASSUME NEW h \in 0 .. (k + j) - 1 PROVE before[call.d + h] # 0
      <4>1. CASE h < k
        BY <4>1, <1>2, <1>3
      <4>2. CASE h >= k
        <5>1. h - k \in 0 .. i - 1 /\ text + (h - k) = call.d + h
          BY <4>2, <1>1, <1>2
        <5> QED BY <5>1, <1>1
      <4> QED BY <4>1, <4>2, <1>2
    <3>2. k + j \in Nat
      BY <1>1, <1>2
    <3> QED BY <3>1, <3>2, <1>1, <1>2, InString
  <2>6. IsString(before, call.s, i) /\ i \in 0 .. Size - 1
    BY <1>1, <1>2, <1>3, <1>6, InString
  <2>7. OccursAt(before, call.d + k, call.s)
    <3>1. \A j \in 0 .. i - 1 : /\ text + j \in Addrs
                                /\ before[text + j] = before[call.s + j]
      <4>1. \A j \in 0 .. i - 1 : call.d + (k + j) = text + j
        BY <1>1, <1>2
      <4> QED BY <4>1, <2>5, <1>1
    <3> QED BY <3>1, <2>6, <1>2 DEF OccursAt
  <2>8. Occurs(before, call.d, call.s)
    BY <2>2, <2>3, <2>4, <2>7 DEF Occurs
  <2>9. Correct(before, call, mem, 1)
    BY <2>8, <1>1 DEF Correct, Truth
  <2> QED BY <1>1, <2>1, <2>9 DEF IInv, RoutineCorrect, Running
<1>7. CASE before[text] # 0 /\ b # 0 /\ ~(a # 0 /\ a = b)
  <2>1. text' = text + 1 /\ i' = 0 /\ UNCHANGED <<mem, call, result, before>>
    BY <1>1, <1>7 DEF text_contains
  <2>2. ASSUME OccursAt(before, text, call.s) PROVE FALSE
    <3>1. PICK n \in 0 .. Size - 1 :
            /\ IsString(before, call.s, n)
            /\ \A j \in 0 .. n - 1 : before[text + j] = before[call.s + j]
      BY <2>2 DEF OccursAt
    <3>2. n \in Nat
      BY <3>1, MemoryAssumption
    <3>3. i <= n /\ i # n
      BY <3>1, <3>2, <1>1, <1>3, <1>7, StringEnd
    <3>4. i \in 0 .. n - 1
      BY <3>2, <3>3, <1>1
    <3> QED BY <3>1, <3>4, <1>7
  <2>3. \A j \in 0 .. (k + 1) - 1 :
          before[call.d + j] # 0 /\ ~OccursAt(before, call.d + j, call.s)
    <3>1. ASSUME NEW j \in 0 .. (k + 1) - 1
          PROVE  j \in 0 .. k - 1 \/ call.d + j = text
      BY <1>2
    <3> QED BY <3>1, <2>2, <1>1, <1>7
  <2>4. /\ text' - call.d = k + 1 /\ text' \in Nat /\ call.d <= text'
        /\ i' \in Nat
    BY <2>1, <1>1, <1>2
  <2>5. SearchInv'
    BY <2>1, <2>3, <2>4 DEF SearchInv
  <2>6. LoopInv'
    BY <1>1, <2>1, <2>4, <2>5
       DEF LoopInv, CopyInv, FillInv, CompareInv, LengthInv, EqualInv
  <2> QED BY <1>1, <2>1, <2>6 DEF IInv, RoutineCorrect
<1> QED BY <1>4, <1>5, <1>6, <1>7

-----------------------------------------------------------------------------

\* Every step of a routine keeps the loop invariants.
LEMMA RoutineStepKeeps ==
  ASSUME IInv, RoutineNext
  PROVE  IInv'
BY CallStep, CopyStep, FillStep, CompareStep, LengthStep, EqualStep, SearchStep
   DEF RoutineNext, RoutineStep

\* The invariant holds in every reachable state.
LEMMA Invariance == RoutineSpec => []IInv
<1>1. RoutineInit => IInv
  BY DEF RoutineInit, IInv, Memories, RoutineCorrect, NoCall, Running
<1>2. ASSUME IInv, [RoutineNext]_routine PROVE IInv'
  <2>1. CASE UNCHANGED routine
    BY <1>2, <2>1
       DEF routine, IInv, LoopInv, CopyInv, FillInv, CompareInv, LengthInv,
           EqualInv, SearchInv, RoutineCorrect
  <2> QED BY <1>2, <2>1, RoutineStepKeeps
<1> QED BY <1>1, <1>2, PTL DEF RoutineSpec

\* memcpy, memset, memcmp, strlen, text_equal and text_contains do what their
\* C definitions say, on memories and strings of any length.
THEOREM RoutinesAreCorrect == RoutineSpec => []RoutineCorrect
<1>1. IInv => RoutineCorrect
  BY DEF IInv
<1> QED BY <1>1, Invariance, PTL
=============================================================================
