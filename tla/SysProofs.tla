------------------------------- MODULE SysProofs -------------------------------
(***************************************************************************)
(* Proofs about Sys: what the functions of sys.c return and write, for     *)
(* every size and content of the memory, every call its caller may make,   *)
(* every base and every width of the integers up to 32 bits.               *)
(*                                                                         *)
(* Each function has the invariant of its loop, a step of a function       *)
(* touches that one alone, and at the end of a call it gives the property. *)
(***************************************************************************)
EXTENDS Sys, WellFoundedInduction, TLAPS

(*---------------------------- strings and calls ---------------------------*)

(* A set of naturals that is not empty has a least element.                 *)
LEMMA Least ==
  ASSUME NEW T \in SUBSET Nat, T # {}
  PROVE  \E x \in T : \A y \in T : x <= y
<1> DEFINE R == OpToRel(<, Nat)
<1>1. IsWellFoundedOn(R, Nat)
  BY NatLessThanWellFounded
<1> HIDE DEF R
<1>2. PICK x \in T : \A y \in T : ~(<<y, x>> \in R)
  BY <1>1, WFMin
<1>3. \A y \in T : y < x => <<y, x>> \in R
  BY DEF R, OpToRel
<1>4. \A y \in T : ~(y < x)
  BY <1>2, <1>3, Zenon
<1> QED
  BY <1>4

(* A string ends at its first zero, and StringEnd is that address.          *)
LEMMA StringEndIs ==
  ASSUME NEW m \in [Addresses -> Bytes], NEW s \in Addresses, IsString(m, s)
  PROVE  /\ StringEnd(m, s) \in Addresses /\ StringEnd(m, s) >= s
         /\ m[StringEnd(m, s)] = 0
         /\ \A j \in s .. StringEnd(m, s) - 1 : m[j] # 0
<1> DEFINE Ends == {k \in Addresses : k >= s /\ m[k] = 0}
           First(k) == k \in Addresses /\ k >= s /\ m[k] = 0 /\ \A j \in s .. k - 1 : m[j] # 0
<1>1. Ends \in SUBSET Nat /\ Ends # {}
  BY SysAssumption DEF IsString, Addresses
<1>2. PICK k \in Ends : \A j \in Ends : k <= j
  BY <1>1, Least, Zenon
<1>3. \A j \in s .. k - 1 : j \in Addresses /\ j >= s /\ j < k
  BY <1>2, SysAssumption DEF Addresses
<1>4. \A j \in s .. k - 1 : m[j] # 0
  <2> SUFFICES ASSUME NEW j \in s .. k - 1, m[j] = 0 PROVE FALSE
    OBVIOUS
  <2>1. j \in Ends /\ j < k /\ j \in Nat /\ k \in Nat
    BY <1>1, <1>2, <1>3
  <2> QED
    BY <1>2, <2>1
<1>5. First(k)
  BY <1>2, <1>4
<1>6. StringEnd(m, s) = CHOOSE x : First(x)
  BY DEF StringEnd
<1> HIDE DEF First
<1>7. First(StringEnd(m, s))
  BY <1>5, <1>6, Zenon
<1> QED
  BY <1>7 DEF First

(* The first zero that a loop finds is the end of the string.               *)
LEMMA EndFound ==
  ASSUME NEW m \in [Addresses -> Bytes], NEW s \in Addresses, IsString(m, s),
         NEW k \in Nat, s + k \in Addresses, m[s + k] = 0, \A j \in 0 .. k - 1 : m[s + j] # 0
  PROVE  StringEnd(m, s) = s + k
<1> DEFINE end == StringEnd(m, s)
<1>1. /\ end \in Addresses /\ end >= s /\ m[end] = 0
      /\ \A j \in s .. end - 1 : m[j] # 0
  BY StringEndIs
<1> HIDE DEF end
<1>2. s \in Nat /\ end \in Nat
  BY <1>1, SysAssumption DEF Addresses
<1>3. ~(s + k < end)
  BY <1>1, <1>2
<1>4. ~(end < s + k)
  <2> SUFFICES ASSUME end < s + k PROVE FALSE
    OBVIOUS
  <2>1. end - s \in 0 .. k - 1 /\ s + (end - s) = end
    BY <1>1, <1>2
  <2> QED
    BY <1>1, <2>1
<1> QED
  BY <1>2, <1>3, <1>4 DEF end

(* What a caller of each function has promised, about the memory it gave.   *)
Asked == call \in MemoryCalls(old) \cup TextCalls

InMemory(a, n) == a \in Nat /\ n \in Nat /\ a + n <= Size

(* The bytes a call names are in memory, its strings end and its blocks do  *)
(* not overlap.                                                             *)
LEMMA Promised ==
  ASSUME Asked, old \in [Addresses -> Bytes]
  PROVE  /\ call.fn = "memset" => InMemory(call.d, call.n) /\ call.c \in Bytes
         /\ call.fn \in {"memcpy", "memcmp"} =>
              InMemory(call.d, call.n) /\ InMemory(call.s, call.n)
         /\ call.fn = "memcpy" => Disjoint(call.d, call.s, call.n)
         /\ call.fn \in {"strlen", "strcpy"} => call.s \in Addresses /\ IsString(old, call.s)
         /\ call.fn = "strcpy" =>
              LET n == StringEnd(old, call.s) + 1 - call.s
              IN  InMemory(call.d, n) /\ Disjoint(call.d, call.s, n)
         /\ call.fn = "strncpy" =>
              /\ InMemory(call.d, call.n) /\ call.s \in Addresses
              /\ InMemory(call.s, call.n) \/ IsString(old, call.s)
              /\ Disjoint(call.d, call.s, call.n)
         /\ call.fn = "itoa" => call.d \in Sint32 /\ call.s \in Bases
         /\ call.fn = "hex8" => call.d \in 0 .. 2 ^ Bits - 1
<1> DEFINE top == 2 ^ Bits - 1
<1>0. TextCalls = {Call("itoa", v, b, 0, 0) : v \in Sint32, b \in Bases}
                    \cup {Call("hex8", v, 0, 0, 0) : v \in 0 .. top}
  BY DEF TextCalls
<1> HIDE DEF top
<1> USE SysAssumption DEF Call, InMemory, Addresses, Fits
<1>1. call \in TextCalls => call.fn \in {"itoa", "hex8"}
  BY <1>0
<1>2. call \in MemoryCalls(old) => call.fn \notin {"itoa", "hex8"}
  BY DEF MemoryCalls
<1>3. call.fn = "memset" => InMemory(call.d, call.n) /\ call.c \in Bytes
  BY <1>1 DEF Asked, MemoryCalls
<1>4. call.fn = "memcpy" => /\ InMemory(call.d, call.n) /\ InMemory(call.s, call.n)
                            /\ Disjoint(call.d, call.s, call.n)
  BY <1>1 DEF Asked, MemoryCalls
<1>5. call.fn = "memcmp" => InMemory(call.d, call.n) /\ InMemory(call.s, call.n)
  BY <1>1 DEF Asked, MemoryCalls
<1>6. call.fn = "strlen" => call.s \in Addresses /\ IsString(old, call.s)
  BY <1>1 DEF Asked, MemoryCalls
<1>7. ASSUME call.fn = "strcpy"
      PROVE  LET n == StringEnd(old, call.s) + 1 - call.s
             IN  /\ call.s \in Addresses /\ IsString(old, call.s)
                 /\ InMemory(call.d, n) /\ Disjoint(call.d, call.s, n)
  <2>1. /\ call.s \in Addresses /\ call.d \in Addresses /\ IsString(old, call.s)
        /\ LET n == StringEnd(old, call.s) + 1 - call.s
           IN  Fits(call.d, n) /\ Disjoint(call.d, call.s, n)
    BY <1>1, <1>7 DEF Asked, MemoryCalls
  <2> QED
    BY <2>1, StringEndIs
<1>8. call.fn = "strncpy" =>
        /\ InMemory(call.d, call.n) /\ call.s \in Addresses
        /\ InMemory(call.s, call.n) \/ IsString(old, call.s)
        /\ Disjoint(call.d, call.s, call.n)
  BY <1>1 DEF Asked, MemoryCalls
<1>9. call.fn = "itoa" => call.d \in Sint32 /\ call.s \in Bases
  BY <1>0, <1>2 DEF Asked
<1>10. call.fn = "hex8" => call.d \in 0 .. top
  BY <1>0, <1>2 DEF Asked
<1> QED
  BY <1>3, <1>4, <1>5, <1>6, <1>7, <1>8, <1>9, <1>10 DEF top

(*-------------------------------- the loops -------------------------------*)

Given == Asked /\ old \in [Addresses -> Bytes]

Filled(a, n, b) == mem = [x \in Addresses |-> IF x \in Region(a, n) THEN b ELSE old[x]]
Copied(a, s, n) ==
  mem = [x \in Addresses |-> IF x \in Region(a, n) THEN old[s + (x - a)] ELSE old[x]]

MemsetLoop ==
  call.fn = "memset" =>
    /\ pc \in {"start", "done"} /\ i \in 0 .. call.n
    /\ Filled(call.d, i, call.c)
    /\ pc = "done" => i = call.n

MemcpyLoop ==
  call.fn = "memcpy" =>
    /\ pc \in {"start", "done"} /\ i \in 0 .. call.n
    /\ Copied(call.d, call.s, i)
    /\ pc = "done" => i = call.n

\* All the bytes up to i are equal; the answer is about byte i, or there is none.
MemcmpLoop ==
  call.fn = "memcmp" =>
    /\ pc \in {"start", "done"} /\ i \in 0 .. call.n /\ mem = old
    /\ \A k \in 0 .. i - 1 : mem[call.d + k] = mem[call.s + k]
    /\ pc = "done" => IF i = call.n THEN ret = 0
                      ELSE /\ mem[call.d + i] # mem[call.s + i]
                           /\ ret = mem[call.d + i] - mem[call.s + i]

\* The loops over a string have not met its end in the i bytes before.
Unended == /\ i \in Nat /\ \A k \in 0 .. i - 1 : old[call.s + k] # 0

StrlenLoop ==
  call.fn = "strlen" =>
    /\ pc \in {"start", "done"} /\ Unended /\ mem = old
    /\ pc = "done" => old[call.s + i] = 0 /\ ret = i

StrcpyLoop ==
  call.fn = "strcpy" =>
    /\ pc \in {"start", "copied", "done"} /\ Unended
    /\ pc = "start" => Copied(call.d, call.s, i)
    /\ pc # "start" => old[call.s + i] = 0 /\ Copied(call.d, call.s, i + 1)

Padded(a, s, n) ==
  mem = [x \in Addresses |->
           IF x \in Region(a, n)
             THEN IF \E j \in 0 .. x - a : old[s + j] = 0 THEN 0 ELSE old[s + (x - a)]
             ELSE old[x]]

StrncpyLoop ==
  call.fn = "strncpy" =>
    /\ pc \in {"start", "pad", "done"} /\ i \in 0 .. call.n
    /\ pc = "start" => Unended
    /\ pc = "pad" => i = call.n \/ \E j \in 0 .. i : old[call.s + j] = 0
    /\ Padded(call.d, call.s, i)
    /\ pc = "done" => i = call.n

\* A call is served by its own function, and nothing changes what was asked.
Serves ==
  /\ UNCHANGED <<call, old>>
  /\ call.fn = "memset" => sys_memset
  /\ call.fn = "memcpy" => sys_memcpy
  /\ call.fn = "memcmp" => sys_memcmp
  /\ call.fn = "strlen" => sys_strlen
  /\ call.fn = "strcpy" => sys_strcpy
  /\ call.fn = "strncpy" => sys_strncpy
  /\ call.fn = "itoa" => sys_itoa
  /\ call.fn = "hex8" => sys_u32_to_hex8

(* Each function steps on its own calls alone.                              *)
LEMMA OwnSteps == Next => Serves
<1> SUFFICES ASSUME Next PROVE Serves
  OBVIOUS
<1> USE DEF Serves, In, Put, Advance, Return, Goto
<1>1. CASE sys_memset
  BY <1>1 DEF sys_memset
<1>2. CASE sys_memcpy
  BY <1>2 DEF sys_memcpy
<1>3. CASE sys_memcmp
  BY <1>3 DEF sys_memcmp
<1>4. CASE sys_strlen
  BY <1>4 DEF sys_strlen
<1>5. CASE sys_strcpy
  BY <1>5 DEF sys_strcpy
<1>6. CASE sys_strncpy
  BY <1>6 DEF sys_strncpy
<1>7. CASE sys_itoa
  BY <1>7 DEF sys_itoa, ItoaRefuses, ItoaDigit, ItoaSign, ItoaTurn
<1>8. CASE sys_u32_to_hex8
  BY <1>8 DEF sys_u32_to_hex8
<1> QED
  BY <1>1, <1>2, <1>3, <1>4, <1>5, <1>6, <1>7, <1>8 DEF Next

(* One more byte put behind a region makes the region longer by one.        *)
LEMMA PutExtends ==
  ASSUME NEW m \in [Addresses -> Int], NEW a \in Int, NEW k \in Nat, NEW b \in Int
  PROVE  /\ [m EXCEPT ![a + k] = b] = [x \in Addresses |-> IF x = a + k THEN b ELSE m[x]]
         /\ \A x \in Addresses : x \in Region(a, k + 1) <=> x \in Region(a, k) \/ x = a + k
<1>1. \A x \in Addresses : x \in Int
  BY SysAssumption DEF Addresses
<1>2. ASSUME NEW x \in Int
      PROVE  x \in Region(a, k + 1) <=> x \in Region(a, k) \/ x = a + k
  BY DEF Region
<1>3. [m EXCEPT ![a + k] = b] = [x \in Addresses |-> IF x = a + k THEN b ELSE m[x]]
  OBVIOUS
<1> QED
  BY <1>1, <1>2, <1>3

(* A byte is a number.                                                      *)
LEMMA BytesAreInts ==
  Bytes \subseteq Int /\ 0 \in Bytes /\ [Addresses -> Bytes] \subseteq [Addresses -> Int]
<1>1. Bytes \subseteq Int /\ 0 \in Bytes
  BY SysAssumption
<1> QED
  BY <1>1

(* memset has set the first i bytes of its region.                          *)
LEMMA MemsetStep ==
  ASSUME Given, MemsetLoop, Serves
  PROVE  MemsetLoop'
<1> SUFFICES ASSUME call.fn = "memset" PROVE MemsetLoop'
  BY DEF MemsetLoop, Serves
<1>1. InMemory(call.d, call.n) /\ call.c \in Bytes
  BY Promised DEF Given
<1>2. sys_memset /\ UNCHANGED <<call, old>>
  BY DEF Serves
<1>3. CASE i # call.n /\ Put(call.c)
  <2>1. /\ i \in Nat /\ i + 1 \in 0 .. call.n /\ i' = i + 1 /\ pc' = pc /\ pc # "done"
        /\ call' = call /\ old' = old
    BY <1>1, <1>2, <1>3 DEF MemsetLoop, Put, InMemory, sys_memset, In
  <2>2. mem \in [Addresses -> Int] /\ call.d \in Int /\ call.c \in Int
    <3>1. mem \in [Addresses -> Bytes]
      BY <1>1 DEF MemsetLoop, Filled, Given
    <3>2. call.c \in Int
      BY <1>1, BytesAreInts
    <3> QED
      BY <3>1, <3>2, <1>1, BytesAreInts DEF InMemory
  <2>3. mem' = [x \in Addresses |-> IF x = call.d + i THEN call.c ELSE mem[x]]
    BY <2>1, <2>2, <1>3, PutExtends DEF Put
  <2>4. \A x \in Addresses : x \in Region(call.d, i + 1) <=>
                             x \in Region(call.d, i) \/ x = call.d + i
    BY <2>1, <2>2, PutExtends
  <2>5. mem' = [x \in Addresses |-> IF x \in Region(call.d, i + 1) THEN call.c ELSE old[x]]
    BY <2>3, <2>4 DEF MemsetLoop, Filled
  <2> QED
    BY <2>1, <2>5 DEF MemsetLoop, Filled
<1>4. CASE i = call.n /\ Return(call.d)
  BY <1>4, <1>2 DEF MemsetLoop, Return, Filled
<1> QED
  BY <1>2, <1>3, <1>4 DEF sys_memset

(* A copy of bytes leaves a memory of bytes.                                *)
LEMMA CopiedType ==
  ASSUME Given, NEW a \in Nat, NEW s \in Nat, NEW n \in Nat, s + n <= Size, Copied(a, s, n)
  PROVE  mem \in [Addresses -> Bytes] /\ mem \in [Addresses -> Int]
<1>1. \A x \in Region(a, n) : s + (x - a) \in Addresses
  BY SysAssumption DEF Region, Addresses
<1>2. mem \in [Addresses -> Bytes]
  BY <1>1 DEF Given, Copied
<1> QED
  BY <1>2, BytesAreInts

(* memcpy has copied the first i bytes; its source is still as it was.      *)
LEMMA MemcpyStep ==
  ASSUME Given, MemcpyLoop, Serves
  PROVE  MemcpyLoop'
<1> SUFFICES ASSUME call.fn = "memcpy" PROVE MemcpyLoop'
  BY DEF MemcpyLoop, Serves
<1>1. InMemory(call.d, call.n) /\ InMemory(call.s, call.n) /\ Disjoint(call.d, call.s, call.n)
  BY Promised DEF Given
<1>2. sys_memcpy /\ UNCHANGED <<call, old>>
  BY DEF Serves
<1>3. CASE i # call.n /\ Put(mem[call.s + i])
  <2>1. i \in Nat /\ i < call.n /\ call.s + i \in Addresses /\ call.s + i \notin Region(call.d, i)
    <3>1. i \in Nat /\ i < call.n /\ call.s + i \in Addresses
      BY <1>1, <1>3, SysAssumption DEF MemcpyLoop, InMemory, Addresses
    <3>2. call.s + i \in Region(call.s, call.n)
      BY <3>1, <1>1 DEF Region, InMemory
    <3>3. \A x \in Region(call.d, i) : x \in Region(call.d, call.n)
      BY <3>1, <1>1 DEF Region, InMemory
    <3> QED
      BY <3>1, <3>2, <3>3, <1>1 DEF Disjoint
  <2>2. mem[call.s + i] = old[call.s + i]
    BY <2>1 DEF MemcpyLoop, Copied
  <2>3. /\ i + 1 \in 0 .. call.n /\ i' = i + 1 /\ pc' = pc /\ pc # "done"
        /\ call' = call /\ old' = old
    <3>1. pc = "start" /\ UNCHANGED <<call, old, pc>> /\ i' = i + 1
      BY <1>2, <1>3 DEF sys_memcpy, In, Put
    <3> QED
      BY <3>1, <2>1, <1>1 DEF InMemory
  <2>4. mem \in [Addresses -> Int] /\ call.d \in Int /\ mem[call.s + i] \in Int
    <3>1. mem \in [Addresses -> Bytes]
      <4>1. call.s + i <= Size
        BY <1>1, <2>1, SysAssumption DEF InMemory
      <4> QED
        BY <4>1, <1>1, <2>1, CopiedType DEF MemcpyLoop, InMemory
    <3> QED
      BY <3>1, <2>1, <1>1, BytesAreInts DEF InMemory
  <2>5. mem' = [x \in Addresses |-> IF x = call.d + i THEN old[call.s + i] ELSE mem[x]]
    BY <2>1, <2>2, <2>4, <1>3, PutExtends DEF Put
  <2>6. \A x \in Addresses : x \in Region(call.d, i + 1) <=>
                             x \in Region(call.d, i) \/ x = call.d + i
    BY <2>1, <2>4, PutExtends
  <2>7a. call.d + i - call.d = i
    BY <2>1, <2>4
  <2>7. mem' = [x \in Addresses |->
                 IF x \in Region(call.d, i + 1) THEN old[call.s + (x - call.d)] ELSE old[x]]
    BY <2>1, <2>4, <2>5, <2>6, <2>7a DEF MemcpyLoop, Copied
  <2> QED
    BY <2>3, <2>7 DEF MemcpyLoop, Copied
<1>4. CASE i = call.n /\ Return(call.d)
  BY <1>4, <1>2 DEF MemcpyLoop, Return, Copied
<1> QED
  BY <1>2, <1>3, <1>4 DEF sys_memcpy

(* memcmp has found the first i bytes equal.                                *)
LEMMA MemcmpStep ==
  ASSUME Given, MemcmpLoop, Serves
  PROVE  MemcmpLoop'
<1> SUFFICES ASSUME call.fn = "memcmp" PROVE MemcmpLoop'
  BY DEF MemcmpLoop, Serves
<1>1. InMemory(call.d, call.n) /\ InMemory(call.s, call.n)
  BY Promised DEF Given
<1>2. sys_memcmp /\ UNCHANGED <<call, old>>
  BY DEF Serves
<1> USE DEF MemcmpLoop
<1>3. CASE i # call.n /\ mem[call.d + i] # mem[call.s + i]
           /\ Return(mem[call.d + i] - mem[call.s + i])
  BY <1>2, <1>3 DEF Return
<1>4. CASE i # call.n /\ mem[call.d + i] = mem[call.s + i] /\ Advance
  BY <1>1, <1>2, <1>4 DEF Advance, InMemory
<1>5. CASE i = call.n /\ Return(0)
  BY <1>2, <1>5 DEF Return
<1> QED
  BY <1>2, <1>3, <1>4, <1>5 DEF sys_memcmp

(* The byte that a loop over a string looks at is in memory.                *)
LEMMA NextIsInMemory ==
  ASSUME NEW m \in [Addresses -> Bytes], NEW s \in Addresses, IsString(m, s),
         NEW n \in Nat, \A k \in 0 .. n - 1 : m[s + k] # 0
  PROVE  /\ s + n \in Addresses
         /\ s + n <= StringEnd(m, s)
<1> DEFINE end == StringEnd(m, s)
<1>1. end \in Addresses /\ end >= s /\ m[end] = 0
  BY StringEndIs
<1> HIDE DEF end
<1>2. s \in Nat /\ end \in Nat
  BY <1>1, SysAssumption DEF Addresses
<1>3. ~(end < s + n)
  <2> SUFFICES ASSUME end < s + n PROVE FALSE
    OBVIOUS
  <2>1. end - s \in 0 .. n - 1 /\ s + (end - s) = end
    BY <1>1, <1>2
  <2> QED
    BY <1>1, <2>1
<1>4. s + n <= end
  BY <1>2, <1>3
<1>5. s + n \in Addresses
  BY <1>1, <1>2, <1>4, SysAssumption DEF Addresses
<1> QED
  BY <1>4, <1>5 DEF end

(* strlen has met no zero in the first i bytes.                             *)
LEMMA StrlenStep ==
  ASSUME Given, StrlenLoop, Serves
  PROVE  StrlenLoop'
<1> SUFFICES ASSUME call.fn = "strlen" PROVE StrlenLoop'
  BY DEF StrlenLoop, Serves
<1>1. sys_strlen /\ UNCHANGED <<call, old>>
  BY DEF Serves
<1> USE DEF StrlenLoop, Unended
<1>2. CASE mem[call.s + i] # 0 /\ Advance
  BY <1>1, <1>2 DEF Advance, sys_strlen, In
<1>3. CASE mem[call.s + i] = 0 /\ Return(i)
  BY <1>1, <1>3 DEF Return
<1> QED
  BY <1>1, <1>2, <1>3 DEF sys_strlen

(* strcpy has copied the first i bytes, none of them zero; then the zero.   *)
LEMMA StrcpyStep ==
  ASSUME Given, StrcpyLoop, Serves
  PROVE  StrcpyLoop'
<1> SUFFICES ASSUME call.fn = "strcpy" PROVE StrcpyLoop'
  BY DEF StrcpyLoop, Serves
<1> DEFINE n == StringEnd(old, call.s) + 1 - call.s
<1>1. sys_strcpy /\ UNCHANGED <<call, old>>
  BY DEF Serves
<1>2. /\ call.s \in Addresses /\ IsString(old, call.s)
      /\ InMemory(call.d, n) /\ Disjoint(call.d, call.s, n)
  BY Promised DEF Given
<1>3. CASE pc = "start"
  <2>1. i \in Nat /\ call.s + i \in Addresses /\ i < n
    <3>1. i \in Nat /\ call.s + i \in Addresses /\ call.s + i <= StringEnd(old, call.s)
      BY <1>2, NextIsInMemory DEF StrcpyLoop, Unended, Given
    <3>2. StringEnd(old, call.s) \in Int /\ call.s \in Int
      BY <1>2, StringEndIs, SysAssumption DEF Given, Addresses
    <3> QED
      BY <3>1, <3>2
  <2> HIDE DEF n
  <2>2. mem[call.s + i] = old[call.s + i]
    <3>1. call.s + i \in Region(call.s, n)
      BY <2>1, <1>2, SysAssumption DEF Region, InMemory, Addresses
    <3>2. \A x \in Region(call.d, i) : x \in Region(call.d, n)
      BY <2>1, <1>2 DEF Region, InMemory
    <3>3. call.s + i \notin Region(call.d, i)
      BY <3>1, <3>2, <1>2 DEF Disjoint
    <3> QED
      BY <1>3, <2>1, <3>3 DEF StrcpyLoop, Copied
  <2>3. /\ mem \in [Addresses -> Int] /\ call.d \in Int
        /\ old[call.s + i] \in Int
    <3>1. call.s \in Nat /\ call.d \in Nat /\ call.s + i <= Size
      BY <1>2, <2>1, SysAssumption DEF Addresses, InMemory
    <3>2. mem \in [Addresses -> Int]
      BY <1>3, <2>1, <3>1, CopiedType DEF StrcpyLoop
    <3>3. old[call.s + i] \in Int
      BY <2>1, BytesAreInts DEF Given
    <3> QED
      BY <3>1, <3>2, <3>3
  <2>4. ASSUME mem' = [mem EXCEPT ![call.d + i] = old[call.s + i]]
        PROVE  mem' = [x \in Addresses |-> IF x \in Region(call.d, i + 1)
                                             THEN old[call.s + (x - call.d)] ELSE old[x]]
    <3>1. mem' = [x \in Addresses |-> IF x = call.d + i THEN old[call.s + i] ELSE mem[x]]
      BY <2>4, <2>1, <2>3, PutExtends
    <3>2. \A x \in Addresses : x \in Region(call.d, i + 1) <=>
                                 x \in Region(call.d, i) \/ x = call.d + i
      BY <2>1, <2>3, PutExtends
    <3>3. (call.d + i) - call.d = i
      BY <2>1, <2>3
    <3> QED
      BY <1>3, <3>1, <3>2, <3>3 DEF StrcpyLoop, Copied
  <2>5. CASE mem[call.s + i] # 0 /\ Put(mem[call.s + i])
    <3>1. pc' = pc /\ i' = i + 1 /\ mem' = [mem EXCEPT ![call.d + i] = old[call.s + i]]
      BY <2>5, <2>2 DEF Put
    <3>2. Copied(call.d, call.s, i)'
      BY <3>1, <2>4, <1>1 DEF Copied
    <3>3. Unended'
      BY <3>1, <2>1, <2>2, <2>5, <1>1 DEF StrcpyLoop, Unended
    <3> QED
      BY <3>1, <3>2, <3>3, <1>3 DEF StrcpyLoop
  <2>6. CASE mem[call.s + i] = 0 /\ mem' = [mem EXCEPT ![call.d + i] = 0]
             /\ pc' = "copied" /\ UNCHANGED <<call, old, i, u, text, ret>>
    <3>1. mem' = [mem EXCEPT ![call.d + i] = old[call.s + i]]
      BY <2>6, <2>2
    <3>2. Copied(call.d, call.s, i + 1)'
      BY <3>1, <2>4, <2>6 DEF Copied
    <3> QED
      BY <3>2, <2>2, <2>6 DEF StrcpyLoop, Unended
  <2> QED
    BY <1>1, <1>3, <2>5, <2>6 DEF sys_strcpy
<1>4. CASE pc = "copied" /\ Return(call.d)
  BY <1>1, <1>4 DEF Return, StrcpyLoop, Unended, Copied
<1> QED
  BY <1>1, <1>3, <1>4 DEF sys_strcpy

(* What strncpy has written is bytes.                                       *)
LEMMA StrncpyType ==
  ASSUME Given, StrncpyLoop, call.fn = "strncpy"
  PROVE  mem \in [Addresses -> Bytes]
<1> DEFINE Pads(k) == \E j \in 0 .. k : old[call.s + j] = 0
           Byte(k) == IF Pads(k) THEN 0 ELSE old[call.s + k]
<1>1. /\ InMemory(call.d, call.n) /\ call.s \in Addresses
      /\ InMemory(call.s, call.n) \/ IsString(old, call.s)
  BY Promised DEF Given
<1>2. i \in Nat /\ call.n \in Nat /\ i <= call.n /\ call.d \in Nat /\ call.s \in Nat
  BY <1>1, SysAssumption DEF StrncpyLoop, InMemory, Addresses
<1>3. mem = [x \in Addresses |-> IF x \in Region(call.d, i) THEN Byte(x - call.d) ELSE old[x]]
  BY DEF Padded, StrncpyLoop
<1> HIDE DEF Pads, Byte
<1>4. \A k \in 0 .. i - 1 : Byte(k) \in Bytes
  <2> SUFFICES ASSUME NEW k \in 0 .. i - 1 PROVE Byte(k) \in Bytes
    OBVIOUS
  <2>1. CASE Pads(k)
    BY <2>1, BytesAreInts DEF Byte
  <2>2. CASE ~Pads(k)
    <3>1. \A j \in 0 .. k : old[call.s + j] # 0
      BY <2>2 DEF Pads
    <3>2. call.s + k \in Addresses
      <4>1. CASE InMemory(call.s, call.n)
        BY <4>1, <1>2, SysAssumption DEF InMemory, Addresses
      <4>2. CASE IsString(old, call.s)
        BY <4>2, <1>1, <3>1, NextIsInMemory DEF Given
      <4> QED
        BY <4>1, <4>2, <1>1
    <3> QED
      BY <2>2, <3>2 DEF Given, Byte
  <2> QED
    BY <2>1, <2>2
<1>5. \A x \in Region(call.d, i) : x - call.d \in 0 .. i - 1
  BY <1>2 DEF Region
<1>6. \A x \in Addresses : x \in Region(call.d, i) => Byte(x - call.d) \in Bytes
  BY <1>4, <1>5
<1> QED
  BY <1>6, <1>3 DEF Given

(* strncpy has dealt with the first i bytes: it copies, and then pads.      *)
LEMMA StrncpyStep ==
  ASSUME Given, StrncpyLoop, Serves
  PROVE  StrncpyLoop'
<1> SUFFICES ASSUME call.fn = "strncpy" PROVE StrncpyLoop'
  BY DEF StrncpyLoop, Serves
<1> DEFINE Pads(k) == \E j \in 0 .. k : old[call.s + j] = 0
           Byte(k) == IF Pads(k) THEN 0 ELSE old[call.s + k]
<1>1. sys_strncpy /\ UNCHANGED <<call, old>>
  BY DEF Serves
<1>2. /\ InMemory(call.d, call.n) /\ call.s \in Addresses
      /\ InMemory(call.s, call.n) \/ IsString(old, call.s)
      /\ Disjoint(call.d, call.s, call.n)
  BY Promised DEF Given
<1>3. i \in Nat /\ call.n \in Nat /\ i <= call.n /\ call.d \in Nat /\ call.s \in Nat
  BY <1>2, SysAssumption DEF StrncpyLoop, InMemory, Addresses
\* What the memory is, with no reference to how the region was filled.
<1>4. Padded(call.d, call.s, i) <=>
        mem = [x \in Addresses |-> IF x \in Region(call.d, i) THEN Byte(x - call.d) ELSE old[x]]
  BY DEF Padded
<1>5. ASSUME pc = "start", i < call.n
      PROVE  call.s + i \in Addresses /\ mem[call.s + i] = old[call.s + i]
  <2>1. call.s + i \in Addresses
    <3>1. CASE InMemory(call.s, call.n)
      BY <3>1, <1>3, <1>5, SysAssumption DEF InMemory, Addresses
    <3>2. CASE IsString(old, call.s)
      BY <3>2, <1>2, <1>3, <1>5, NextIsInMemory DEF StrncpyLoop, Unended, Given
    <3> QED
      BY <3>1, <3>2, <1>2
  <2>2. call.s + i \in Region(call.s, call.n)
    BY <1>3, <1>5 DEF Region
  <2>3. \A x \in Region(call.d, i) : x \in Region(call.d, call.n)
    BY <1>3 DEF Region
  <2>4. call.s + i \notin Region(call.d, i)
    BY <2>2, <2>3, <1>2 DEF Disjoint
  <2> QED
    BY <2>1, <2>4 DEF StrncpyLoop, Padded
<1> HIDE DEF Pads, Byte
\* The byte put at i, in either loop, is the one that belongs there.
<1>6. ASSUME i < call.n, NEW b \in Int, Put(b), b = Byte(i), mem \in [Addresses -> Int]
      PROVE  Padded(call.d, call.s, i)' /\ i' \in 0 .. call.n /\ pc' = pc /\ i' = i + 1
  <2>1. mem' = [mem EXCEPT ![call.d + i] = b] /\ i' = i + 1 /\ pc' = pc
    BY <1>6 DEF Put
  <2>2. mem' = [x \in Addresses |-> IF x = call.d + i THEN b ELSE mem[x]]
    BY <2>1, <1>3, <1>6, PutExtends
  <2>3. \A x \in Addresses : x \in Region(call.d, i + 1) <=>
                               x \in Region(call.d, i) \/ x = call.d + i
    <3>1. call.d \in Int
      BY <1>3
    <3> QED
      BY <3>1, <1>3, <1>6, PutExtends
  <2>4. (call.d + i) - call.d = i
    BY <1>3
  <2>5. mem' = [x \in Addresses |-> IF x \in Region(call.d, i + 1) THEN Byte(x - call.d)
                                     ELSE old[x]]
    <3>1. mem = [x \in Addresses |-> IF x \in Region(call.d, i) THEN Byte(x - call.d) ELSE old[x]]
      BY <1>4 DEF StrncpyLoop
    <3>2. \A x \in Addresses : x = call.d + i => Byte(x - call.d) = b
      BY <2>4, <1>6
    <3> QED
      BY <2>2, <2>3, <3>1, <3>2
  <2>6. Padded(call.d, call.s, i)'
    BY <2>5, <2>1, <1>1 DEF Padded, Byte, Pads
  <2> QED
    BY <2>1, <2>6, <1>3, <1>6
<1>7. mem \in [Addresses -> Int]
  BY StrncpyType, BytesAreInts
<1>8. CASE pc = "start" /\ i < call.n /\ mem[call.s + i] # 0 /\ Put(mem[call.s + i])
  <2>1. old[call.s + i] # 0 /\ Put(old[call.s + i]) /\ old[call.s + i] \in Int
    BY <1>5, <1>7, <1>8
  <2>2. Unended
    BY <1>8 DEF StrncpyLoop
  <2>3. \A k \in 0 .. i : old[call.s + k] # 0
    BY <2>1, <2>2, <1>3 DEF Unended
  <2>4. old[call.s + i] = Byte(i)
    BY <2>3 DEF Byte, Pads
  <2>5. Padded(call.d, call.s, i)' /\ i' \in 0 .. call.n /\ pc' = pc /\ i' = i + 1
    BY <1>6, <1>7, <1>8, <2>1, <2>4
  <2>6. Unended'
    BY <2>3, <2>5, <1>1, <1>3 DEF Unended
  <2> QED
    BY <2>5, <2>6, <1>1, <1>8 DEF StrncpyLoop
<1>9. CASE pc = "start" /\ (i < call.n => mem[call.s + i] = 0) /\ Goto("pad")
  <2>1. i = call.n \/ old[call.s + i] = 0
    BY <1>3, <1>5, <1>9
  <2>2. i = call.n \/ \E j \in 0 .. i : old[call.s + j] = 0
    BY <2>1, <1>3
  <2> QED
    BY <2>2, <1>1, <1>9 DEF Goto, StrncpyLoop, Padded
<1>10. CASE pc = "pad" /\ i < call.n /\ Put(0)
  <2>1. Pads(i)
    BY <1>3, <1>10 DEF StrncpyLoop, Pads
  <2>2. Padded(call.d, call.s, i)' /\ i' \in 0 .. call.n /\ pc' = pc /\ i' = i + 1
    BY <1>6, <1>7, <1>10, <2>1 DEF Byte
  <2>3. \E j \in 0 .. i + 1 : old[call.s + j] = 0
    BY <2>1, <1>3 DEF Pads
  <2> QED
    BY <2>2, <2>3, <1>1, <1>10 DEF StrncpyLoop
<1>11. CASE pc = "pad" /\ i >= call.n /\ Return(call.d)
  BY <1>1, <1>3, <1>11 DEF Return, StrncpyLoop, Padded
<1> QED
  BY <1>1, <1>8, <1>9, <1>10, <1>11 DEF sys_strncpy

(*------------------------------- the numerals -----------------------------*)

Two(n) == 2 ^ n

(* The powers of two up to the width of an integer, each twice the one before.*)
LEMMA Powers ==
  /\ Two(0) = 1
  /\ \A n \in 0 .. 31 : Two(n) \in Nat /\ Two(n) >= 1 /\ Two(n + 1) = 2 * Two(n)
<1>1. /\ Two(0) = 1 /\ Two(1) = 2 /\ Two(2) = 4 /\ Two(3) = 8
      /\ Two(4) = 16 /\ Two(5) = 32 /\ Two(6) = 64 /\ Two(7) = 128
      /\ Two(8) = 256 /\ Two(9) = 512 /\ Two(10) = 1024 /\ Two(11) = 2048
      /\ Two(12) = 4096 /\ Two(13) = 8192 /\ Two(14) = 16384 /\ Two(15) = 32768
      /\ Two(16) = 65536 /\ Two(17) = 131072 /\ Two(18) = 262144 /\ Two(19) = 524288
      /\ Two(20) = 1048576 /\ Two(21) = 2097152 /\ Two(22) = 4194304 /\ Two(23) = 8388608
      /\ Two(24) = 16777216 /\ Two(25) = 33554432 /\ Two(26) = 67108864 /\ Two(27) = 134217728
      /\ Two(28) = 268435456 /\ Two(29) = 536870912 /\ Two(30) = 1073741824 /\ Two(31) = 2147483648
      /\ Two(32) = 4294967296
  BY DEF Two
<1> QED
  BY <1>1

(* The widths an integer may have.                                          *)
LEMMA Width ==
  /\ Bits \in Nat /\ Bits \in 4 .. 32 /\ Bits \div 4 \in Nat /\ 4 * (Bits \div 4) = Bits
  /\ Two(Bits) \in Nat /\ Two(Bits - 1) \in Nat /\ Two(Bits - 1) >= 1
  /\ Two(Bits) = 2 * Two(Bits - 1)
<1>1. Bits \in 1 .. 32 /\ Bits % 4 = 0
  BY SysAssumption
<1>2. Bits \in Nat /\ Bits \in 4 .. 32 /\ Bits \div 4 \in Nat /\ 4 * (Bits \div 4) = Bits
  BY <1>1
<1>3. Bits - 1 \in 0 .. 31 /\ (Bits - 1) + 1 = Bits
  BY <1>2
<1>4. Two(Bits - 1) \in Nat /\ Two(Bits - 1) >= 1 /\ Two(Bits) = 2 * Two(Bits - 1)
  BY <1>3, Powers, Zenon
<1> QED
  BY <1>2, <1>4

(* Division by a base, and by the range of an unsigned integer.             *)
LEMMA Division ==
  ASSUME NEW x \in Nat, NEW b \in 2 .. 16
  PROVE  /\ x \div b \in Nat /\ x % b \in 0 .. b - 1 /\ x = (x \div b) * b + (x % b)
         /\ 2 * (x \div b) <= x
         /\ x # 0 /\ x \div b = 0 => x % b # 0
OBVIOUS

(* What a remainder is, for any divisor.                                    *)
LEMMA Remainder ==
  ASSUME NEW x \in Int, NEW m \in Nat, m > 0
  PROVE  /\ x % m \in 0 .. m - 1
         /\ x \in 0 .. m - 1 => x % m = x
OBVIOUS

\* v, divided by b over and over, leaves the remainders ds, the quotients q, and r in the end.
Divided(ds, q, b, v, r) ==
  /\ ds \in Seq(0 .. b - 1) /\ q \in [0 .. Len(ds) -> Nat]
  /\ q[0] = v /\ q[Len(ds)] = r
  /\ \A k \in 1 .. Len(ds) : q[k - 1] = q[k] * b + ds[k]

(* Nothing has been divided yet.                                            *)
LEMMA DividedNever ==
  ASSUME NEW v \in Nat, NEW b \in Nat
  PROVE  \E q : Divided(<<>>, q, b, v, v)
<1> DEFINE q == [k \in 0 .. 0 |-> v]
<1>1. Divided(<<>>, q, b, v, v)
  BY DEF Divided
<1> QED
  BY <1>1

(* One more division adds a remainder and a quotient.                       *)
LEMMA DividedOnce ==
  ASSUME NEW b \in 2 .. 16, NEW v, NEW r \in Nat, NEW ds, NEW q, Divided(ds, q, b, v, r)
  PROVE  \E p : Divided(Append(ds, r % b), p, b, v, r \div b)
<1> DEFINE n == Len(ds)
           es == Append(ds, r % b)
           p == [k \in 0 .. n + 1 |-> IF k = n + 1 THEN r \div b ELSE q[k]]
<1>1. r \div b \in Nat /\ r % b \in 0 .. b - 1 /\ r = (r \div b) * b + (r % b)
  BY Division
<1>2. ds \in Seq(0 .. b - 1) /\ n \in Nat
  BY DEF Divided
<1>3. /\ es \in Seq(0 .. b - 1) /\ Len(es) = n + 1 /\ es[n + 1] = r % b
      /\ \A k \in 1 .. n : es[k] = ds[k]
  BY <1>1, <1>2
<1>4. /\ q \in [0 .. n -> Nat] /\ q[0] = v /\ q[n] = r
      /\ \A k \in 1 .. n : q[k - 1] = q[k] * b + ds[k]
  BY DEF Divided
<1> HIDE DEF es, n
<1>5. p \in [0 .. n + 1 -> Nat] /\ p[0] = v /\ p[n + 1] = r \div b
  BY <1>1, <1>2, <1>4
<1>6. \A k \in 1 .. n + 1 : p[k - 1] = p[k] * b + es[k]
  <2> SUFFICES ASSUME NEW k \in 1 .. n + 1 PROVE p[k - 1] = p[k] * b + es[k]
    OBVIOUS
  <2>1. CASE k = n + 1
    <3>1. p[k - 1] = r /\ p[k] = r \div b /\ es[k] = r % b
      BY <2>1, <1>2, <1>3, <1>4
    <3> QED
      BY <3>1, <1>1
  <2>2. CASE k \in 1 .. n
    <3>1. p[k - 1] = q[k - 1] /\ p[k] = q[k] /\ es[k] = ds[k]
      BY <2>2, <1>2, <1>3
    <3> QED
      BY <3>1, <2>2, <1>4
  <2> QED
    BY <2>1, <2>2, <1>2
<1> HIDE DEF p
<1>7. Divided(es, p, b, v, r \div b)
  BY <1>3, <1>5, <1>6 DEF Divided
<1> QED
  BY <1>7 DEF es

\* t is w backwards.
Reversed(t, w) == Len(t) = Len(w) /\ \A k \in 1 .. Len(w) : t[k] = w[Len(w) + 1 - k]

\* f is the recursion that ValueOf reads the first n digits of t with, in base b.
Reads(f, n, t, b) == f = [k \in 0 .. n |-> IF k = 0 THEN 0 ELSE f[k - 1] * b + t[k]]

(* Two functions that satisfy the recursion of ValueOf are the same.        *)
LEMMA OneValue ==
  ASSUME NEW n \in Nat, NEW b, NEW t, NEW f, Reads(f, n, t, b), NEW g, Reads(g, n, t, b)
  PROVE  f[n] = g[n]
<1> DEFINE Apart == {k \in 0 .. n : f[k] # g[k]}
<1>1. f[0] = 0 /\ g[0] = 0
  BY DEF Reads
<1>2. \A k \in 1 .. n : f[k] = f[k - 1] * b + t[k] /\ g[k] = g[k - 1] * b + t[k]
  BY DEF Reads
<1>3. ASSUME Apart # {} PROVE FALSE
  <2>1. PICK x \in Apart : \A y \in Apart : x <= y
    <3>1. Apart \in SUBSET Nat
      OBVIOUS
    <3> QED
      BY <3>1, <1>3, Least, Zenon
  <2>2. x \in 1 .. n /\ x - 1 \in 0 .. n /\ f[x] # g[x]
    BY <2>1, <1>1
  <2>3. f[x - 1] # g[x - 1]
    BY <2>2, <1>2
  <2>4. x - 1 \in Apart
    BY <2>2, <2>3
  <2> QED
    BY <2>1, <2>2, <2>4
<1> QED
  BY <1>3

(* The remainders, last to first, read back as the number divided.          *)
LEMMA ReadsBack ==
  ASSUME NEW b \in Nat, NEW v, NEW ds, NEW q, Divided(ds, q, b, v, 0),
         NEW t, Reversed(t, ds)
  PROVE  ValueOf(t, b) = v
<1> DEFINE n == Len(t)
           w == [k \in 0 .. n |-> q[n - k]]
           value == CHOOSE f : Reads(f, n, t, b)
<1>1. n \in Nat /\ n = Len(ds)
  BY DEF Divided, Reversed
<1>2. /\ q[0] = v /\ q[n] = 0
      /\ \A k \in 1 .. n : q[k - 1] = q[k] * b + ds[k]
      /\ \A k \in 1 .. n : t[k] = ds[n + 1 - k]
  BY <1>1 DEF Divided, Reversed
<1>3. ASSUME NEW k \in 1 .. n
      PROVE  q[n - k] = q[n - (k - 1)] * b + t[k]
  <2>1. n + 1 - k \in 1 .. n /\ (n + 1 - k) - 1 = n - k /\ n + 1 - k = n - (k - 1)
    BY <1>1
  <2> QED
    BY <2>1, <1>2
<1>4. Reads(w, n, t, b)
  <2>1. \A k \in 0 .. n : w[k] = IF k = 0 THEN 0 ELSE w[k - 1] * b + t[k]
    BY <1>1, <1>2, <1>3
  <2> QED
    BY <2>1 DEF Reads
<1>5. w[n] = v
  BY <1>1, <1>2
<1>6. ValueOf(t, b) = value[n]
  BY DEF ValueOf, Reads
<1> HIDE DEF w
<1>7. Reads(value, n, t, b)
  BY <1>4, Zenon
<1>8. value[n] = w[n]
  <2> HIDE DEF value, n
  <2> QED
    BY <1>1, <1>4, <1>7, OneValue
<1> QED
  BY <1>5, <1>6, <1>8

\* The first and the last j characters of w have changed places.
Turned(t, w, j) ==
  /\ t \in Seq(MINUS .. 15) /\ Len(t) = Len(w) /\ j \in Nat /\ 2 * j <= Len(w)
  /\ \A k \in 1 .. Len(w) :
       t[k] = IF k <= j \/ k > Len(w) - j THEN w[Len(w) + 1 - k] ELSE w[k]

(* One swap more.                                                           *)
LEMMA TurnedOnce ==
  ASSUME NEW w \in Seq(MINUS .. 15), NEW t, NEW j, Turned(t, w, j), j + 1 < Len(t) - j
  PROVE  Turned([t EXCEPT ![Len(t) - j] = t[j + 1], ![j + 1] = t[Len(t) - j]], w, j + 1)
<1> DEFINE n == Len(w)
           s == [t EXCEPT ![n - j] = t[j + 1], ![j + 1] = t[n - j]]
<1>1. /\ t \in Seq(MINUS .. 15) /\ Len(t) = n /\ n \in Nat /\ j \in Nat
      /\ j + 1 \in 1 .. n /\ n - j \in 1 .. n /\ j + 1 < n - j
  BY DEF Turned
<1>2. \A k \in 1 .. n : t[k] = IF k <= j \/ k > n - j THEN w[n + 1 - k] ELSE w[k]
  BY DEF Turned
<1> HIDE DEF n
<1>3. s \in Seq(MINUS .. 15) /\ Len(s) = n
  <2> DEFINE Chars == MINUS .. 15
  <2>1. t \in Seq(Chars)
    BY <1>1
  <2> HIDE DEF Chars
  <2>2. t[j + 1] \in Chars /\ t[n - j] \in Chars
    BY <2>1, <1>1
  <2>3. s \in Seq(Chars) /\ Len(s) = n
    BY <2>1, <2>2, <1>1
  <2> QED
    BY <2>3 DEF Chars
<1>4. ASSUME NEW k \in 1 .. n
      PROVE  s[k] = IF k <= j + 1 \/ k > n - (j + 1) THEN w[n + 1 - k] ELSE w[k]
  <2>1. CASE k = n - j
    <3>1. s[k] = t[j + 1]
      BY <2>1, <1>1
    <3>2. t[j + 1] = w[j + 1]
      BY <1>1, <1>2
    <3>3. n + 1 - k = j + 1 /\ k > n - (j + 1)
      BY <2>1, <1>1
    <3> QED
      BY <3>1, <3>2, <3>3
  <2>2. CASE k = j + 1
    <3>1. s[k] = t[n - j]
      BY <2>2, <1>1
    <3>2. t[n - j] = w[n - j]
      BY <1>1, <1>2
    <3>3. n + 1 - k = n - j /\ k <= j + 1
      BY <2>2, <1>1
    <3> QED
      BY <3>1, <3>2, <3>3
  <2>3. CASE k # n - j /\ k # j + 1
    <3>1. s[k] = t[k]
      BY <2>3, <1>1
    <3>2. (k <= j + 1 \/ k > n - (j + 1)) <=> (k <= j \/ k > n - j)
      BY <2>3, <1>1
    <3> QED
      BY <3>1, <3>2, <1>2
  <2> QED
    BY <2>1, <2>2, <2>3
<1>5. 2 * (j + 1) <= n /\ j + 1 \in Nat
  BY <1>1
<1> HIDE DEF s
<1>6. Turned(s, w, j + 1)
  BY <1>3, <1>4, <1>5 DEF Turned, n
<1> QED
  BY <1>1, <1>6 DEF s, n

(* When the two pointers meet, the text is turned round.                    *)
LEMMA TurnedRound ==
  ASSUME NEW w \in Seq(MINUS .. 15), NEW t, NEW j, Turned(t, w, j), j + 1 >= Len(t) - j
  PROVE  Reversed(t, w)
<1> DEFINE n == Len(w)
<1>1. n \in Nat /\ j \in Nat /\ j + 1 >= n - j /\ Len(t) = n
  BY DEF Turned
<1>2. ASSUME NEW k \in 1 .. n PROVE t[k] = w[n + 1 - k]
  <2>1. CASE k <= j \/ k > n - j
    BY <2>1 DEF Turned
  <2>2. CASE ~(k <= j \/ k > n - j)
    <3>1. n + 1 - k = k
      BY <2>2, <1>1
    <3> QED
      BY <2>2, <3>1 DEF Turned
  <2> QED
    BY <2>1, <2>2
<1> QED
  BY <1>1, <1>2 DEF Reversed

Signed(ds) == IF Negative THEN Append(ds, MINUS) ELSE ds

\* ds are the digits of the number, from the last one.
Numeral(ds, q) ==
  /\ Divided(ds, q, call.s, Magnitude(call.d, call.s), u)
  /\ Len(ds) <= Bits /\ u < Two(Bits - Len(ds)) /\ u < Two(Bits)
  /\ pc = "start" => i = 0 /\ text = ds /\ (Len(ds) > 0 => u # 0)
  /\ pc # "start" => u = 0 /\ Len(ds) > 0 /\ (ds[Len(ds)] = 0 => Len(ds) = 1)
  /\ pc = "sign" => i = 0 /\ text = ds
  /\ pc \in {"turn", "done"} => Turned(text, Signed(ds), i)
  /\ pc = "done" => Reversed(text, Signed(ds))

ItoaLoop ==
  call.fn = "itoa" =>
    /\ mem = old
    /\ call.s \notin 2 .. 16 =>
         /\ pc \in {"start", "done"} /\ i = 0 /\ text = <<>>
         /\ u \in Nat /\ u < Two(Bits)
    /\ call.s \in 2 .. 16 =>
         /\ pc \in {"start", "sign", "turn", "done"}
         /\ \E ds, q : Numeral(ds, q)

Hex8Loop ==
  call.fn = "hex8" =>
    /\ mem = old /\ pc \in {"start", "done"} /\ i \in 0 .. Bits \div 4
    /\ u < Two(Bits - 4 * i) /\ u < Two(Bits)
    /\ text \in Seq(0 .. 15)
    /\ \E ds, q : Divided(ds, q, 16, call.d, u) /\ Len(ds) = i /\ Reversed(text, ds)
    /\ pc = "done" => i = Bits \div 4

(* Digits, with their sign or without, are characters.                      *)
LEMMA DigitsSigned ==
  ASSUME NEW b \in 2 .. 16, NEW ds \in Seq(0 .. b - 1)
  PROVE  /\ ds \in Seq(MINUS .. 15) /\ Signed(ds) \in Seq(MINUS .. 15)
         /\ Len(Signed(ds)) = IF Negative THEN Len(ds) + 1 ELSE Len(ds)
<1> DEFINE Chars == MINUS .. 15
<1>1. ds \in Seq(Chars) /\ MINUS \in Chars
  <2>1. 0 .. b - 1 \subseteq Chars /\ MINUS \in Chars
    BY DEF MINUS
  <2> HIDE DEF Chars
  <2> QED
    BY <2>1
<1> HIDE DEF Chars
<1>2. /\ Signed(ds) \in Seq(Chars)
      /\ Len(Signed(ds)) = IF Negative THEN Len(ds) + 1 ELSE Len(ds)
  BY <1>1 DEF Signed
<1> QED
  BY <1>1, <1>2 DEF Chars

(* A digit divides the number once more; the last one is not a zero.        *)
LEMMA ItoaDigitStep ==
  ASSUME Given, ItoaLoop, ItoaDigit
  PROVE  ItoaLoop'
<1>1. /\ call.fn = "itoa" /\ pc = "start" /\ call.s \in Int /\ call.s \in 2 .. 16
      /\ text' = Append(text, u % call.s) /\ u' = u \div call.s
      /\ pc' = (IF u' = 0 THEN "sign" ELSE "start")
      /\ UNCHANGED <<call, old, mem, i>>
  <2>1. call.fn = "itoa" /\ 2 <= call.s /\ call.s <= 16
    BY DEF ItoaDigit, In
  <2>2. call.s \in Int
    BY <2>1, Promised, SysAssumption DEF Given
  <2> QED
    BY <2>1, <2>2 DEF ItoaDigit, In
<1>2. PICK ds, q : Numeral(ds, q)
  BY <1>1 DEF ItoaLoop
<1>3. /\ Divided(ds, q, call.s, Magnitude(call.d, call.s), u)
      /\ Len(ds) <= Bits /\ u < Two(Bits - Len(ds)) /\ u < Two(Bits)
      /\ i = 0 /\ text = ds /\ (Len(ds) > 0 => u # 0)
  BY <1>1, <1>2 DEF Numeral
<1>4. ds \in Seq(0 .. call.s - 1) /\ u \in Nat /\ Len(ds) \in Nat
  BY <1>3 DEF Divided
<1>5. PICK es, p : /\ es = Append(ds, u % call.s)
                  /\ Divided(es, p, call.s, Magnitude(call.d, call.s), u \div call.s)
  BY <1>1, <1>3, <1>4, DividedOnce
<1>6. /\ u \div call.s \in Nat /\ u % call.s \in 0 .. call.s - 1 /\ 2 * (u \div call.s) <= u
      /\ u # 0 /\ u \div call.s = 0 => u % call.s # 0
  BY <1>1, <1>4, Division
<1>7. Len(es) = Len(ds) + 1 /\ es[Len(es)] = u % call.s
  BY <1>4, <1>5, <1>6
<1>8. Len(ds) < Bits
  <2> SUFFICES ASSUME Len(ds) = Bits PROVE FALSE
    BY <1>3, <1>4, Width
  <2>1. Bits - Len(ds) = 0 /\ Len(ds) > 0
    BY Width
  <2>2. Two(Bits - Len(ds)) = 1
    BY <2>1, Powers
  <2> QED
    BY <2>1, <2>2, <1>3, <1>4
<1>9. u' < Two(Bits - Len(es)) /\ u' < Two(Bits)
  <2>1. Bits - Len(es) \in 0 .. 31 /\ (Bits - Len(es)) + 1 = Bits - Len(ds)
    <3> DEFINE le == Len(es)
               ld == Len(ds)
    <3>1. Bits \in Int /\ Bits <= 32 /\ le = ld + 1 /\ ld \in Nat /\ ld < Bits
      BY Width, <1>4, <1>7, <1>8
    <3> HIDE DEF le, ld
    <3>2. Bits - le \in 0 .. 31 /\ (Bits - le) + 1 = Bits - ld
      BY <3>1
    <3> QED
      BY <3>2 DEF le, ld
  <2>2. Two(Bits - Len(es)) \in Nat /\ Two(Bits - Len(ds)) = 2 * Two(Bits - Len(es))
    BY <2>1, Powers, Zenon
  <2> DEFINE low == Two(Bits - Len(es))
             high == Two(Bits - Len(ds))
             all == Two(Bits)
             half == u \div call.s
  <2>3. /\ low \in Nat /\ high = 2 * low /\ all \in Nat
        /\ u \in Nat /\ half \in Nat /\ 2 * half <= u /\ u < high /\ u < all /\ u' = half
    BY <1>1, <1>3, <1>4, <1>6, <2>2, Width
  <2> HIDE DEF low, high, all, half
  <2>4. half < low /\ half < all
    BY <2>3
  <2> QED
    BY <2>3, <2>4 DEF low, all
<1>10. u' = 0 => (es[Len(es)] = 0 => Len(es) = 1)
  <2> SUFFICES ASSUME u' = 0, es[Len(es)] = 0 PROVE Len(es) = 1
    OBVIOUS
  <2>1. u = 0
    BY <1>1, <1>6, <1>7
  <2> QED
    BY <2>1, <1>3, <1>4, <1>7
<1>11. Numeral(es, p)'
  <2>1. text' = es /\ i' = 0 /\ pc' \in {"start", "sign"} /\ Len(es) > 0 /\ Len(es) <= Bits
    BY <1>1, <1>3, <1>4, <1>5, <1>7, <1>8, Width
  <2>2. Magnitude(call.d, call.s)' = Magnitude(call.d, call.s)
    BY <1>1 DEF Magnitude
  <2>3. Divided(es, p, call.s, Magnitude(call.d, call.s), u)'
    BY <1>1, <1>5, <2>2
  <2> QED
    BY <2>1, <2>3, <1>1, <1>9, <1>10 DEF Numeral
<1>12. (\E xs, p1 : Numeral(xs, p1))'
  BY <1>11, Zenon
<1> QED
  BY <1>1, <1>12 DEF ItoaLoop

(* itoa: the digits, the sign behind them, and the turn.                    *)
LEMMA ItoaStep ==
  ASSUME Given, ItoaLoop, Serves
  PROVE  ItoaLoop'
<1> SUFFICES ASSUME call.fn = "itoa" PROVE ItoaLoop'
  BY DEF ItoaLoop, Serves
<1>1. sys_itoa /\ UNCHANGED <<call, old>>
  BY DEF Serves
<1>2. call.s \in Int
  BY Promised, SysAssumption DEF Given
<1>3. CASE ItoaRefuses
  <2>1. /\ call.s \notin 2 .. 16 /\ pc' = "done" /\ pc = "start"
        /\ UNCHANGED <<call, old, mem, i, u, text>>
    BY <1>2, <1>3 DEF ItoaRefuses, In, Return
  <2> QED
    BY <2>1 DEF ItoaLoop
<1>4. CASE ItoaDigit
  BY <1>4, ItoaDigitStep
<1>5. CASE ItoaSign
  <2>1. /\ pc = "sign" /\ pc' = "turn" /\ UNCHANGED <<call, old, mem, i, u>>
        /\ text' = Signed(text)
    BY <1>5 DEF ItoaSign, In, Signed
  <2>2. call.s \in 2 .. 16
    BY <2>1 DEF ItoaLoop
  <2>3. PICK ds, q : Numeral(ds, q)
    BY <2>2 DEF ItoaLoop
  <2>4. Divided(ds, q, call.s, Magnitude(call.d, call.s), u) /\ text = ds /\ i = 0 /\ u = 0
    BY <2>1, <2>3 DEF Numeral
  <2>5. Signed(ds) \in Seq(MINUS .. 15)
    BY <2>2, <2>4, DigitsSigned DEF Divided
  <2>6. Turned(text', Signed(ds), 0)
    BY <2>1, <2>4, <2>5 DEF Turned
  <2>7. Signed(ds)' = Signed(ds) /\ Magnitude(call.d, call.s)' = Magnitude(call.d, call.s)
    BY <2>1 DEF Signed, Negative, Magnitude
  <2>8. Numeral(ds, q)'
    BY <2>1, <2>3, <2>4, <2>6, <2>7 DEF Numeral
  <2>9. (\E xs, p : Numeral(xs, p))'
    BY <2>8, Zenon
  <2> QED
    BY <2>1, <2>2, <2>9 DEF ItoaLoop
<1>6. CASE ItoaTurn
  <2>1. pc = "turn" /\ UNCHANGED <<call, old, mem, u>>
    BY <1>6 DEF ItoaTurn, In, Return
  <2>2. call.s \in 2 .. 16
    BY <2>1 DEF ItoaLoop
  <2>3. PICK ds, q : Numeral(ds, q)
    BY <2>2 DEF ItoaLoop
  <2>4. /\ Divided(ds, q, call.s, Magnitude(call.d, call.s), u)
        /\ Turned(text, Signed(ds), i)
    BY <2>1, <2>3 DEF Numeral
  <2>5. Signed(ds) \in Seq(MINUS .. 15)
    BY <2>2, <2>4, DigitsSigned DEF Divided
  <2>6. /\ Signed(ds)' = Signed(ds)
        /\ Divided(ds, q, call.s, Magnitude(call.d, call.s), u)'
    BY <2>1, <2>4 DEF Signed, Negative, Magnitude
  <2>7. /\ pc' \in {"turn", "done"}
        /\ Turned(text', Signed(ds), i')
        /\ pc' = "done" => Reversed(text', Signed(ds))
    <3>1. CASE /\ i + 1 < Len(text) - i /\ i' = i + 1 /\ pc' = pc
               /\ text' = [text EXCEPT ![Len(text) - i] = text[i + 1],
                                       ![i + 1] = text[Len(text) - i]]
      <4>1. Turned(text', Signed(ds), i + 1)
        BY <2>4, <2>5, <3>1, TurnedOnce
      <4> QED
        BY <4>1, <3>1, <2>1
    <3>2. CASE /\ i + 1 >= Len(text) - i /\ pc' = "done" /\ UNCHANGED <<i, text>>
      BY <2>4, <2>5, <3>2, TurnedRound
    <3> QED
      BY <1>6, <3>1, <3>2 DEF ItoaTurn, Return
  <2>8. Numeral(ds, q)'
    BY <2>1, <2>3, <2>6, <2>7 DEF Numeral
  <2>9. (\E xs, p : Numeral(xs, p))'
    BY <2>8, Zenon
  <2> QED
    BY <2>1, <2>2, <2>7, <2>9 DEF ItoaLoop
<1> QED
  BY <1>1, <1>3, <1>4, <1>5, <1>6 DEF sys_itoa

(* hex8: a digit put in front is a division by 16.                          *)
LEMMA Hex8Step ==
  ASSUME Given, Hex8Loop, Serves
  PROVE  Hex8Loop'
<1> SUFFICES ASSUME call.fn = "hex8" PROVE Hex8Loop'
  BY DEF Hex8Loop, Serves
<1>1. sys_u32_to_hex8 /\ UNCHANGED <<call, old>>
  BY DEF Serves
<1>2. CASE /\ i < Bits \div 4 /\ text' = <<u % 16>> \o text /\ u' = u \div 16
           /\ i' = i + 1 /\ UNCHANGED <<call, old, mem, pc, ret>>
  <2>1. PICK ds, q : Divided(ds, q, 16, call.d, u) /\ Len(ds) = i /\ Reversed(text, ds)
    BY DEF Hex8Loop
  <2>2. /\ ds \in Seq(0 .. 15) /\ u \in Nat /\ text \in Seq(0 .. 15) /\ i \in Nat
        /\ Len(text) = i
    BY <2>1 DEF Divided, Hex8Loop, Reversed
  <2>3. u \div 16 \in Nat /\ u % 16 \in 0 .. 15
    BY <2>2
  <2>4. PICK es, p : es = Append(ds, u % 16) /\ Divided(es, p, 16, call.d, u \div 16)
    <3>1. 16 \in 2 .. 16
      OBVIOUS
    <3>2. \E p : Divided(Append(ds, u % 16), p, 16, call.d, u \div 16)
      BY <3>1, <2>1, <2>2, DividedOnce, Zenon
    <3> QED
      BY <3>2
  <2>5. text' \in Seq(0 .. 15) /\ Len(text') = i + 1 /\ Len(es) = i + 1
    BY <1>2, <2>1, <2>2, <2>3, <2>4
  <2>6. Reversed(text', es)
    <3>1. ASSUME NEW k \in 1 .. i + 1 PROVE text'[k] = es[(i + 1) + 1 - k]
      <4>1. CASE k = 1
        <5>1. text'[k] = u % 16
          BY <4>1, <1>2, <2>2, <2>3
        <5>2. es[i + 1] = u % 16
          BY <2>1, <2>2, <2>3, <2>4
        <5>3. (i + 1) + 1 - k = i + 1
          BY <4>1, <2>2
        <5> QED
          BY <5>1, <5>2, <5>3
      <4>2. CASE k > 1
        <5>1. text'[k] = text[k - 1]
          BY <4>2, <1>2, <2>2, <2>3
        <5>2. k - 1 \in 1 .. i /\ i + 1 - (k - 1) \in 1 .. i
              /\ i + 1 - (k - 1) = (i + 1) + 1 - k
          BY <4>2, <2>2
        <5>3. text[k - 1] = ds[i + 1 - (k - 1)]
          BY <5>2, <2>1 DEF Reversed
        <5>4. es[i + 1 - (k - 1)] = ds[i + 1 - (k - 1)]
          BY <5>2, <2>1, <2>2, <2>4
        <5> QED
          BY <5>1, <5>2, <5>3, <5>4
      <4> QED
        BY <4>1, <4>2, <2>2
    <3> QED
      BY <3>1, <2>5 DEF Reversed
  <2>7. u' < Two(Bits - 4 * i') /\ u' < Two(Bits)
    <3> DEFINE m == Bits - 4 * (i + 1)
    <3>1. /\ m \in 0 .. 28 /\ m + 1 \in 0 .. 31 /\ m + 2 \in 0 .. 31 /\ m + 3 \in 0 .. 31
          /\ ((m + 1) + 1) = m + 2 /\ (m + 2) + 1 = m + 3 /\ (m + 3) + 1 = Bits - 4 * i
          /\ m \in 0 .. 31
      BY <1>2, <2>2, Width
    <3> HIDE DEF m
    <3>2. Two(m + 1) = 2 * Two(m) /\ Two(m + 2) = 2 * Two(m + 1)
      BY <3>1, Powers, Zenon
    <3>3. Two(m + 3) = 2 * Two(m + 2) /\ Two(Bits - 4 * i) = 2 * Two(m + 3) /\ Two(m) \in Nat
      BY <3>1, Powers, Zenon
    <3>4. u < Two(Bits - 4 * i) /\ u < Two(Bits)
      BY DEF Hex8Loop
    <3>5. u \div 16 < Two(m)
      BY <3>2, <3>3, <3>4, <2>2
    <3>6. u \div 16 < Two(Bits)
      BY <3>4, <2>2, Width
    <3> QED
      BY <3>5, <3>6, <1>2 DEF m
  <2>8. (\E xs, p1 : Divided(xs, p1, 16, call.d, u) /\ Len(xs) = i /\ Reversed(text, xs))'
    <3>1. (Divided(es, p, 16, call.d, u) /\ Len(es) = i /\ Reversed(text, es))'
      BY <1>2, <2>4, <2>5, <2>6
    <3> QED
      BY <3>1, Zenon
  <2>9. i' \in 0 .. Bits \div 4
    BY <1>2, <2>2, Width
  <2> QED
    BY <1>1, <1>2, <2>5, <2>7, <2>8, <2>9 DEF Hex8Loop, sys_u32_to_hex8, In
<1>3. CASE i = Bits \div 4 /\ Return(0)
  BY <1>3 DEF Return, Hex8Loop
<1> QED
  BY <1>1, <1>2, <1>3 DEF sys_u32_to_hex8

(*------------------------------- the theorems -----------------------------*)

\* What the memory functions leave alone, and what every function answers with.
Quiet ==
  /\ ret \in Int
  /\ call.fn \notin {"itoa", "hex8"} => u = 0 /\ text = <<>>

SysInv ==
  /\ Given /\ Quiet
  /\ MemsetLoop /\ MemcpyLoop /\ MemcmpLoop /\ StrlenLoop /\ StrcpyLoop /\ StrncpyLoop
  /\ ItoaLoop /\ Hex8Loop

(* Calls on memory and calls for text are calls of different functions.     *)
LEMMA Kinds ==
  /\ call \in TextCalls => call.fn \in {"itoa", "hex8"}
  /\ \A m : call \in MemoryCalls(m) =>
            call.fn \in {"memset", "memcpy", "memcmp", "strlen", "strcpy", "strncpy"}
<1> DEFINE top == 2 ^ Bits - 1
<1>1. TextCalls = {Call("itoa", v, b, 0, 0) : v \in Sint32, b \in Bases}
                    \cup {Call("hex8", v, 0, 0, 0) : v \in 0 .. top}
  BY DEF TextCalls
<1> HIDE DEF top
<1>2. call \in TextCalls => call.fn \in {"itoa", "hex8"}
  BY <1>1 DEF Call
<1> QED
  BY <1>2 DEF MemoryCalls, Call

(* The magnitude is an unsigned number of Bits bits: of a negative number   *)
(* in base 10 its opposite, of any other its value modulo 2 ^ Bits.         *)
LEMMA MagnitudeIs ==
  ASSUME NEW v \in Sint32, NEW b \in Int
  PROVE  /\ Magnitude(v, b) \in Nat /\ Magnitude(v, b) < Two(Bits)
         /\ v < 0 /\ b = 10 => Magnitude(v, b) = -v
         /\ v >= 0 => Magnitude(v, b) = v
         /\ b # 10 => Magnitude(v, b) = ToUint32(v)
<1> DEFINE h == Two(Bits - 1)
           w == Two(Bits)
<1>1. h \in Nat /\ h >= 1 /\ w = 2 * h
  BY Width
<1>2. v \in -h .. h - 1
  BY DEF Sint32, INT32_MIN, INT32_MAX, Two
<1>3. /\ Magnitude(v, b) = IF v < 0 /\ b = 10
                             THEN IF v = -h THEN ((h - 1) + 1) % w ELSE (-v) % w
                             ELSE v % w
      /\ ToUint32(v) = v % w
  BY DEF Magnitude, ToUint32, INT32_MIN, INT32_MAX, Two
<1> HIDE DEF h, w
<1>4. v < 0 => (-v) \in 0 .. w - 1
  BY <1>1, <1>2
<1>5. v >= 0 => v \in 0 .. w - 1
  BY <1>1, <1>2
<1>6. (h - 1) + 1 = h /\ h \in 0 .. w - 1
  BY <1>1
<1>7. h % w = h /\ (v < 0 => (-v) % w = -v) /\ (v >= 0 => v % w = v)
      /\ v % w \in Nat /\ v % w < w /\ w \in Nat
  <2>1. w \in Nat /\ w > 0 /\ v \in Int /\ -v \in Int /\ h \in Int
    BY <1>1, <1>2
  <2>2. \A x \in Int : x % w \in 0 .. w - 1 /\ (x \in 0 .. w - 1 => x % w = x)
    BY <2>1, Remainder
  <2> QED
    BY <2>1, <2>2, <1>4, <1>5, <1>6
<1>8. /\ Magnitude(v, b) \in Nat /\ Magnitude(v, b) < w
      /\ v < 0 /\ b = 10 => Magnitude(v, b) = -v
      /\ v >= 0 => Magnitude(v, b) = v
      /\ b # 10 => Magnitude(v, b) = ToUint32(v)
  BY <1>1, <1>2, <1>3, <1>4, <1>6, <1>7
<1> QED
  BY <1>8 DEF w

(* A call begins with nothing dealt with.                                   *)
LEMMA InitInv == Init => SysInv
<1> SUFFICES ASSUME Init PROVE SysInv
  OBVIOUS
<1>1. Given
  BY SysAssumption DEF Init, Given, Asked
<1>2. i = 0 /\ text = <<>> /\ ret = 0 /\ pc = "start" /\ mem = old
  BY DEF Init
<1>3. \A a \in Addresses : old[a] \in Bytes
  BY <1>1 DEF Given
<1>4. mem = [a \in Addresses |-> old[a]]
  BY <1>1, <1>2 DEF Given
<1>5. call.fn \in {"itoa", "hex8"} => u = IF call.fn = "itoa" THEN Magnitude(call.d, call.s)
                                          ELSE call.d
  BY Kinds DEF Init
<1>6. call.fn \notin {"itoa", "hex8"} => u = 0
  BY Kinds DEF Init
<1>7. \A a \in Nat : Region(a, 0) = {}
  <2>1. \A a \in Nat : a .. a + 0 - 1 = {}
    OBVIOUS
  <2> QED
    BY <2>1 DEF Region
<1>8. MemsetLoop /\ MemcpyLoop
  <2>1. call.fn \in {"memset", "memcpy"} => call.d \in Nat /\ call.n \in Nat
    BY <1>1, Promised DEF Given, InMemory
  <2> QED
    BY <2>1, <1>2, <1>4, <1>7 DEF MemsetLoop, MemcpyLoop, Filled, Copied
<1>9. MemcmpLoop /\ StrlenLoop
  <2>1. call.fn = "memcmp" => call.n \in Nat
    BY <1>1, Promised DEF Given, InMemory
  <2> QED
    BY <2>1, <1>2 DEF MemcmpLoop, StrlenLoop, Unended
<1>10. StrcpyLoop /\ StrncpyLoop
  <2>1. /\ call.fn \in {"strcpy", "strncpy"} => call.d \in Nat
        /\ call.fn = "strncpy" => call.n \in Nat
    BY <1>1, Promised DEF Given, InMemory
  <2> QED
    BY <2>1, <1>2, <1>4, <1>7 DEF StrcpyLoop, StrncpyLoop, Unended, Copied, Padded
<1>11. ItoaLoop
  <2> SUFFICES ASSUME call.fn = "itoa" PROVE ItoaLoop
    BY DEF ItoaLoop
  <2>1. call.d \in Sint32 /\ call.s \in Int
    BY <1>1, Promised, SysAssumption DEF Given
  <2>2. u = Magnitude(call.d, call.s) /\ u \in Nat /\ u < Two(Bits)
    BY <1>5, <2>1, MagnitudeIs
  <2>3. call.s \in 2 .. 16 => \E q : Divided(<<>>, q, call.s, Magnitude(call.d, call.s), u)
    <3> DEFINE v == Magnitude(call.d, call.s)
    <3>1. v \in Nat /\ u = v /\ (call.s \in 2 .. 16 => call.s \in Nat)
      BY <2>1, <2>2
    <3> HIDE DEF v
    <3>2. call.s \in 2 .. 16 => \E q : Divided(<<>>, q, call.s, v, v)
      BY <3>1, DividedNever
    <3> QED
      BY <3>1, <3>2 DEF v
  <2>4. Len(<<>>) = 0 /\ Bits - 0 = Bits /\ 0 <= Bits
    BY Width
  <2>5. \A q : Divided(<<>>, q, call.s, Magnitude(call.d, call.s), u) => Numeral(<<>>, q)
    BY <1>2, <2>2, <2>4 DEF Numeral
  <2>6. call.s \in 2 .. 16 => \E ds, q : Numeral(ds, q)
    BY <2>3, <2>5
  <2> QED
    BY <1>2, <2>2, <2>6 DEF ItoaLoop
<1>12. Hex8Loop
  <2> SUFFICES ASSUME call.fn = "hex8" PROVE Hex8Loop
    BY DEF Hex8Loop
  <2>1. u = call.d /\ u \in Nat /\ u < Two(Bits)
    <3> DEFINE w == Two(Bits)
    <3>1. call.d \in 0 .. w - 1 /\ w \in Nat
      BY <1>1, Promised, Width DEF Given, Two
    <3> HIDE DEF w
    <3>2. call.d \in Nat /\ call.d < w
      BY <3>1
    <3> QED
      BY <3>2, <1>5 DEF w
  <2>2. PICK q : Divided(<<>>, q, 16, call.d, u)
    BY <2>1, DividedNever
  <2>3. /\ Len(<<>>) = 0 /\ Reversed(<<>>, <<>>) /\ <<>> \in Seq(0 .. 15)
        /\ Bits - 4 * 0 = Bits /\ 0 \in 0 .. Bits \div 4
    BY Width DEF Reversed
  <2> QED
    BY <1>2, <2>1, <2>2, <2>3 DEF Hex8Loop
<1> QED
  BY <1>1, <1>2, <1>6, <1>8, <1>9, <1>10, <1>11, <1>12 DEF SysInv, Quiet

(* The memory is of bytes, whatever has been written into it.               *)
LEMMA MemoryType == SysInv => mem \in [Addresses -> Bytes]
<1> SUFFICES ASSUME SysInv PROVE mem \in [Addresses -> Bytes]
  OBVIOUS
<1> USE DEF SysInv
<1>1. old \in [Addresses -> Bytes] /\ Asked
  BY DEF Given
<1>2. CASE call.fn = "memset"
  BY <1>1, <1>2, Promised DEF MemsetLoop, Filled
<1>3. CASE call.fn = "memcpy"
  <2>1. InMemory(call.d, call.n) /\ InMemory(call.s, call.n) /\ i \in 0 .. call.n
        /\ Copied(call.d, call.s, i)
    BY <1>1, <1>3, Promised DEF MemcpyLoop
  <2>2. call.d \in Nat /\ call.s \in Nat /\ i \in Nat /\ call.s + i <= Size
    BY <2>1, SysAssumption DEF InMemory
  <2> QED
    BY <2>1, <2>2, CopiedType
<1>4. CASE call.fn = "strcpy"
  <2> DEFINE n == StringEnd(old, call.s) + 1 - call.s
             c == IF pc = "start" THEN i ELSE i + 1
  <2>1. /\ Copied(call.d, call.s, c) /\ Unended
        /\ call.s \in Addresses /\ IsString(old, call.s) /\ InMemory(call.d, n)
    BY <1>1, <1>4, Promised DEF StrcpyLoop
  <2>2. i \in Nat /\ call.s + i \in Addresses
    BY <1>1, <2>1, NextIsInMemory DEF Unended
  <2>3. call.d \in Nat
    BY <2>1 DEF InMemory
  <2>4. call.s \in Nat /\ c \in Nat /\ call.s + c <= Size
    BY <2>1, <2>2, SysAssumption DEF Addresses
  <2> HIDE DEF c
  <2> QED
    BY <2>1, <2>3, <2>4, CopiedType
<1>5. CASE call.fn = "strncpy"
  BY <1>5, StrncpyType DEF Given
<1>6. CASE call.fn \in {"memcmp", "strlen", "itoa", "hex8"}
  BY <1>1, <1>6 DEF MemcmpLoop, StrlenLoop, ItoaLoop, Hex8Loop
<1> QED
  BY <1>1, <1>2, <1>3, <1>4, <1>5, <1>6, Kinds DEF Asked

(* What a step answers with is a number, and text is left to the conversions.*)
LEMMA QuietStep == SysInv /\ Serves => Quiet'
<1> SUFFICES ASSUME SysInv, Serves PROVE Quiet'
  OBVIOUS
<1> USE DEF Quiet
<1>1. Asked /\ old \in [Addresses -> Bytes] /\ Quiet /\ UNCHANGED call
  BY DEF SysInv, Given, Serves
<1>2. CASE call.fn = "memset"
  <2>1. call.d \in Int
    BY <1>1, <1>2, Promised DEF InMemory
  <2> QED
    BY <2>1, <1>1, <1>2 DEF Serves, sys_memset, Put, Return
<1>3. CASE call.fn = "memcpy"
  <2>1. call.d \in Int
    BY <1>1, <1>3, Promised DEF InMemory
  <2> QED
    BY <2>1, <1>1, <1>3 DEF Serves, sys_memcpy, Put, Return
<1>4. CASE call.fn = "memcmp"
  <2>1. InMemory(call.d, call.n) /\ InMemory(call.s, call.n) /\ i \in 0 .. call.n
    BY <1>1, <1>4, Promised DEF SysInv, MemcmpLoop
  <2>2. i # call.n => call.d + i \in Addresses /\ call.s + i \in Addresses
    BY <2>1, SysAssumption DEF InMemory, Addresses
  <2>3. i # call.n => mem[call.d + i] \in Int /\ mem[call.s + i] \in Int
    <3>1. i # call.n => mem[call.d + i] \in Bytes /\ mem[call.s + i] \in Bytes
      BY <2>2, MemoryType
    <3> QED
      BY <3>1, BytesAreInts
  <2>4. i # call.n => mem[call.d + i] - mem[call.s + i] \in Int
    BY <2>3
  <2> QED
    BY <2>4, <1>1, <1>4 DEF Serves, sys_memcmp, Advance, Return
<1>5. CASE call.fn = "strlen"
  <2>1. i \in Int
    BY <1>5 DEF SysInv, StrlenLoop, Unended
  <2> QED
    BY <2>1, <1>1, <1>5 DEF Serves, sys_strlen, Advance, Return
<1>6. CASE call.fn = "strcpy"
  <2>1. call.d \in Int
    BY <1>1, <1>6, Promised DEF InMemory
  <2> QED
    BY <2>1, <1>1, <1>6 DEF Serves, sys_strcpy, Put, Return
<1>7. CASE call.fn = "strncpy"
  <2>1. call.d \in Int
    BY <1>1, <1>7, Promised DEF InMemory
  <2> QED
    BY <2>1, <1>1, <1>7 DEF Serves, sys_strncpy, Put, Return, Goto
<1>8. CASE call.fn = "itoa"
  BY <1>1, <1>8
  DEF Serves, sys_itoa, ItoaRefuses, ItoaDigit, ItoaSign, ItoaTurn, Return
<1>9. CASE call.fn = "hex8"
  BY <1>1, <1>9 DEF Serves, sys_u32_to_hex8, Return
<1> QED
  BY <1>1, <1>2, <1>3, <1>4, <1>5, <1>6, <1>7, <1>8, <1>9, Kinds DEF Asked

(* A step, or none, leaves every loop where its own invariant says.         *)
LEMMA StepInv == SysInv /\ [Next]_vars => SysInv'
<1> SUFFICES ASSUME SysInv, [Next]_vars PROVE SysInv'
  OBVIOUS
<1>1. CASE Next
  <2>1. Serves
    BY <1>1, OwnSteps
  <2>2. Given'
    BY <2>1 DEF SysInv, Given, Asked, Serves
  <2>3. Quiet'
    BY <2>1, QuietStep
  <2>4. MemsetLoop' /\ MemcpyLoop' /\ MemcmpLoop'
    BY <2>1, MemsetStep, MemcpyStep, MemcmpStep DEF SysInv
  <2>5. StrlenLoop' /\ StrcpyLoop' /\ StrncpyLoop'
    BY <2>1, StrlenStep, StrcpyStep, StrncpyStep DEF SysInv
  <2>6. ItoaLoop' /\ Hex8Loop'
    BY <2>1, ItoaStep, Hex8Step DEF SysInv
  <2> QED
    BY <2>2, <2>3, <2>4, <2>5, <2>6 DEF SysInv
<1>2. CASE UNCHANGED vars
  <2> USE <1>2 DEF vars
  <2>1. Given' /\ Quiet'
    BY DEF SysInv, Given, Asked, Quiet
  <2>2. MemsetLoop' /\ MemcpyLoop' /\ MemcmpLoop'
    BY DEF SysInv, MemsetLoop, MemcpyLoop, MemcmpLoop, Filled, Copied
  <2>3. StrlenLoop' /\ StrcpyLoop' /\ StrncpyLoop'
    BY DEF SysInv, StrlenLoop, StrcpyLoop, StrncpyLoop, Unended, Copied, Padded
  <2>4. ItoaLoop'
    <3>1. \A ds, q : Numeral(ds, q)' <=> Numeral(ds, q)
      BY DEF Numeral, Divided, Signed, Negative, Magnitude
    <3> QED
      BY <3>1 DEF SysInv, ItoaLoop
  <2>5. Hex8Loop'
    BY DEF SysInv, Hex8Loop
  <2> QED
    BY <2>1, <2>2, <2>3, <2>4, <2>5 DEF SysInv
<1> QED
  BY <1>1, <1>2

(* The loop invariants hold at every step of every call.                    *)
LEMMA Invariance == Spec => []SysInv
BY InitInv, StepInv, PTL DEF Spec

(* Every variable keeps its type; a numeral has at most a character a bit,  *)
(* and the sign.                                                            *)
THEOREM Typing == Spec => []TypeOK
<1>1. SysInv => TypeOK
  <2> SUFFICES ASSUME SysInv PROVE TypeOK
    OBVIOUS
  <2> DEFINE w == Two(Bits)
             Chars == MINUS .. 15
  <2>1. Asked /\ old \in [Addresses -> Bytes] /\ mem \in [Addresses -> Bytes] /\ ret \in Int
    BY MemoryType DEF SysInv, Given, Quiet
  <2>2. /\ 0 \in 0 .. w - 1 /\ w \in Nat
        /\ <<>> \in Seq(Chars) /\ Len(<<>>) = 0 /\ 0 <= Bits + 1 /\ Bits \in Nat
    <3>1. w \in Nat /\ w >= 1 /\ 0 <= Bits + 1 /\ Bits \in Nat
      BY Width
    <3> HIDE DEF w, Chars
    <3> QED
      BY <3>1
  <2>3. /\ i \in Nat /\ pc \in {"start", "copied", "pad", "sign", "turn", "done"}
        /\ u \in 0 .. w - 1 /\ text \in Seq(Chars) /\ Len(text) <= Bits + 1
    <3>1. CASE call.fn \in {"memset", "memcpy", "memcmp", "strncpy"}
      <4>1. call.n \in Nat
        BY <3>1, <2>1, Promised DEF InMemory
      <4>2. u = 0 /\ text = <<>> /\ i \in 0 .. call.n /\ pc \in {"start", "pad", "done"}
        BY <3>1 DEF SysInv, Quiet, MemsetLoop, MemcpyLoop, MemcmpLoop, StrncpyLoop
      <4> HIDE DEF w, Chars
      <4> QED
        BY <4>1, <4>2, <2>2
    <3>2. CASE call.fn \in {"strlen", "strcpy"}
      <4>1. u = 0 /\ text = <<>> /\ i \in Nat /\ pc \in {"start", "copied", "done"}
        BY <3>2 DEF SysInv, Quiet, StrlenLoop, StrcpyLoop, Unended
      <4> HIDE DEF w, Chars
      <4> QED
        BY <4>1, <2>2
    <3>3. CASE call.fn = "itoa"
      <4>1. CASE call.s \in 2 .. 16
        <5>1. PICK ds, q : Numeral(ds, q)
          BY <3>3, <4>1 DEF SysInv, ItoaLoop
        <5>2. /\ pc \in {"start", "sign", "turn", "done"}
              /\ ds \in Seq(0 .. call.s - 1) /\ u \in Nat /\ u < w /\ Len(ds) <= Bits
          BY <3>3, <4>1, <5>1 DEF SysInv, ItoaLoop, Numeral, Divided
        <5>3. /\ ds \in Seq(Chars) /\ Signed(ds) \in Seq(Chars)
              /\ Len(Signed(ds)) <= Bits + 1 /\ Len(ds) <= Bits + 1
          <6>1. /\ ds \in Seq(Chars) /\ Signed(ds) \in Seq(Chars)
                /\ Len(Signed(ds)) = IF Negative THEN Len(ds) + 1 ELSE Len(ds)
            BY <4>1, <5>2, DigitsSigned
          <6> HIDE DEF Chars
          <6> QED
            BY <6>1, <5>2, <2>2
        <5>4. i \in Nat /\ text \in Seq(Chars) /\ Len(text) <= Bits + 1
          <6>1. CASE pc \in {"start", "sign"}
            BY <6>1, <5>1, <5>3 DEF Numeral
          <6>2. CASE pc \in {"turn", "done"}
            BY <6>2, <5>1, <5>3 DEF Numeral, Turned
          <6> QED
            BY <6>1, <6>2, <5>2
        <5>5. u \in 0 .. w - 1
          <6> HIDE DEF w
          <6> QED
            BY <5>2, <2>2
        <5> QED
          BY <5>2, <5>4, <5>5
      <4>2. CASE call.s \notin 2 .. 16
        <5>1. /\ pc \in {"start", "done"} /\ i = 0 /\ text = <<>>
              /\ u \in Nat /\ u < w
          BY <3>3, <4>2 DEF SysInv, ItoaLoop
        <5> HIDE DEF w, Chars
        <5> QED
          BY <5>1, <2>2
      <4> QED
        BY <4>1, <4>2
    <3>4. CASE call.fn = "hex8"
      <4>1. PICK ds, q : Divided(ds, q, 16, call.d, u) /\ Len(ds) = i /\ Reversed(text, ds)
        BY <3>4 DEF SysInv, Hex8Loop
      <4>2. /\ pc \in {"start", "done"} /\ i \in 0 .. Bits \div 4 /\ u < w
            /\ text \in Seq(0 .. 15)
        BY <3>4 DEF SysInv, Hex8Loop
      <4>3. u \in Nat /\ Len(text) = i
        BY <4>1 DEF Divided, Reversed
      <4>4. i \in Nat /\ i <= Bits + 1
        BY <4>2, Width
      <4>5. text \in Seq(Chars)
        <5>1. 0 .. 15 \subseteq Chars
          BY DEF MINUS
        <5> HIDE DEF Chars
        <5> QED
          BY <5>1, <4>2
      <4>6. u \in 0 .. w - 1
        <5> HIDE DEF w
        <5> QED
          BY <4>2, <4>3, <2>2
      <4> QED
        BY <4>2, <4>3, <4>4, <4>5, <4>6
    <3> QED
      BY <2>1, <3>1, <3>2, <3>3, <3>4, Kinds DEF Asked
  <2>4. u \in 0 .. 2 ^ Bits - 1
    BY <2>3 DEF Two
  <2> HIDE DEF w
  <2> QED
    BY <2>1, <2>3, <2>4 DEF TypeOK
<1> QED
  BY <1>1, Invariance, PTL

(* memset and memcpy write the n bytes they were asked for, and no other.   *)
THEOREM Blocks == Spec => []BlocksAreExact
<1>1. SysInv => BlocksAreExact
  <2> SUFFICES ASSUME SysInv PROVE BlocksAreExact
    OBVIOUS
  <2> USE DEF SysInv, Done, In
  <2>1. Done("memset") => Rewritten(call.d, call.n, LAMBDA k : call.c)
    BY DEF MemsetLoop, Filled, Rewritten
  <2>2. Done("memcpy") => Rewritten(call.d, call.n, LAMBDA k : old[call.s + k])
    BY DEF MemcpyLoop, Copied, Rewritten
  <2> QED
    BY <2>1, <2>2 DEF BlocksAreExact
<1> QED
  BY <1>1, Invariance, PTL

(* memcmp answers about the first bytes that differ, taken as unsigned.     *)
THEOREM Compare == Spec => []CompareIsFirstDifference
<1>1. SysInv => CompareIsFirstDifference
  <2> SUFFICES ASSUME SysInv, Done("memcmp") PROVE CompareIsFirstDifference
    BY DEF CompareIsFirstDifference
  <2> DEFINE Differ == {k \in 0 .. call.n - 1 : mem[call.d + k] # mem[call.s + k]}
  <2>1. call.fn = "memcmp" /\ pc = "done"
    BY DEF Done, In
  <2>2. InMemory(call.d, call.n) /\ InMemory(call.s, call.n)
    BY <2>1, Promised DEF SysInv, Given
  <2>3. /\ i \in 0 .. call.n
        /\ \A k \in 0 .. i - 1 : mem[call.d + k] = mem[call.s + k]
        /\ IF i = call.n THEN ret = 0
           ELSE /\ mem[call.d + i] # mem[call.s + i]
                /\ ret = mem[call.d + i] - mem[call.s + i]
    BY <2>1 DEF SysInv, MemcmpLoop
  <2>4. call.n \in Nat /\ i \in Nat /\ i <= call.n
    BY <2>2, <2>3 DEF InMemory
  <2>5. CASE i = call.n
    <3>1. Differ = {}
      BY <2>3, <2>4, <2>5
    <3> QED
      BY <2>3, <2>5, <3>1 DEF CompareIsFirstDifference
  <2>6. CASE i # call.n
    <3>1. i \in Differ /\ \A k \in Differ : i <= k
      BY <2>3, <2>4, <2>6
    <3>2. call.d + i \in Addresses /\ call.s + i \in Addresses
      BY <2>2, <2>4, <2>6, SysAssumption DEF InMemory, Addresses
    <3>3. mem[call.d + i] \in Int /\ mem[call.s + i] \in Int
      <4>1. mem[call.d + i] \in Bytes /\ mem[call.s + i] \in Bytes
        BY <3>2, MemoryType
      <4> QED
        BY <4>1, BytesAreInts
    <3>4. ret # 0 /\ (ret < 0 <=> mem[call.d + i] < mem[call.s + i])
      BY <2>3, <2>6, <3>3
    <3>5. \A k \in Differ : (\A j \in Differ : k <= j) => k = i
      BY <3>1, <2>4
    <3> HIDE DEF Differ
    <3>6. /\ ret = 0 <=> Differ = {}
          /\ \A k \in Differ :
               (\A j \in Differ : k <= j) => (ret < 0 <=> mem[call.d + k] < mem[call.s + k])
      BY <3>1, <3>4, <3>5
    <3> QED
      BY <3>6 DEF CompareIsFirstDifference, Differ
  <2> QED
    BY <2>5, <2>6
<1> QED
  BY <1>1, Invariance, PTL

(* strlen, strcpy and strncpy stop where the string does.                   *)
THEOREM Strings == Spec => []StringsAreExact
<1>1. SysInv => StringsAreExact
  <2> SUFFICES ASSUME SysInv PROVE StringsAreExact
    OBVIOUS
  <2>1. Given
    BY DEF SysInv
  <2>2. ASSUME call.fn \in {"strlen", "strcpy"}, Unended, old[call.s + i] = 0
        PROVE  StringEnd(old, call.s) = call.s + i /\ call.s \in Nat /\ i \in Nat
    <3>1. call.s \in Addresses /\ IsString(old, call.s) /\ old \in [Addresses -> Bytes]
      BY <2>1, <2>2, Promised DEF Given
    <3>2. call.s + i \in Addresses /\ i \in Nat /\ \A k \in 0 .. i - 1 : old[call.s + k] # 0
      BY <2>2, <3>1, NextIsInMemory DEF Unended
    <3>3. StringEnd(old, call.s) = call.s + i
      BY <2>2, <3>1, <3>2, EndFound
    <3>4. call.s \in Nat
      BY <3>1, SysAssumption DEF Addresses
    <3> QED
      BY <3>2, <3>3, <3>4
  <2>3. Done("strlen") => ret = StringEnd(old, call.s) - call.s
    BY <2>2 DEF SysInv, StrlenLoop, Done, In
  <2>4. Done("strcpy") => Rewritten(call.d, StringEnd(old, call.s) + 1 - call.s,
                                    LAMBDA k : old[call.s + k])
    <3> SUFFICES ASSUME Done("strcpy")
                 PROVE  Rewritten(call.d, StringEnd(old, call.s) + 1 - call.s,
                                  LAMBDA k : old[call.s + k])
      OBVIOUS
    <3>1. Copied(call.d, call.s, i + 1) /\ old[call.s + i] = 0 /\ Unended
          /\ call.fn = "strcpy"
      BY DEF SysInv, StrcpyLoop, Done, In
    <3>2. StringEnd(old, call.s) + 1 - call.s = i + 1
      BY <2>2, <3>1
    <3> QED
      BY <3>1, <3>2 DEF Copied, Rewritten
  <2>5. Done("strncpy") => Rewritten(call.d, call.n,
                             LAMBDA k : IF \E j \in 0 .. k : old[call.s + j] = 0
                                          THEN 0 ELSE old[call.s + k])
    BY DEF SysInv, StrncpyLoop, Padded, Rewritten, Done, In
  <2> QED
    BY <2>3, <2>4, <2>5 DEF StringsAreExact
<1> QED
  BY <1>1, Invariance, PTL

(* Without its sign, a turned text is its digits from the first one.        *)
LEMMA Unsigned ==
  ASSUME NEW b, NEW ds \in Seq(0 .. b - 1), NEW t \in Seq(MINUS .. 15), Reversed(t, Signed(ds))
  PROVE  /\ Reversed(IF Negative THEN Tail(t) ELSE t, ds)
         /\ Negative => t[1] = MINUS
<1> DEFINE n == Len(ds)
           Digits == 0 .. b - 1
           Chars == MINUS .. 15
<1>1. ds \in Seq(Digits) /\ t \in Seq(Chars)
  OBVIOUS
<1> HIDE DEF Digits, Chars
<1>2. n \in Nat
  BY <1>1
<1>3. CASE ~Negative
  BY <1>3 DEF Signed
<1>4. CASE Negative
  <2>1. /\ Signed(ds) = Append(ds, MINUS) /\ Len(Append(ds, MINUS)) = n + 1
        /\ Append(ds, MINUS)[n + 1] = MINUS
        /\ \A k \in 1 .. n : Append(ds, MINUS)[k] = ds[k]
    BY <1>1, <1>4 DEF Signed
  <2>2. Len(t) = n + 1 /\ \A k \in 1 .. n + 1 : t[k] = Append(ds, MINUS)[(n + 1) + 1 - k]
    BY <2>1 DEF Reversed
  <2>3. Len(Tail(t)) = n /\ \A k \in 1 .. n : Tail(t)[k] = t[k + 1]
    BY <1>1, <1>2, <2>2
  <2>4. t[1] = MINUS
    <3>1. 1 \in 1 .. n + 1 /\ (n + 1) + 1 - 1 = n + 1
      BY <1>2
    <3> QED
      BY <3>1, <2>1, <2>2
  <2>5. ASSUME NEW k \in 1 .. n PROVE Tail(t)[k] = ds[n + 1 - k]
    <3>1. k + 1 \in 1 .. n + 1 /\ (n + 1) + 1 - (k + 1) = n + 1 - k /\ n + 1 - k \in 1 .. n
      BY <1>2
    <3> QED
      BY <3>1, <2>1, <2>2, <2>3
  <2> QED
    BY <1>4, <2>3, <2>4, <2>5 DEF Reversed
<1> QED
  BY <1>3, <1>4

(* A numeral reads back as the number it was made from.                     *)
THEOREM Numerals == Spec => []NumeralsReadBack
<1>1. SysInv => NumeralsReadBack
  <2> SUFFICES ASSUME SysInv PROVE NumeralsReadBack
    OBVIOUS
  <2>1. Done("hex8") => Len(text) = Bits \div 4 /\ ValueOf(text, 16) = call.d
    <3> SUFFICES ASSUME Done("hex8")
                 PROVE  Len(text) = Bits \div 4 /\ ValueOf(text, 16) = call.d
      OBVIOUS
    <3>1. /\ i = Bits \div 4 /\ u < Two(Bits - 4 * i)
          /\ \E ds, q : Divided(ds, q, 16, call.d, u) /\ Len(ds) = i /\ Reversed(text, ds)
      BY DEF SysInv, Hex8Loop, Done, In
    <3>2. PICK ds, q : Divided(ds, q, 16, call.d, u) /\ Len(ds) = i /\ Reversed(text, ds)
      BY <3>1
    <3>3. u = 0
      <4>1. Bits - 4 * i = 0
        BY <3>1, Width
      <4>2. u < 1
        BY <3>1, <4>1, Powers
      <4>3. u \in Nat
        BY <3>1, <3>2, Width DEF Divided
      <4> QED
        BY <4>2, <4>3
    <3>4. ValueOf(text, 16) = call.d
      BY <3>2, <3>3, ReadsBack
    <3> QED
      BY <3>1, <3>2, <3>4 DEF Reversed
  <2>2. Done("itoa") /\ call.s \notin 2 .. 16 => text = <<>>
    BY DEF SysInv, ItoaLoop, Done, In
  <2>3. ASSUME Done("itoa"), call.s \in 2 .. 16
        PROVE  LET digits == IF Negative THEN Tail(text) ELSE text
                   number == ValueOf(digits, call.s)
               IN  /\ Len(digits) > 0
                   /\ Negative => text[1] = MINUS
                   /\ \A k \in DOMAIN digits : digits[k] \in 0 .. call.s - 1
                   /\ digits[1] = 0 => Len(digits) = 1
                   /\ (IF Negative THEN -number ELSE number)
                        = IF call.s = 10 THEN call.d ELSE ToUint32(call.d)
    <3> DEFINE digits == IF Negative THEN Tail(text) ELSE text
               v == Magnitude(call.d, call.s)
    <3>1. call.d \in Sint32
      BY <2>3, Promised DEF SysInv, Given, Done, In
    <3>2. PICK ds, q : Numeral(ds, q)
      BY <2>3 DEF SysInv, ItoaLoop, Done, In
    <3>3. /\ Divided(ds, q, call.s, v, 0)
          /\ Len(ds) > 0 /\ (ds[Len(ds)] = 0 => Len(ds) = 1)
          /\ Reversed(text, Signed(ds))
      BY <2>3, <3>2 DEF Numeral, Done, In
    <3>4. ds \in Seq(0 .. call.s - 1)
      BY <3>3 DEF Divided
    <3>5. Turned(text, Signed(ds), i)
      BY <2>3, <3>2 DEF Numeral, Done, In
    <3>6. text \in Seq(MINUS .. 15)
      BY <3>5 DEF Turned
    <3> HIDE DEF v
    <3>7. Reversed(digits, ds) /\ (Negative => text[1] = MINUS)
      BY <3>3, <3>4, <3>6, Unsigned
    <3> HIDE DEF digits
    <3>8. DOMAIN digits = 1 .. Len(ds) /\ Len(digits) = Len(ds)
      BY <3>3, <3>4, <3>6, <3>7 DEF Reversed, digits
    <3>9. \A k \in 1 .. Len(ds) : /\ digits[k] = ds[Len(ds) + 1 - k]
                                  /\ Len(ds) + 1 - k \in 1 .. Len(ds)
      BY <3>4, <3>7 DEF Reversed
    <3>10. \A k \in DOMAIN digits : digits[k] \in 0 .. call.s - 1
      <4> DEFINE Digits == 0 .. call.s - 1
      <4>1. ds \in Seq(Digits)
        BY <3>4
      <4> HIDE DEF Digits
      <4>2. \A k \in DOMAIN digits : digits[k] \in Digits
        BY <4>1, <3>8, <3>9
      <4> QED
        BY <4>2 DEF Digits
    <3>11. digits[1] = 0 => Len(digits) = 1
      <4>1. digits[1] = ds[Len(ds)]
        BY <3>3, <3>4, <3>9
      <4> QED
        BY <4>1, <3>3, <3>8
    <3>12. ValueOf(digits, call.s) = v
      BY <2>3, <3>3, <3>7, ReadsBack
    <3>13. (IF Negative THEN -v ELSE v) = IF call.s = 10 THEN call.d ELSE ToUint32(call.d)
      <4>1. call.d \in Int /\ call.s \in Int
        BY <2>3, <3>1 DEF Sint32
      <4>2. /\ call.d < 0 /\ call.s = 10 => v = -call.d
            /\ call.d >= 0 => v = call.d
            /\ call.s # 10 => v = ToUint32(call.d)
        BY <3>1, <4>1, MagnitudeIs DEF v
      <4> QED
        BY <4>1, <4>2 DEF Negative
    <3> QED
      BY <3>3, <3>7, <3>8, <3>10, <3>11, <3>12, <3>13 DEF digits
  <2> QED
    BY <2>1, <2>2, <2>3 DEF NumeralsReadBack
<1> QED
  BY <1>1, Invariance, PTL

==============================================================================
