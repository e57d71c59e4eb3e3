---------------------------------- MODULE Sys ----------------------------------
(***************************************************************************)
(* The library of src/src/sys.c: the memory and string functions and the   *)
(* two conversions to text.  A behaviour is one call on one memory: Init   *)
(* chooses the call among those its caller may make, one step is one turn  *)
(* of a loop of the function, and the call ends in Return.                 *)
(*                                                                         *)
(* A pointer is an address of mem.  Where the C code moves pointers and    *)
(* counts n down, i is how many bytes have been dealt with.  An int has    *)
(* Bits bits; a digit of a numeral is its value, 0 to 15.                  *)
(***************************************************************************)
EXTENDS Integers, Sequences

CONSTANTS
  Size,   \* bytes of memory
  Bytes,  \* the values tried in it
  Bits,   \* width of sint32 and uint32: 32, or fewer
  Bases   \* the bases tried with sys_itoa

ASSUME SysAssumption ==
  /\ Size \in Nat \ {0}
  /\ 0 \in Bytes /\ Bytes \subseteq 0 .. 255
  /\ Bits \in 1 .. 32 /\ Bits % 4 = 0
  /\ Bases \subseteq Int

Addresses == 0 .. Size - 1
INT32_MAX == 2 ^ (Bits - 1) - 1
INT32_MIN == -(2 ^ (Bits - 1))
Sint32 == INT32_MIN .. INT32_MAX
ToUint32(v) == v % 2 ^ Bits
MINUS == -1  \* the character '-'

VARIABLES
  call,  \* the function called and its arguments
  old,   \* the memory at the call
  mem,   \* the memory
  i,     \* bytes, or characters, dealt with
  u,     \* uvalue of sys_itoa, v of sys_u32_to_hex8
  text,  \* the characters written by a conversion, without a terminator
  pc,    \* where the function is; "done" once it has returned
  ret    \* what it returned

vars == <<call, old, mem, i, u, text, pc, ret>>

Region(a, n) == a .. a + n - 1
Disjoint(a, b, n) == Region(a, n) \cap Region(b, n) = {}
IsString(m, s) == \E k \in Addresses : k >= s /\ m[k] = 0
StringEnd(m, s) == CHOOSE k \in Addresses :
                     k >= s /\ m[k] = 0 /\ \A j \in s .. k - 1 : m[j] # 0

(*--------------------------- what may be called ---------------------------*)

Call(fn, d, s, n, c) == [fn |-> fn, d |-> d, s |-> s, n |-> n, c |-> c]

Fits(a, n) == a + n <= Size

MemoryCalls(m) ==
  LET Args == Addresses \X Addresses \X (0 .. Size)
  IN  {Call("memset", a[1], 0, a[3], c) : a \in {x \in Args : Fits(x[1], x[3])}, c \in Bytes}
      \cup {Call("memcpy", a[1], a[2], a[3], 0) :
              a \in {x \in Args : /\ Fits(x[1], x[3]) /\ Fits(x[2], x[3])
                                  /\ Disjoint(x[1], x[2], x[3])}}
      \cup {Call("memcmp", a[1], a[2], a[3], 0) :
              a \in {x \in Args : Fits(x[1], x[3]) /\ Fits(x[2], x[3])}}
      \cup {Call("strlen", 0, s, 0, 0) : s \in {a \in Addresses : IsString(m, a)}}
      \cup {Call("strcpy", a[1], a[2], 0, 0) :
              a \in {x \in Addresses \X Addresses :
                       /\ IsString(m, x[2])
                       /\ LET n == StringEnd(m, x[2]) + 1 - x[2]
                          IN  Fits(x[1], n) /\ Disjoint(x[1], x[2], n)}}
      \cup {Call("strncpy", a[1], a[2], a[3], 0) :
              a \in {x \in Args : /\ Fits(x[1], x[3])
                                  /\ Fits(x[2], x[3]) \/ IsString(m, x[2])
                                  /\ Disjoint(x[1], x[2], x[3])}}

TextCalls ==
  {Call("itoa", v, b, 0, 0) : v \in Sint32, b \in Bases}
  \cup {Call("hex8", v, 0, 0, 0) : v \in 0 .. 2 ^ Bits - 1}

(* Faulty variant: the bits of a negative number are not taken as a uint32. *)
Magnitude_Uncast(v, base) == IF v < 0 /\ base = 10 THEN -v ELSE v

(* The unsigned number whose digits sys_itoa writes: a minus sign belongs   *)
(* to base 10 only, and INT32_MIN has no negation in a sint32.              *)
Negative == call.d < 0 /\ call.s = 10
Magnitude(v, base) ==
  IF v < 0 /\ base = 10
    THEN IF v = INT32_MIN THEN ToUint32(INT32_MAX + 1) ELSE ToUint32(-v)
    ELSE ToUint32(v)

Init ==
  /\ \/ /\ mem \in [Addresses -> Bytes]
        /\ call \in MemoryCalls(mem)
        /\ u = 0
     \/ /\ mem = [a \in Addresses |-> 0]
        /\ call \in TextCalls
        /\ u = IF call.fn = "itoa" THEN Magnitude(call.d, call.s) ELSE call.d
  /\ old = mem
  /\ i = 0 /\ text = <<>> /\ ret = 0
  /\ pc = "start"

(*------------------------------- the loops --------------------------------*)

In(fn, at) == call.fn = fn /\ pc = at

Return(v) == pc' = "done" /\ ret' = v /\ UNCHANGED <<call, old, mem, i, u, text>>

Advance == i' = i + 1 /\ UNCHANGED <<call, old, mem, u, text, pc, ret>>

Put(b) == /\ mem' = [mem EXCEPT ![call.d + i] = b]
          /\ i' = i + 1
          /\ UNCHANGED <<call, old, u, text, pc, ret>>

Goto(at) == pc' = at /\ UNCHANGED <<call, old, mem, i, u, text, ret>>

sys_memset ==
  /\ In("memset", "start")
  /\ \/ i # call.n /\ Put(call.c)
     \/ i = call.n /\ Return(call.d)

(* Faulty variant: the loop counts one byte too many.                       *)
sys_memcpy_OneMore ==
  /\ In("memcpy", "start")
  /\ \/ i <= call.n /\ Fits(call.d, i + 1) /\ Fits(call.s, i + 1) /\ Put(mem[call.s + i])
     \/ i = call.n + 1 /\ Return(call.d)

sys_memcpy ==
  /\ In("memcpy", "start")
  /\ \/ i # call.n /\ Put(mem[call.s + i])
     \/ i = call.n /\ Return(call.d)

(* Faulty variant: bytes compared as signed characters.                     *)
sys_memcmp_Signed ==
  LET Signed(b) == IF b < 128 THEN b ELSE b - 256
  IN  /\ In("memcmp", "start")
      /\ \/ /\ i # call.n /\ mem[call.d + i] # mem[call.s + i]
            /\ Return(Signed(mem[call.d + i]) - Signed(mem[call.s + i]))
         \/ i # call.n /\ mem[call.d + i] = mem[call.s + i] /\ Advance
         \/ i = call.n /\ Return(0)

sys_memcmp ==
  /\ In("memcmp", "start")
  /\ \/ /\ i # call.n /\ mem[call.d + i] # mem[call.s + i]
        /\ Return(mem[call.d + i] - mem[call.s + i])
     \/ i # call.n /\ mem[call.d + i] = mem[call.s + i] /\ Advance
     \/ i = call.n /\ Return(0)

sys_strlen ==
  /\ In("strlen", "start")
  /\ \/ mem[call.s + i] # 0 /\ Advance
     \/ mem[call.s + i] = 0 /\ Return(i)

(* The terminator is copied before it ends the loop.                        *)
sys_strcpy ==
  /\ call.fn = "strcpy"
  /\ \/ pc = "start" /\ mem[call.s + i] # 0 /\ Put(mem[call.s + i])
     \/ /\ pc = "start" /\ mem[call.s + i] = 0
        /\ mem' = [mem EXCEPT ![call.d + i] = 0]
        /\ pc' = "copied"
        /\ UNCHANGED <<call, old, i, u, text, ret>>
     \/ pc = "copied" /\ Return(call.d)

(* Faulty variant: no padding, the copy stops at the end of the string.     *)
sys_strncpy_NoPadding ==
  /\ In("strncpy", "start")
  /\ \/ i < call.n /\ mem[call.s + i] # 0 /\ Put(mem[call.s + i])
     \/ ~(i < call.n /\ mem[call.s + i] # 0) /\ Return(call.d)

sys_strncpy ==
  /\ call.fn = "strncpy"
  /\ \/ pc = "start" /\ i < call.n /\ mem[call.s + i] # 0 /\ Put(mem[call.s + i])
     \/ pc = "start" /\ (i < call.n => mem[call.s + i] = 0) /\ Goto("pad")
     \/ pc = "pad" /\ i < call.n /\ Put(0)
     \/ pc = "pad" /\ i >= call.n /\ Return(call.d)

(* The digits from the last to the first, the sign, and then the swaps that *)
(* turn the string round.                                                   *)
ItoaRefuses == In("itoa", "start") /\ ~(2 <= call.s /\ call.s <= 16) /\ Return(0)

ItoaDigit ==
  /\ In("itoa", "start") /\ 2 <= call.s /\ call.s <= 16
  /\ text' = Append(text, u % call.s)
  /\ u' = u \div call.s
  /\ pc' = IF u' = 0 THEN "sign" ELSE "start"
  /\ UNCHANGED <<call, old, mem, i, ret>>

ItoaSign ==
  /\ In("itoa", "sign")
  /\ text' = IF Negative THEN Append(text, MINUS) ELSE text
  /\ pc' = "turn"
  /\ UNCHANGED <<call, old, mem, i, u, ret>>

(* Faulty variant: the two pointers stop one swap too early.                *)
ItoaTurn_Short ==
  LET ptr1 == i + 1
      ptr == Len(text) - i
  IN  /\ In("itoa", "turn")
      /\ \/ /\ ptr1 < ptr - 1
            /\ text' = [text EXCEPT ![ptr] = text[ptr1], ![ptr1] = text[ptr]]
            /\ i' = i + 1
            /\ UNCHANGED <<call, old, mem, u, pc, ret>>
         \/ ptr1 >= ptr - 1 /\ Return(0)

ItoaTurn ==
  LET ptr1 == i + 1
      ptr == Len(text) - i
  IN  /\ In("itoa", "turn")
      /\ \/ /\ ptr1 < ptr
            /\ text' = [text EXCEPT ![ptr] = text[ptr1], ![ptr1] = text[ptr]]
            /\ i' = i + 1
            /\ UNCHANGED <<call, old, mem, u, pc, ret>>
         \/ ptr1 >= ptr /\ Return(0)

sys_itoa == ItoaRefuses \/ ItoaDigit \/ ItoaSign \/ ItoaTurn

(* Faulty variant: i is unsigned, so that it never gets below zero.         *)
sys_u32_to_hex8_Unsigned ==
  /\ In("hex8", "start")
  /\ text' = IF i = Bits \div 4 THEN <<>> ELSE <<u % 16>> \o text
  /\ u' = u \div 16
  /\ i' = IF i = Bits \div 4 THEN 0 ELSE i + 1
  /\ UNCHANGED <<call, old, mem, pc, ret>>

(* out is filled from its end.                                              *)
sys_u32_to_hex8 ==
  /\ In("hex8", "start")
  /\ \/ /\ i < Bits \div 4
        /\ text' = <<u % 16>> \o text
        /\ u' = u \div 16
        /\ i' = i + 1
        /\ UNCHANGED <<call, old, mem, pc, ret>>
     \/ i = Bits \div 4 /\ Return(0)

Next == \/ sys_memset \/ sys_memcpy \/ sys_memcmp \/ sys_strlen \/ sys_strcpy
        \/ sys_strncpy \/ sys_itoa \/ sys_u32_to_hex8

Spec == Init /\ [][Next]_vars /\ WF_vars(Next)

(*------------------------------- properties -------------------------------*)

TypeOK ==
  /\ old \in [Addresses -> Bytes] /\ mem \in [Addresses -> Bytes]
  /\ i \in Nat /\ u \in 0 .. 2 ^ Bits - 1
  /\ text \in Seq(MINUS .. 15) /\ Len(text) <= Bits + 1
  /\ pc \in {"start", "copied", "pad", "sign", "turn", "done"}
  /\ ret \in Int

Done(fn) == In(fn, "done")

(* The memory is what it was except for a region, which holds what Of says. *)
Rewritten(a, n, Of(_)) ==
  mem = [b \in Addresses |-> IF b \in Region(a, n) THEN Of(b - a) ELSE old[b]]

(* memset and memcpy write their n bytes, and no other byte.                *)
BlocksAreExact ==
  /\ Done("memset") => Rewritten(call.d, call.n, LAMBDA k : call.c)
  /\ Done("memcpy") => Rewritten(call.d, call.n, LAMBDA k : old[call.s + k])

(* memcmp answers with the sign of the first pair of bytes that differ,     *)
(* taken as unsigned, and with 0 if none does ("@return" of sys_memcmp).    *)
CompareIsFirstDifference ==
  Done("memcmp") =>
    LET Differ == {k \in 0 .. call.n - 1 : mem[call.d + k] # mem[call.s + k]}
    IN  /\ ret = 0 <=> Differ = {}
        /\ \A k \in Differ :
             (\A j \in Differ : k <= j) => (ret < 0 <=> mem[call.d + k] < mem[call.s + k])

(* strlen, strcpy and strncpy take a string for the bytes before its first  *)
(* zero.  strcpy copies that zero too; strncpy fills n bytes whatever the   *)
(* length of the string, and nothing is written past them.                  *)
StringsAreExact ==
  /\ Done("strlen") => ret = StringEnd(old, call.s) - call.s
  /\ Done("strcpy") => Rewritten(call.d, StringEnd(old, call.s) + 1 - call.s,
                                 LAMBDA k : old[call.s + k])
  /\ Done("strncpy") => Rewritten(call.d, call.n,
                          LAMBDA k : IF \E j \in 0 .. k : old[call.s + j] = 0
                                       THEN 0 ELSE old[call.s + k])

ValueOf(digits, base) ==
  LET value[k \in 0 .. Len(digits)] ==
        IF k = 0 THEN 0 ELSE value[k - 1] * base + digits[k]
  IN  value[Len(digits)]

(* Reading a numeral back gives the number: sys_itoa's in its base, without *)
(* leading zeros, signed in base 10 and as the uint32 in any other, for     *)
(* INT32_MIN too; sys_u32_to_hex8's with all its digits.                    *)
NumeralsReadBack ==
  /\ Done("hex8") => Len(text) = Bits \div 4 /\ ValueOf(text, 16) = call.d
  /\ Done("itoa") /\ call.s \notin 2 .. 16 => text = <<>>
  /\ Done("itoa") /\ call.s \in 2 .. 16 =>
       LET digits == IF Negative THEN Tail(text) ELSE text
           number == ValueOf(digits, call.s)
       IN  /\ Len(digits) > 0
           /\ Negative => text[1] = MINUS
           /\ \A k \in DOMAIN digits : digits[k] \in 0 .. call.s - 1
           /\ digits[1] = 0 => Len(digits) = 1
           /\ (IF Negative THEN -number ELSE number)
                = IF call.s = 10 THEN call.d ELSE ToUint32(call.d)

(* No call loops for ever or runs off the memory it was given.              *)
EveryCallReturns == <>(pc = "done")

==============================================================================
