---------------------------------- MODULE Ram ----------------------------------
(***************************************************************************)
(* The RAM that the startup code brings up, and the data cache in front of *)
(* the cacheable part of its SRAM: the maintenance loops of                *)
(* Project_Settings/Startup_Code/system.c, on the few facts of a Cortex-M7 *)
(* cache that they rely on.  mem is what the core reads; ram is what is in *)
(* the memory behind the cache, which a write reaches later when the cache *)
(* is on.  A line is dirty while the two differ on it.  A slot may have to *)
(* hold several lines; which of them it holds is not kept, so that any of  *)
(* them may be dirty.  The instruction cache has no data of its own.       *)
(***************************************************************************)
EXTENDS Integers, Sequences, FiniteSets

CONSTANTS
  CacheEnd,    \* the SRAM starts with int_sram, 0 .. CacheEnd - 1, which is cacheable
  SramEnd,     \* and goes on to __INT_SRAM_END with what is not (__INT_SRAM_START is 0)
  RamEnd,      \* the DTCM, not cached, follows: SramEnd .. RamEnd - 1
  LineBytes,   \* of a cache line
  Sets, Ways,  \* of the data cache, as CCSIDR gives them
  SlotOf       \* the set and way that hold each line of the cacheable SRAM

Cacheable == 0 .. CacheEnd - 1
Sram == 0 .. SramEnd - 1
Addresses == 0 .. RamEnd - 1
Lines == {a \div LineBytes : a \in Cacheable}
Slots == (0 .. Sets - 1) \X (0 .. Ways - 1)

ASSUME RamAssumption ==
  /\ {CacheEnd, SramEnd, RamEnd} \subseteq Nat /\ CacheEnd <= SramEnd /\ SramEnd <= RamEnd
  /\ {LineBytes, Sets, Ways} \subseteq Nat \ {0}
  /\ SlotOf \in [Lines -> Slots]

(* What a byte can hold: what an ECC memory has before its first write,    *)
(* what the application left, zero, a byte of the image (positive), or, of *)
(* a word that holds a register's value, that value.                       *)
Junk == -1
App == -2

VARIABLES
  mem, ram,
  dcache,  \* CCR.DC
  stale    \* the lines whose slot still has contents from before a reset

ramVars == <<mem, ram, dcache, stale>>

RamTypeOK ==
  /\ mem \in [Addresses -> Int] /\ ram \in [Addresses -> Int]
  /\ dcache \in BOOLEAN /\ stale \subseteq Lines

Held(slot) == {a \in Cacheable : SlotOf[a \div LineBytes] = slot}
At(slot) == {l \in Lines : SlotOf[l] = slot}
Dirty(l) == {a \in Held(SlotOf[l]) : mem[a] # ram[a]} # {}

Fill(at, byte) == [a \in at |-> byte]

(* The core stores the bytes of a function.                                *)
Store(bytes) ==
  /\ mem' = [a \in Addresses |-> IF a \in DOMAIN bytes THEN bytes[a] ELSE mem[a]]
  /\ ram' = [a \in Addresses |-> IF dcache /\ a \in Cacheable THEN ram[a] ELSE mem'[a]]
  /\ UNCHANGED <<dcache, stale>>

(* The cache writes a dirty line back of its own accord.                   *)
Evict(l) ==
  /\ dcache /\ Dirty(l)
  /\ LET held == Held(SlotOf[l])
     IN ram' = [a \in Addresses |-> IF a \in held THEN mem[a] ELSE ram[a]]
  /\ UNCHANGED <<mem, dcache, stale>>

(* DCCISW: clean and invalidate.                                           *)
CleanSlot(slot) ==
  /\ LET held == Held(slot)
     IN ram' = [a \in Addresses |-> IF a \in held THEN mem[a] ELSE ram[a]]
  /\ stale' = stale \ At(slot)
  /\ UNCHANGED <<mem, dcache>>

(* DCISW: what the line holds is dropped.                                  *)
InvalidateSlot(slot) ==
  /\ LET held == Held(slot)
     IN mem' = [a \in Addresses |-> IF a \in held THEN ram[a] ELSE mem[a]]
  /\ stale' = stale \ At(slot)
  /\ UNCHANGED <<ram, dcache>>

CacheOn ==
  /\ dcache' = TRUE
  /\ mem' = [a \in Addresses |->
               IF a \in Cacheable /\ a \div LineBytes \in stale THEN Junk ELSE mem[a]]
  /\ UNCHANGED <<ram, stale>>

(* Dirty lines are out of reach from here on, and whatever a slot still    *)
(* holds is out of date by the next time the cache is on.                  *)
CacheOff ==
  /\ dcache' = FALSE
  /\ mem' = ram
  /\ stale' = Lines
  /\ UNCHANGED ram

(* A reset drops the cache but not what its slots contain; of the memory   *)
(* the bytes in kept survive.                                              *)
RamReset(kept) ==
  /\ ram' = [a \in Addresses |-> IF a \in kept THEN ram[a] ELSE Junk]
  /\ mem' = ram'
  /\ dcache' = FALSE
  /\ stale' = Lines

(* The loops on DCCISW and DCISW count sets and ways down to 0 included.   *)
FirstSlot == <<Sets - 1, Ways - 1>>
NextSlot(s, w) == IF w > 0 THEN <<s, w - 1>> ELSE <<s - 1, Ways - 1>>

(* Faulty: --sets != 0 where the code has sets-- != 0.                     *)
LastSlot_NotSet0 == <<1, 0>>

(* Faulty: sets-- >= 0, which an unsigned always is.                       *)
LastSlot_Never == <<-1, 0>>

LastSlot == <<0, 0>>

==============================================================================
