-------------------------------- MODULE Heap --------------------------------
(***************************************************************************)
(* The program heap: HeapAllocator (heap.cpp) and the HEAP_ALLOC syscall   *)
(* that calls it (SystemHandle::heapAlloc, syscalls.cpp).                  *)
(*                                                                         *)
(* Addresses and sizes are uint32_t in the code: here they are the         *)
(* numbers 0 .. Modulus-1 and all their arithmetic is taken modulo         *)
(* Modulus.  The syscall casts the heap pointer to int32_t before it       *)
(* compares it with $sp; AsSigned is that cast.                            *)
(*                                                                         *)
(* A program chooses $a0 (the size) and $sp freely before each syscall.    *)
(***************************************************************************)
EXTENDS Integers, Sequences

CONSTANTS
  Modulus,      \* the number of values of a uint32_t (2^32 in the code)
  HeapBase,     \* memSectionOffset(HEAP)
  StackTop,     \* memSectionOffset(STACK), the initial $sp
  Sizes,        \* the values of $a0 a program passes, as uint32_t
  StackPtrs,    \* the values $sp has when a program allocates
  MaxBlocks     \* bound: the number of blocks a behaviour allocates

Word == 0 .. Modulus - 1
Half == Modulus \div 2                     \* 2^31: the first negative int32_t

ASSUME ModulusAssumption  == Modulus \in Nat /\ Modulus > 1
ASSUME LayoutAssumption   == HeapBase \in Nat /\ StackTop \in Nat
                             /\ HeapBase < Half /\ StackTop < Half
ASSUME SizesAssumption    == Sizes \subseteq Word
ASSUME StackPtrAssumption == StackPtrs \subseteq 0 .. StackTop

NoSP == -1                                 \* no allocation has failed yet

VARIABLES
  blocks,       \* blockAddresses and blockSizes, as one sequence of records
  heapPointer,  \* HeapAllocator::heapPointer
  granted,      \* history: the blocks whose address reached $v0
  oomSP         \* history: the greatest $sp an "Out of Memory" was raised at

vars == <<blocks, heapPointer, granted, oomSP>>

Plus(a, b)  == (a + b) % Modulus           \* uint32_t addition
Minus(a, b) == (a - b) % Modulus           \* uint32_t subtraction
AsSigned(a) == IF a < Half THEN a ELSE a - Modulus

-----------------------------------------------------------------------------
(* HeapAllocator::nextFree.  ptr before block i is the end of block i-1.   *)

(* Faulty variants of the definitions below (and further down) are named   *)
(* for their fault; the properties are checked to fail on them.            *)
PtrBeforeAtStart(i) == IF i = 1 THEN HeapBase ELSE blocks[i - 1].addr

PtrBefore(i) ==
  IF i = 1 THEN HeapBase ELSE Plus(blocks[i - 1].addr, blocks[i - 1].size)

Fits(i, size) == Minus(blocks[i].addr, PtrBefore(i)) >= size

NextFree(size) ==
  LET gaps == {i \in DOMAIN blocks : Fits(i, size)}
  IN  IF gaps = {}
      THEN PtrBefore(Len(blocks) + 1)
      ELSE PtrBefore(CHOOSE i \in gaps : \A j \in gaps : i <= j)

(* The sorted insertion of HeapAllocator::allocate: before the first block *)
(* of a greater address, or at the end.                                    *)
InsertPos(addr) ==
  LET above == {i \in DOMAIN blocks : blocks[i].addr > addr}
  IN  IF above = {}
      THEN Len(blocks) + 1
      ELSE CHOOSE i \in above : \A j \in above : i <= j

InsertBlock(b) ==
  LET p == InsertPos(b.addr)
  IN  [i \in 1 .. Len(blocks) + 1 |->
         IF i < p THEN blocks[i] ELSE IF i = p THEN b ELSE blocks[i - 1]]

(* HeapAllocator::allocate with a size other than 0. *)
Allocate(b) ==
  /\ blocks' = InsertBlock(b)
  /\ heapPointer' = IF Plus(b.addr, b.size) > heapPointer
                    THEN Plus(b.addr, b.size) ELSE heapPointer

-----------------------------------------------------------------------------
(* The syscall.  The block is recorded before the check against $sp, so an *)
(* allocation that raises "Out of Memory" stays recorded.                  *)

AllocZero ==            \* allocate throws "Cannot allocate zero bytes"
  /\ 0 \in Sizes
  /\ UNCHANGED vars

OutOfMemoryBeforeGrowth(sp) == AsSigned(heapPointer) > sp

OutOfMemory(sp) == AsSigned(heapPointer') > sp

HeapAllocWithRollback(size, sp) ==
  LET b == [addr |-> NextFree(size), size |-> size]
  IN  /\ size # 0
      /\ Len(blocks) < MaxBlocks
      /\ \/ /\ AsSigned(b.addr + b.size) > sp
            /\ oomSP' = IF sp > oomSP THEN sp ELSE oomSP
            /\ UNCHANGED <<blocks, heapPointer, granted>>
         \/ /\ AsSigned(b.addr + b.size) <= sp
            /\ Allocate(b)
            /\ granted' = granted \union {b}
            /\ UNCHANGED oomSP

HeapAlloc(size, sp) ==
  LET b == [addr |-> NextFree(size), size |-> size]
  IN  /\ size # 0
      /\ Len(blocks) < MaxBlocks
      /\ Allocate(b)
      /\ \/ /\ OutOfMemory(sp)
            /\ oomSP' = IF sp > oomSP THEN sp ELSE oomSP
            /\ UNCHANGED granted
         \/ /\ ~OutOfMemory(sp)
            /\ granted' = granted \union {b}
            /\ UNCHANGED oomSP

Init ==
  /\ blocks = <<>>
  /\ heapPointer = HeapBase
  /\ granted = {}
  /\ oomSP = NoSP

Next ==
  \/ AllocZero
  \/ \E size \in Sizes, sp \in StackPtrs : HeapAlloc(size, sp)

Spec == Init /\ [][Next]_vars

(* The programs whose requests, failed ones included, leave the heap       *)
(* pointer below 2^31.                                                     *)
ModestNext ==
  \/ AllocZero
  \/ \E size \in Sizes, sp \in StackPtrs :
        heapPointer + size < Half /\ HeapAlloc(size, sp)

ModestSpec == Init /\ [][ModestNext]_vars

-----------------------------------------------------------------------------
Block == [addr : Word, size : Word \ {0}]

(* Types of the allocator's vectors and of the two history variables. *)
TypeOK ==
  /\ blocks \in Seq(Block)
  /\ heapPointer \in Word
  /\ granted \subseteq Block
  /\ oomSP \in StackPtrs \union {NoSP}

(***************************************************************************)
(* The blocks recorded by HeapAllocator tile the heap: the first starts at *)
(* the base, each starts where the one before ends, and heapPointer is the *)
(* end of the last.  So nextFree finds no gap, and first fit is a bump     *)
(* allocator (heap.cpp:14-57).                                             *)
(***************************************************************************)
BlocksTileHeap ==
  /\ \A i \in DOMAIN blocks : blocks[i].addr =
        IF i = 1 THEN HeapBase ELSE blocks[i - 1].addr + blocks[i - 1].size
  /\ heapPointer =
        IF blocks = <<>> THEN HeapBase
        ELSE blocks[Len(blocks)].addr + blocks[Len(blocks)].size

(***************************************************************************)
(* A failed allocation is never undone (syscalls.cpp:195-199): once "Out   *)
(* of Memory" was raised at some $sp, no later request, however small, is  *)
(* granted unless $sp has been raised above that value.                    *)
(***************************************************************************)
FailureIsSticky ==
  [][\A b \in granted' \ granted : b.addr + b.size > oomSP]_vars

A == INSTANCE Arena WITH Lo <- HeapBase, Hi <- StackTop
(***************************************************************************)
(* The heap keeps the promise of Arena: every address that reaches $v0 is  *)
(* that of a block inside the heap, below the stack, and disjoint from all *)
(* blocks granted before (heap.hpp:31-36, syscalls.cpp:193-202).           *)
(***************************************************************************)
GrantsDisjointBlocks == A!ArenaSpec

=============================================================================
