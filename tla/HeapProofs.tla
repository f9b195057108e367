----------------------------- MODULE HeapProofs -----------------------------
(***************************************************************************)
(* Proofs about Heap, for every size of the address space, every placement *)
(* of heap and stack, and every set of requests: as long as the requests   *)
(* keep the heap pointer below 2^31 (ModestSpec), first fit never finds a  *)
(* gap, so the allocator tiles the heap and implements Arena.              *)
(***************************************************************************)
EXTENDS Heap, SequenceTheorems, TLAPS

(* The inductive invariant: the tiling, with what makes it inductive: the  *)
(* end of every block is at most heapPointer, which is below 2^31, and a   *)
(* failed allocation has left heapPointer above the $sp it failed at.      *)
IInv ==
  /\ TypeOK
  /\ BlocksTileHeap
  /\ HeapBase <= heapPointer /\ heapPointer < Half
  /\ \A i \in DOMAIN blocks : /\ HeapBase <= blocks[i].addr
                              /\ blocks[i].addr + blocks[i].size <= heapPointer
  /\ \A b \in granted : /\ A!Inside(b)
                        /\ b.addr + b.size <= heapPointer
  /\ oomSP < heapPointer

-----------------------------------------------------------------------------
(* uint32_t arithmetic does not wrap on results inside the word. *)
LEMMA ModSmall == ASSUME NEW x \in Word PROVE x % Modulus = x
  BY ModulusAssumption, SMT DEF Word

(* The sign bit's weight is below the modulus. *)
LEMMA HalfIsSmall == Half \in Nat /\ Half <= Modulus /\ Half < Modulus
  BY ModulusAssumption, SMT DEF Half

(* Under the invariant no gap fits a request, and first fit answers the    *)
(* heap pointer.                                                           *)
LEMMA NextFreeIsTop ==
  ASSUME IInv, NEW size \in Word \ {0}
  PROVE  NextFree(size) = heapPointer
<1>1. \A i \in 1 .. Len(blocks) + 1 :
        PtrBefore(i) = IF i = Len(blocks) + 1 THEN heapPointer ELSE blocks[i].addr
  <2> SUFFICES ASSUME NEW i \in 1 .. Len(blocks) + 1
               PROVE  PtrBefore(i) = IF i = Len(blocks) + 1
                                     THEN heapPointer ELSE blocks[i].addr
    OBVIOUS
  <2>1. Len(blocks) \in Nat /\ DOMAIN blocks = 1 .. Len(blocks)
    BY DEF IInv, TypeOK
  <2>2. CASE i = 1
    BY <2>1, <2>2, SMT DEF PtrBefore, IInv, TypeOK, BlocksTileHeap
  <2>3. CASE i # 1
    <3>1. i - 1 \in DOMAIN blocks
      BY <2>1, <2>3
    <3>2. blocks[i - 1] \in Block
      BY <3>1, <2>1, SMT DEF IInv, TypeOK
    <3> DEFINE end == blocks[i - 1].addr + blocks[i - 1].size
    <3>3. end <= heapPointer /\ heapPointer \in Word
      BY <3>1 DEF IInv, TypeOK
    <3>4. end \in Word
      BY <3>2, <3>3, ModulusAssumption, SMT DEF Block, Word
    <3>5. PtrBefore(i) = end
      BY <2>3, <3>4, ModSmall DEF PtrBefore, Plus
    <3>6. CASE i = Len(blocks) + 1
      <4>1. blocks # <<>> /\ Len(blocks) = i - 1
        BY <3>1, <3>6, <2>1, SMT
      <4> QED BY <3>5, <3>6, <4>1 DEF IInv, BlocksTileHeap
    <3>7. CASE i # Len(blocks) + 1
      <4>1. i \in DOMAIN blocks
        BY <2>1, <3>7, SMT
      <4> QED BY <3>5, <3>7, <4>1, <2>3 DEF IInv, BlocksTileHeap
    <3> QED BY <3>6, <3>7
  <2> QED BY <2>2, <2>3
<1>2. \A i \in DOMAIN blocks : ~ Fits(i, size)
  <2> SUFFICES ASSUME NEW i \in DOMAIN blocks PROVE ~ Fits(i, size)
    OBVIOUS
  <2>1. i \in 1 .. Len(blocks) /\ Len(blocks) \in Nat
    BY DEF IInv, TypeOK
  <2>2. PtrBefore(i) = blocks[i].addr
    BY <1>1, <2>1, SMT
  <2>3. blocks[i].addr \in Nat
    <3>1. blocks[i] \in Block
      BY <2>1, ElementOfSeq DEF IInv, TypeOK
    <3> QED BY <3>1, ModulusAssumption, SMT DEF Block, Word
  <2>4. Minus(blocks[i].addr, PtrBefore(i)) = 0
    <3>1. blocks[i].addr - PtrBefore(i) = 0
      BY <2>2, <2>3, SMT
    <3>2. 0 \in Word
      BY ModulusAssumption, SMT DEF Word
    <3> QED BY <3>1, <3>2, ModSmall DEF Minus
  <2> QED BY <2>4, SMT DEF Fits, Word
<1>3. NextFree(size) = PtrBefore(Len(blocks) + 1)
  BY <1>2 DEF NextFree
<1>4. Len(blocks) + 1 \in 1 .. Len(blocks) + 1
  BY SMT DEF IInv, TypeOK
<1> QED BY <1>1, <1>3, <1>4

(* A block at the heap pointer is inserted at the end.                     *)
LEMMA InsertIsAppend ==
  ASSUME IInv, NEW b \in Block, b.addr = heapPointer
  PROVE  /\ InsertBlock(b) \in Seq(Block)
         /\ Len(InsertBlock(b)) = Len(blocks) + 1
         /\ DOMAIN InsertBlock(b) = 1 .. Len(blocks) + 1
         /\ \A i \in 1 .. Len(blocks) + 1 :
              InsertBlock(b)[i] = IF i = Len(blocks) + 1 THEN b ELSE blocks[i]
<1>1. /\ blocks \in Seq(Block) /\ Len(blocks) \in Nat
      /\ DOMAIN blocks = 1 .. Len(blocks)
      /\ \A i \in 1 .. Len(blocks) : blocks[i] \in Block
  BY ElementOfSeq DEF IInv, TypeOK
<1>2. \A i \in DOMAIN blocks : ~ (blocks[i].addr > b.addr)
  <2> SUFFICES ASSUME NEW i \in DOMAIN blocks PROVE ~ (blocks[i].addr > b.addr)
    OBVIOUS
  <2>1. blocks[i] \in Block
    BY <1>1
  <2>2. blocks[i].addr + blocks[i].size <= heapPointer
    BY DEF IInv
  <2> QED BY <2>1, <2>2, SMT DEF Block, Word, IInv, TypeOK
<1>3. InsertPos(b.addr) = Len(blocks) + 1
  BY <1>2 DEF InsertPos
<1> DEFINE n == Len(blocks) + 1
           ins == [i \in 1 .. n |-> IF i = n THEN b ELSE blocks[i]]
<1>4. InsertBlock(b) = ins
  BY <1>1, <1>3, SMT DEF InsertBlock
<1>5. n \in Nat /\ ins \in [1 .. n -> Block]
  BY <1>1, SMT
<1>6. ins \in Seq(Block)
  BY <1>5, SeqDef
<1>7. Len(ins) = n /\ DOMAIN ins = 1 .. n
  BY <1>5, <1>6, LenProperties
<1> QED BY <1>4, <1>6, <1>7

-----------------------------------------------------------------------------
(* What a successful or failed HeapAlloc does to the heap, in terms of the *)
(* heap pointer alone.                                                     *)
LEMMA AllocAtTop ==
  ASSUME IInv, NEW size \in Sizes, NEW sp \in StackPtrs,
         heapPointer + size < Half, HeapAlloc(size, sp)
  PROVE  LET b == [addr |-> heapPointer, size |-> size] IN
         /\ b \in Block
         /\ blocks' = InsertBlock(b)
         /\ heapPointer' = heapPointer + size
         /\ heapPointer' \in Word
         /\ \/ /\ heapPointer + size > sp
               /\ oomSP' = IF sp > oomSP THEN sp ELSE oomSP
               /\ granted' = granted
            \/ /\ heapPointer + size <= sp
               /\ granted' = granted \union {b}
               /\ oomSP' = oomSP
<1> DEFINE b == [addr |-> heapPointer, size |-> size]
<1>1. size \in Word \ {0} /\ size # 0
  BY SizesAssumption DEF HeapAlloc
<1>2. heapPointer \in Word /\ heapPointer + size \in Word
  BY <1>1, HalfIsSmall, ModulusAssumption, SMT DEF IInv, TypeOK, Word
<1>3. b \in Block
  BY <1>1, <1>2 DEF Block
<1>4. NextFree(size) = heapPointer
  BY <1>1, NextFreeIsTop
<1>5. Allocate(b)
  BY <1>4 DEF HeapAlloc
<1>6. Plus(b.addr, b.size) = heapPointer + size
  BY <1>2, ModSmall DEF Plus
<1>7. heapPointer' = heapPointer + size
  BY <1>1, <1>2, <1>5, <1>6, ModulusAssumption, SMT DEF Allocate, Word
<1>8. AsSigned(heapPointer') = heapPointer + size
  BY <1>7 DEF AsSigned
<1>9. sp \in Int /\ heapPointer + size \in Int
  BY <1>2, StackPtrAssumption, LayoutAssumption, ModulusAssumption, SMT DEF Word
<1>10. OutOfMemory(sp) <=> heapPointer + size > sp
  BY <1>8 DEF OutOfMemory
<1>11. ~ OutOfMemory(sp) => heapPointer + size <= sp
  BY <1>9, <1>10, SMT
<1>12. blocks' = InsertBlock(b)
  BY <1>5 DEF Allocate
<1>13. \/ /\ OutOfMemory(sp)
          /\ oomSP' = IF sp > oomSP THEN sp ELSE oomSP
          /\ granted' = granted
       \/ /\ ~ OutOfMemory(sp)
          /\ granted' = granted \union {b}
          /\ oomSP' = oomSP
  BY <1>4 DEF HeapAlloc
<1> QED BY <1>2, <1>3, <1>7, <1>10, <1>11, <1>12, <1>13

-----------------------------------------------------------------------------
(* The empty heap satisfies IInv. *)
LEMMA InitIInv == Init => IInv
<1> SUFFICES ASSUME Init PROVE IInv
  OBVIOUS
<1>1. blocks = <<>> /\ heapPointer = HeapBase /\ granted = {} /\ oomSP = NoSP
  BY DEF Init
<1>2. HeapBase \in Word /\ HeapBase < Half /\ NoSP < HeapBase
  BY LayoutAssumption, HalfIsSmall, ModulusAssumption, SMT DEF Word, NoSP
<1>3. blocks \in Seq(Block) /\ DOMAIN blocks = {}
  BY <1>1, EmptySeq
<1> QED BY <1>1, <1>2, <1>3, LayoutAssumption, SMT
        DEF IInv, TypeOK, BlocksTileHeap

(* IInv is inductive: a request appends a block at the heap pointer or     *)
(* leaves the records alone.                                               *)
LEMMA StepIInv == IInv /\ [ModestNext]_vars => IInv'
<1> SUFFICES ASSUME IInv, [ModestNext]_vars PROVE IInv'
  OBVIOUS
<1>1. CASE AllocZero
  BY <1>1 DEF AllocZero, vars, IInv, TypeOK, BlocksTileHeap, A!Inside
<1>2. ASSUME NEW size \in Sizes, NEW sp \in StackPtrs,
             heapPointer + size < Half, HeapAlloc(size, sp)
      PROVE  IInv'
  <2> DEFINE b == [addr |-> heapPointer, size |-> size]
             n == Len(blocks) + 1
  <2>1. /\ b \in Block
        /\ blocks' = InsertBlock(b)
        /\ heapPointer' = heapPointer + size
        /\ heapPointer' \in Word
        /\ \/ /\ heapPointer + size > sp
              /\ oomSP' = IF sp > oomSP THEN sp ELSE oomSP
              /\ granted' = granted
           \/ /\ heapPointer + size <= sp
              /\ granted' = granted \union {b}
              /\ oomSP' = oomSP
    BY <1>2, AllocAtTop
  <2>2. /\ blocks' \in Seq(Block)
        /\ Len(blocks') = n
        /\ DOMAIN blocks' = 1 .. n
        /\ \A i \in 1 .. n : blocks'[i] = IF i = n THEN b ELSE blocks[i]
    BY <2>1, InsertIsAppend
  <2>3. /\ Len(blocks) \in Nat /\ DOMAIN blocks = 1 .. Len(blocks)
        /\ \A i \in 1 .. Len(blocks) : blocks[i] \in Block
    BY ElementOfSeq DEF IInv, TypeOK
  <2>4. /\ size \in Int /\ size > 0 /\ heapPointer \in Int /\ HeapBase \in Int
        /\ oomSP \in Int /\ sp \in Int /\ sp <= StackTop /\ StackTop \in Int
    BY <2>1, LayoutAssumption, StackPtrAssumption, ModulusAssumption, SMT
    DEF Block, Word, IInv, TypeOK, NoSP
  <2>5. TypeOK'
    <3>1. granted' \subseteq Block
      BY <2>1 DEF IInv, TypeOK
    <3>2. oomSP' \in StackPtrs \union {NoSP}
      BY <2>1 DEF IInv, TypeOK
    <3> QED BY <2>1, <2>2, <3>1, <3>2 DEF TypeOK
  <2>6. BlocksTileHeap'
    <3>1. ASSUME NEW i \in 1 .. n
          PROVE  blocks'[i].addr = IF i = 1 THEN HeapBase
                                   ELSE blocks'[i - 1].addr + blocks'[i - 1].size
      <4>1. CASE i = n
        <5>1. CASE n = 1
          <6>1. blocks = <<>>
            BY <5>1, <2>3, EmptySeq, SMT DEF IInv, TypeOK
          <6> QED BY <5>1, <4>1, <2>2, <6>1 DEF IInv, BlocksTileHeap
        <5>2. CASE n # 1
          <6>1. blocks # <<>> /\ n - 1 \in 1 .. n /\ n - 1 # n /\ n - 1 = Len(blocks)
            <7>1. Len(blocks) # 0 /\ n - 1 = Len(blocks)
              BY <5>2, <2>3, SMT
            <7>2. Len(<<>>) = 0
              BY EmptySeq
            <7>3. ASSUME NEW m \in Nat, m # 0
                  PROVE  m \in 1 .. m + 1 /\ m # m + 1
              BY <7>3, SMT
            <7>4. Len(blocks) \in Nat
              BY <2>3
            <7> QED BY <7>1, <7>2, <7>3, <7>4
          <6>2. blocks'[n - 1] = blocks[Len(blocks)]
            BY <6>1, <2>2
          <6>3. heapPointer = blocks[Len(blocks)].addr + blocks[Len(blocks)].size
            BY <6>1 DEF IInv, BlocksTileHeap
          <6> QED BY <4>1, <5>2, <6>2, <6>3, <2>2
        <5> QED BY <5>1, <5>2
      <4>2. CASE i # n
        <5>1. i \in DOMAIN blocks
          BY <4>2, <2>3, SMT
        <5>2. blocks'[i] = blocks[i]
          BY <4>2, <2>2
        <5>3. i # 1 => blocks'[i - 1] = blocks[i - 1]
          BY <4>2, <2>2, <2>3, SMT
        <5> QED BY <5>1, <5>2, <5>3 DEF IInv, BlocksTileHeap
      <4> QED BY <4>1, <4>2
    <3>2. n \in 1 .. n /\ blocks' # <<>>
      BY <2>2, <2>3, EmptySeq, SMT
    <3>3. heapPointer' = blocks'[Len(blocks')].addr + blocks'[Len(blocks')].size
      BY <2>1, <2>2, <3>2
    <3> QED BY <3>1, <3>2, <3>3, <2>2 DEF BlocksTileHeap
  <2>7. HeapBase <= heapPointer' /\ heapPointer' < Half
    BY <1>2, <2>1, <2>4, SMT DEF IInv
  <2>8. ASSUME NEW i \in 1 .. n
        PROVE  /\ HeapBase <= blocks'[i].addr
               /\ blocks'[i].addr + blocks'[i].size <= heapPointer'
    <3>1. CASE i = n
      BY <3>1, <2>1, <2>2, <2>4, SMT DEF IInv
    <3>2. CASE i # n
      <4>1. i \in 1 .. Len(blocks) /\ blocks'[i] = blocks[i]
        BY <3>2, <2>2, <2>3, SMT
      <4>2. HeapBase <= blocks[i].addr /\ blocks[i].addr + blocks[i].size <= heapPointer
        BY <4>1, <2>3 DEF IInv
      <4> QED BY <4>1, <4>2, <2>1, <2>3, <2>4, ModulusAssumption, SMT DEF Block, Word
    <3> QED BY <3>1, <3>2
  <2>9. ASSUME NEW c \in granted'
        PROVE  A!Inside(c) /\ c.addr + c.size <= heapPointer'
    <3>1. CASE c \in granted
      <4>1. c \in Block /\ A!Inside(c) /\ c.addr + c.size <= heapPointer
        BY <3>1 DEF IInv, TypeOK
      <4> QED BY <4>1, <2>1, <2>4, ModulusAssumption, SMT DEF Block, Word
    <3>2. CASE c \notin granted
      <4>1. c = b /\ heapPointer + size <= sp
        BY <3>2, <2>1
      <4> QED BY <4>1, <2>1, <2>4, SMT DEF IInv, A!Inside
    <3> QED BY <3>1, <3>2
  <2>10. oomSP' < heapPointer'
    BY <2>1, <2>4, SMT DEF IInv
  <2> QED BY <2>2, <2>5, <2>6, <2>7, <2>8, <2>9, <2>10 DEF IInv, A!Inside
<1>3. CASE UNCHANGED vars
  BY <1>3 DEF vars, IInv, TypeOK, BlocksTileHeap, A!Inside
<1> QED BY <1>1, <1>2, <1>3 DEF ModestNext

(* IInv is an invariant. *)
LEMMA Invariance == ModestSpec => []IInv
  BY InitIInv, StepIInv, PTL DEF ModestSpec

(* Types, for every instance. *)
THEOREM HeapTypeOK == ModestSpec => []TypeOK
  BY Invariance, PTL DEF IInv

(* The recorded blocks tile the heap, so first fit is a bump allocator.    *)
THEOREM HeapTiled == ModestSpec => []BlocksTileHeap
  BY Invariance, PTL DEF IInv

(* After a failed allocation every later grant ends above the $sp the      *)
(* allocation failed at: a failure is never undone.                        *)
THEOREM HeapFailureIsSticky == ModestSpec => FailureIsSticky
<1>1. IInv /\ [ModestNext]_vars
        => [\A b \in granted' \ granted : b.addr + b.size > oomSP]_vars
  <2> SUFFICES ASSUME IInv, [ModestNext]_vars, NEW c \in granted' \ granted
               PROVE  c.addr + c.size > oomSP
    OBVIOUS
  <2>1. PICK size \in Sizes, sp \in StackPtrs :
          heapPointer + size < Half /\ HeapAlloc(size, sp)
    BY DEF ModestNext, AllocZero, vars
  <2> DEFINE b == [addr |-> heapPointer, size |-> size]
  <2>2. b \in Block /\ c = b
    BY <2>1, AllocAtTop
  <2>3. oomSP \in Int /\ oomSP < heapPointer
    BY StackPtrAssumption, LayoutAssumption, SMT DEF IInv, TypeOK, NoSP
  <2> QED BY <2>2, <2>3, ModulusAssumption, SMT DEF Block, Word
<1> QED BY <1>1, Invariance, PTL DEF ModestSpec, FailureIsSticky

(* The heap implements Arena: what reaches $v0 is inside the heap, below   *)
(* the stack and disjoint from everything granted before.                  *)
THEOREM HeapImplementsArena == ModestSpec => GrantsDisjointBlocks
<1>1. Init => A!ArenaInit
  BY DEF Init, A!ArenaInit
<1>2. IInv /\ IInv' /\ [ModestNext]_vars => [A!ArenaNext]_granted
  <2> SUFFICES ASSUME IInv, IInv', [ModestNext]_vars, granted' # granted
               PROVE  A!ArenaNext
    OBVIOUS
  <2>1. PICK size \in Sizes, sp \in StackPtrs :
          heapPointer + size < Half /\ HeapAlloc(size, sp)
    BY DEF ModestNext, AllocZero, vars
  <2> DEFINE b == [addr |-> heapPointer, size |-> size]
  <2>2. b \in Block /\ granted' = granted \union {b}
    BY <2>1, AllocAtTop
  <2>3. A!Inside(b)
    BY <2>2 DEF IInv
  <2>4. \A c \in granted : A!Disjoint(b, c)
    BY DEF IInv, A!Disjoint
  <2> QED BY <2>2, <2>3, <2>4 DEF A!ArenaNext, A!Grant
<1> QED BY <1>1, <1>2, Invariance, PTL
        DEF ModestSpec, GrantsDisjointBlocks, A!ArenaSpec
=============================================================================
