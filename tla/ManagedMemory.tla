---------------------------- MODULE ManagedMemory ---------------------------
(***************************************************************************)
(* The managed memory of proj/common/mmem.c: blocks of any size from one   *)
(* array, in the order of their allocation and with no gap between them,   *)
(* so that a free moves what lies behind it.  The list of the blocks is    *)
(* the one of proj/common/list.c.                                          *)
(*                                                                         *)
(* Who has a block writes its bytes when it gets it; a block is allocated  *)
(* and freed in turn.                                                      *)
(***************************************************************************)
EXTENDS Naturals, Sequences

CONSTANTS MMEM_SIZE, MmBlocks, MmSizes
ASSUME MmAssumption == MMEM_SIZE \in Nat /\ MmSizes \subseteq Nat

VARIABLES
  mmemlist,
  mm_ptr, mm_size,  \* the fields of each block
  avail_memory,
  mm_memory         \* what each byte holds: the block that wrote it, and where in the block

mmVars == <<mmemlist, mm_ptr, mm_size, avail_memory, mm_memory>>

MmBytes == 0..MMEM_SIZE - 1
MmListed == {mmemlist[i] : i \in DOMAIN mmemlist}
MmPut(m) == {i \in DOMAIN mmemlist : mmemlist[i] = m}
MmTop == MMEM_SIZE - avail_memory

(* Type invariant; a block is on the list at most once.                    *)
MmTypeOK ==
  /\ mmemlist \in Seq(MmBlocks)
  /\ \A i, j \in DOMAIN mmemlist : mmemlist[i] = mmemlist[j] => i = j
  /\ mm_ptr \in [MmBlocks -> 0..MMEM_SIZE] /\ mm_size \in [MmBlocks -> 0..MMEM_SIZE]
  /\ avail_memory \in 0..MMEM_SIZE
  /\ mm_memory \in [MmBytes -> (MmBlocks \X MmBytes) \cup {<<>>}]

\* mmem_init
MmInit ==
  /\ mmemlist = <<>>
  /\ mm_ptr = [m \in MmBlocks |-> 0] /\ mm_size = [m \in MmBlocks |-> 0]
  /\ avail_memory = MMEM_SIZE
  /\ mm_memory = [x \in MmBytes |-> <<>>]

-----------------------------------------------------------------------------
MmEnough(size) == size <= avail_memory

\* list_tail and list_add
ListAdd(list, m) == Append(list, m)
\* list_remove, when the walk along the list has come to place i.
ListRemove(list, i) == [k \in 1..Len(list) - 1 |-> IF k < i THEN list[k] ELSE list[k + 1]]

\* mmem_alloc, and the first use of the block.
mmem_alloc(m, size) ==
  /\ m \notin MmListed /\ MmEnough(size)
  /\ mmemlist' = ListAdd(mmemlist, m)
  /\ mm_ptr' = [mm_ptr EXCEPT ![m] = MmTop]
  /\ mm_size' = [mm_size EXCEPT ![m] = size]
  /\ avail_memory' = avail_memory - size
  /\ mm_memory' = [x \in MmBytes |-> IF x \in MmTop..MmTop + size - 1
                                     THEN <<m, x - MmTop>> ELSE mm_memory[x]]

\* Mutant of MmMoved: as many bytes as the freed block has.
MmMovedSize(m, n) == mm_size[m]
\* The bytes behind block m, from the next block n on.
MmMoved(m, n) == MmTop - mm_ptr[n]

\* Mutant of MmBehind: only the next block is moved.
MmBehindNext(m) == {mmemlist[i + 1] : i \in {j \in MmPut(m) : j < Len(mmemlist)}}
\* The blocks after m on the list.
MmBehind(m) == {mmemlist[i] : i \in {j \in DOMAIN mmemlist : \E k \in MmPut(m) : k < j}}

\* mmem_free
mmem_free(m) == \E i \in MmPut(m) :
  /\ IF i = Len(mmemlist) THEN UNCHANGED <<mm_memory, mm_ptr>>
     ELSE LET n == mmemlist[i + 1]
              up == mm_ptr[n] - mm_ptr[m]
          IN /\ mm_memory' = [x \in MmBytes |->
                                IF x \in mm_ptr[m]..mm_ptr[m] + MmMoved(m, n) - 1
                                THEN mm_memory[x + up] ELSE mm_memory[x]]
             /\ mm_ptr' = [b \in MmBlocks |-> IF b \in MmBehind(m)
                                             THEN mm_ptr[b] - mm_size[m] ELSE mm_ptr[b]]
  /\ avail_memory' = avail_memory + mm_size[m]
  /\ mmemlist' = ListRemove(mmemlist, i)
  /\ UNCHANGED mm_size

MmNext == \E m \in MmBlocks : mmem_free(m) \/ \E size \in MmSizes : mmem_alloc(m, size)

MmSpec == MmInit /\ [][MmNext]_mmVars

-----------------------------------------------------------------------------
(* Every block keeps its bytes, wherever they are moved to, however often  *)
(* blocks before it are freed and others allocated (mmem_free moves the    *)
(* bytes and the pointers in two steps of its own).                        *)
MmKeeps ==
  \A m \in MmListed : \A k \in 0..mm_size[m] - 1 :
    mm_ptr[m] + k \in MmBytes /\ mm_memory[mm_ptr[m] + k] = <<m, k>>
=============================================================================
