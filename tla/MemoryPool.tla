---------------------------- MODULE MemoryPool -----------------------------
(***************************************************************************)
(* memory_pool/memory_pool1.cpp: a stack of free blocks, and users that    *)
(* allocate a block each and return it, as main does: without looking      *)
(* whether they have got one.                                              *)
(***************************************************************************)
EXTENDS Integers, SequencesExt, Programs

CONSTANTS
    Block,      \* the blocks of the pool
    User,       \* who holds what allocate() has returned, until it is returned
    NoBlock     \* nullptr

ASSUME BlockNames == IsFiniteSet(Block) /\ NoBlock \notin Block /\ "none" \notin Block

VARIABLES
    freeList,   \* the free blocks, the next one last
    block,      \* block[u]: what user u holds, or "none"
    destroyed   \* whether the pool is gone

poolVars == <<freeList, block, destroyed>>

PoolTypeOK ==
    /\ freeList \in Seq(Block \cup {NoBlock})
    /\ block \in [User -> Block \cup {NoBlock, "none"}]
    /\ destroyed \in BOOLEAN

PoolInit ==
    /\ freeList = SetToSeq(Block)
    /\ block = [u \in User |-> "none"]
    /\ destroyed = FALSE

\* Mutant of AllocateBlock: the block stays on the list.
AllocateTop(u) ==
    /\ ~destroyed /\ block[u] = "none"
    /\ block' = [block EXCEPT ![u] = IF freeList = <<>> THEN NoBlock ELSE Last(freeList)]
    /\ UNCHANGED <<freeList, destroyed>>

AllocateBlock(u) ==
    /\ ~destroyed /\ block[u] = "none"
    /\ block' = [block EXCEPT ![u] = IF freeList = <<>> THEN NoBlock ELSE Last(freeList)]
    /\ freeList' = IF freeList = <<>> THEN freeList ELSE Front(freeList)
    /\ UNCHANGED destroyed

\* Whatever it is: a null pointer goes on the list, and is handed out before the
\* blocks below it.
Deallocate(u) ==
    /\ ~destroyed /\ block[u] # "none"
    /\ freeList' = Append(freeList, block[u])
    /\ block' = [block EXCEPT ![u] = "none"]
    /\ UNCHANGED destroyed

DestroyPool == /\ ~destroyed
               /\ destroyed' = TRUE
               /\ freeList' = <<>>
               /\ UNCHANGED block

PoolNext == /\ program = "memory_pool1"
            /\ \/ DestroyPool
               \/ \E u \in User : AllocateBlock(u) \/ Deallocate(u)

----------------------------------------------------------------------------
\* A block is in one place, on the list or with one user, also when users who got no
\* block have returned their null pointers.
BlockHeldOnce ==
    ~destroyed =>
        \A b \in Block :
            Cardinality({u \in User : block[u] = b})
                + Cardinality({k \in DOMAIN freeList : freeList[k] = b}) = 1
===========================================================================
