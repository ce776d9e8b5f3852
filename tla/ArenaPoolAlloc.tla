--------------------------- MODULE ArenaPoolAlloc ---------------------------
(***************************************************************************)
(* The record keeping behind the pools of the hash tables: class           *)
(* ArenaPoolAlloc (src/ArenaContainers.hpp).                               *)
(*                                                                         *)
(* malloc() records each block it gets from the arena; free() looks the    *)
(* block up.  The arena (folly, external) never gives an address twice,    *)
(* since its deallocate() frees nothing.  An access outside ptrStore ends  *)
(* what the model says.                                                    *)
(***************************************************************************)
EXTENDS Integers, FiniteSets

CONSTANTS
    StoreSize,      \* entries of ptrStore (255 in the code)
    MaxMallocs,     \* bound: calls of malloc()
    NoBlock         \* an entry never written

ASSUME StoreNotEmpty  == StoreSize \in Nat \ {0, 1}
ASSUME MallocsBounded == MaxMallocs \in Nat
ASSUME NoBlockIsNone  == NoBlock \notin Nat

VARIABLES
    ptrStore,       \* the block each entry records
    index,          \* where the next block is recorded
    nextAvailPos,   \* the next entry never used
    phase,          \* "running", or "undefined"
    live,           \* history: blocks handed out and not freed
    mallocs,        \* history: calls of malloc(), which number the blocks
    mostLive        \* history: most blocks alive at the same time

vars == <<ptrStore, index, nextAvailPos, phase, live, mallocs, mostLive>>

Entries == 0..(StoreSize - 1)
Blocks  == 1..mallocs

TypeOK ==
    /\ ptrStore \in [Entries -> Nat \cup {NoBlock}]
    /\ index \in Nat /\ nextAvailPos \in Nat
    /\ phase \in {"running", "undefined"}
    /\ mallocs \in Nat /\ mostLive \in Nat
    /\ live \subseteq Blocks

Init ==
    /\ ptrStore = [i \in Entries |-> NoBlock]
    /\ index = 0
    /\ nextAvailPos = 1
    /\ phase = "running"
    /\ live = {} /\ mallocs = 0 /\ mostLive = 0

\* Mutant of Advance: no entry is used again.
AdvanceByOne == index' = nextAvailPos /\ nextAvailPos' = nextAvailPos + 1
\* Where the block after this one is recorded: after a first use of an entry
\* the index stays where it is.
Advance ==
    IF index = nextAvailPos
    THEN UNCHANGED index /\ nextAvailPos' = nextAvailPos + 1
    ELSE index' = nextAvailPos /\ UNCHANGED nextAvailPos

malloc ==
    /\ phase = "running" /\ mallocs < MaxMallocs
    /\ mallocs' = mallocs + 1
    /\ IF index \in Entries
       THEN /\ ptrStore' = [ptrStore EXCEPT ![index] = mallocs + 1]
            /\ live' = live \cup {mallocs + 1}
            /\ Advance
            /\ UNCHANGED phase
       ELSE /\ phase' = "undefined"
            /\ UNCHANGED <<ptrStore, live, index, nextAvailPos>>
    /\ mostLive' = IF Cardinality(live') > mostLive
                   THEN Cardinality(live') ELSE mostLive

Found(block) == {i \in Entries : ptrStore[i] = block}

\* Mutant of Reuse: index is left where it was.
ReuseNothing(i) == UNCHANGED index
\* Mutant of Reuse: the entry before it.
ReuseBefore(i) == index' = i - 1
\* index=loc-begin: the entry of the freed block is the next to be written.
Reuse(i) == index' = i

\* find_if finds the block, or end(), which is read all the same.
free(block) ==
    /\ phase = "running" /\ block \in live
    /\ \/ \E i \in Found(block) :
             /\ Reuse(i)
             /\ live' = live \ {block}
             /\ UNCHANGED phase
       \/ /\ Found(block) = {}
          /\ phase' = "undefined"
          /\ UNCHANGED <<index, live>>
    /\ UNCHANGED <<ptrStore, nextAvailPos, mallocs, mostLive>>

Next == malloc \/ \E block \in live : free(block)

Spec == Init /\ [][Next]_vars

-----------------------------------------------------------------------------
\* Every second malloc() in a row writes over the entry before it; yet as long
\* as there were never three blocks at the same time, none has lost its record.
TwoAreRecorded ==
    phase = "running" /\ mostLive <= 2 =>
        \A block \in live : Found(block) # {}

\* Entries are used up even if blocks are freed, but not faster than one with
\* two calls: without a third block at the same time, an access outside of
\* ptrStore takes two calls of malloc() for each entry.
StoreLasts ==
    phase = "undefined" /\ mostLive <= 2 => mallocs >= 2 * StoreSize
=============================================================================
