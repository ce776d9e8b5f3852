------------------------ MODULE ArenaPoolAllocProofs ------------------------
(***************************************************************************)
(* As long as there are no three blocks at the same time, ArenaPoolAlloc   *)
(* keeps its records, whatever the size of its store.                      *)
(***************************************************************************)
EXTENDS ArenaPoolAlloc, FiniteSetTheorems, TLAPS

\* Only entries below nextAvailPos are written; the next entry to be written
\* exists, unless it is the first that never was; and a new entry is only
\* taken after two calls of malloc.
Positions ==
    /\ nextAvailPos >= 1 /\ index <= nextAvailPos
    /\ index < nextAvailPos => index \in Entries
    /\ \A i \in Entries : i >= nextAvailPos => ptrStore[i] = NoBlock
    /\ mallocs >= 2 * (nextAvailPos - 1)
    /\ index = nextAvailPos => mallocs >= 2 * (nextAvailPos - 1) + 1

\* Every block has its record.  A new entry is only next right after a block
\* was handed out, and an entry in use is only next if there are two blocks:
\* it is not written before one of them is freed.
Records ==
    /\ \A block \in live : Found(block) # {}
    /\ index = nextAvailPos => live # {}
    /\ index \in Entries /\ index < nextAvailPos /\ ptrStore[index] \in live =>
            Cardinality(live) >= 2

\* The inductive invariant.
PoolInv ==
    /\ TypeOK
    /\ IsFiniteSet(live) /\ Cardinality(live) <= mostLive
    /\ phase = "running" => Positions
    /\ phase = "running" /\ mostLive <= 2 => Records
    /\ StoreLasts

\* A new pool has the invariant.
LEMMA InitInv == Init => PoolInv
  <1> SUFFICES ASSUME Init PROVE PoolInv
    OBVIOUS
  <1>1. IsFiniteSet(live) /\ Cardinality(live) = 0
    BY FS_EmptySet DEF Init
  <1>2. 0 \in Entries
    BY StoreNotEmpty DEF Entries
  <1>3. TypeOK
    BY DEF Init, TypeOK, Blocks
  <1>4. Positions /\ Records
    BY <1>2, StoreNotEmpty DEF Init, Positions, Records, Entries
  <1> QED
    BY <1>1, <1>3, <1>4 DEF PoolInv, StoreLasts, Init

\* A block handed out is a new one.
LEMMA OneMore ==
    ASSUME PoolInv, NEW block, block = mallocs + 1
    PROVE  /\ IsFiniteSet(live \cup {block}) /\ block \notin live
           /\ Cardinality(live \cup {block}) = Cardinality(live) + 1
           /\ Cardinality(live) \in Nat
  <1>1. block \notin live
    BY DEF PoolInv, TypeOK, Blocks
  <1> QED
    BY <1>1, FS_AddElement, FS_CardinalityType DEF PoolInv

\* malloc() keeps it: what it writes over is no live block's record.
LEMMA MallocInv == PoolInv /\ malloc => PoolInv'
  <1> SUFFICES ASSUME PoolInv, malloc PROVE PoolInv'
    OBVIOUS
  <1> DEFINE block == mallocs + 1
  <1> USE DEF PoolInv
  <1>1. phase = "running" /\ TypeOK /\ Positions /\ mallocs' = block
    BY DEF malloc
  <1>2. /\ IsFiniteSet(live \cup {block}) /\ block \notin live
        /\ Cardinality(live \cup {block}) = Cardinality(live) + 1
        /\ Cardinality(live) \in Nat
    BY OneMore
  <1>3. mostLive' \in Nat /\ mostLive <= mostLive' /\ Cardinality(live') <= mostLive'
        /\ IsFiniteSet(live')
    <2>1. live' = live \/ live' = live \cup {block}
      BY DEF malloc
    <2>2. IsFiniteSet(live') /\ Cardinality(live') \in Nat
      <3>1. IsFiniteSet(live')
        BY <1>2, <2>1, Zenon
      <3> QED
        BY <3>1, FS_CardinalityType
    <2>3. mostLive' = IF Cardinality(live') > mostLive
                      THEN Cardinality(live') ELSE mostLive
      BY DEF malloc
    <2>4. mostLive \in Nat
      BY DEF TypeOK
    <2> QED
      BY <2>2, <2>3, <2>4
  <1>4. CASE index \in Entries
    <2>1. /\ ptrStore' = [ptrStore EXCEPT ![index] = block]
          /\ live' = live \cup {block} /\ phase' = phase /\ Advance
      BY <1>4 DEF malloc
    <2>2. TypeOK'
      <3>1. ptrStore' \in [Entries -> Nat \cup {NoBlock}]
        <4>1. ptrStore \in [Entries -> Nat \cup {NoBlock}] /\ block \in Nat
          BY <1>1 DEF TypeOK
        <4> HIDE DEF block
        <4> QED
          BY <2>1, <4>1
      <3>2. index' \in Nat /\ nextAvailPos' \in Nat
        BY <1>1, <2>1 DEF TypeOK, Advance
      <3>3. mallocs' \in Nat /\ live' \subseteq 1..mallocs'
        BY <1>1, <2>1 DEF TypeOK, Blocks
      <3> QED
        BY <1>1, <1>3, <2>1, <3>1, <3>2, <3>3 DEF TypeOK, Blocks
    <2>3. Positions'
      <3>1. /\ index \in Nat /\ nextAvailPos \in Nat /\ mallocs \in Nat
            /\ ptrStore \in [Entries -> Nat \cup {NoBlock}]
        BY <1>1 DEF TypeOK
      <3>2. CASE index = nextAvailPos
        <4>1. index' = index /\ nextAvailPos' = nextAvailPos + 1
          BY <2>1, <3>2 DEF Advance
        <4>2. \A i \in Entries : i >= nextAvailPos' => ptrStore'[i] = NoBlock
          BY <1>1, <2>1, <3>1, <3>2, <4>1, StoreNotEmpty DEF Positions, Entries
        <4> QED
          BY <1>1, <1>4, <3>1, <3>2, <4>1, <4>2 DEF Positions
      <3>3. CASE index # nextAvailPos
        <4>1. index' = nextAvailPos /\ nextAvailPos' = nextAvailPos
          BY <2>1, <3>3 DEF Advance
        <4>2. \A i \in Entries : i >= nextAvailPos' => ptrStore'[i] = NoBlock
          BY <1>1, <2>1, <3>1, <3>3, <4>1, StoreNotEmpty DEF Positions, Entries
        <4> QED
          BY <1>1, <3>1, <4>1, <4>2 DEF Positions
      <3> QED
        BY <3>2, <3>3
    <2>4. ASSUME mostLive' <= 2 PROVE Records'
      <3>1. Records /\ Cardinality(live) <= 1
        BY <1>1, <1>2, <1>3, <2>1, <2>4 DEF TypeOK
      <3>2. ptrStore[index] \notin live
        <4>1. CASE index = nextAvailPos
          <5>1. index \in Nat /\ ptrStore[index] = NoBlock
            BY <1>1, <1>4, <4>1 DEF Positions, TypeOK
          <5>2. live \subseteq Nat
            BY <1>1 DEF TypeOK, Blocks
          <5> QED
            BY <5>1, <5>2, NoBlockIsNone
        <4>2. CASE index # nextAvailPos
          BY <1>1, <1>2, <1>4, <3>1, <4>2 DEF Positions, Records, TypeOK
        <4> QED
          BY <4>1, <4>2
      <3>3. ASSUME NEW b \in live' PROVE Found(b)' # {}
        <4>1. CASE b = block
          <5>1. ptrStore'[index] = block
            BY <1>1, <1>4, <2>1 DEF TypeOK
          <5> QED
            BY <1>4, <4>1, <5>1 DEF Found
        <4>2. CASE b \in live
          <5>1. PICK i \in Entries : ptrStore[i] = b
            BY <3>1, <4>2 DEF Records, Found
          <5>2. i # index
            BY <3>2, <4>2, <5>1
          <5>3. ptrStore'[i] = b
            BY <1>1, <2>1, <5>1, <5>2 DEF TypeOK
          <5> QED
            BY <5>3 DEF Found
        <4> QED
          BY <2>1, <3>3, <4>1, <4>2
      <3>4. index' = nextAvailPos' => live' # {}
        BY <2>1
      <3>5. index' < nextAvailPos' => Cardinality(live') >= 2
        <4>1. CASE index = nextAvailPos
          <5>1. live # {}
            BY <3>1, <4>1 DEF Records
          <5>2. Cardinality(live) # 0
            BY <5>1, FS_EmptySet
          <5> QED
            BY <1>2, <2>1, <5>2
        <4>2. CASE index # nextAvailPos
          BY <1>1, <2>1, <4>2 DEF Advance, TypeOK
        <4> QED
          BY <4>1, <4>2
      <3> QED
        BY <3>3, <3>4, <3>5 DEF Records
    <2>5. StoreLasts'
      BY <1>1, <2>1 DEF StoreLasts
    <2> QED
      BY <1>3, <2>2, <2>3, <2>4, <2>5
  <1>5. CASE index \notin Entries
    <2>1. phase' = "undefined" /\ UNCHANGED <<ptrStore, live, index, nextAvailPos>>
      BY <1>5 DEF malloc
    <2>2. TypeOK'
      BY <1>1, <1>3, <2>1 DEF TypeOK, Blocks
    <2>3. index = nextAvailPos /\ index >= StoreSize
      BY <1>1, <1>5, StoreNotEmpty DEF Positions, TypeOK, Entries
    <2>4. mallocs' >= 2 * StoreSize
      BY <1>1, <2>3, StoreNotEmpty DEF Positions, TypeOK
    <2> QED
      BY <1>3, <2>1, <2>2, <2>4 DEF StoreLasts
  <1> QED
    BY <1>4, <1>5

\* free() keeps it: the entry it frees is the next to be written.
LEMMA FreeInv == ASSUME PoolInv, NEW block \in live, free(block) PROVE PoolInv'
  <1> USE DEF PoolInv
  <1>1. /\ phase = "running" /\ TypeOK /\ Positions
        /\ UNCHANGED <<ptrStore, nextAvailPos, mallocs, mostLive>>
    BY DEF free
  <1>2. CASE Found(block) # {}
    <2>1. PICK i \in Found(block) :
             index' = i /\ live' = live \ {block} /\ phase' = phase
      BY <1>2 DEF free, Reuse
    <2>2. i \in Entries /\ ptrStore[i] = block /\ block \in Nat
      BY <1>1, <2>1 DEF Found, TypeOK, Blocks
    <2>3. i < nextAvailPos
      BY <1>1, <2>2, NoBlockIsNone, StoreNotEmpty DEF Positions, TypeOK, Entries
    <2>4. /\ IsFiniteSet(live') /\ Cardinality(live') = Cardinality(live) - 1
          /\ Cardinality(live) \in Nat
      BY <2>1, FS_RemoveElement, FS_CardinalityType
    <2>5. TypeOK'
      BY <1>1, <2>1, <2>2, StoreNotEmpty DEF TypeOK, Blocks, Entries
    <2>6. Positions'
      <3>1. index' \in Nat /\ index' < nextAvailPos' /\ index' \in Entries
        BY <1>1, <2>1, <2>2, <2>3, StoreNotEmpty DEF Entries
      <3>2. nextAvailPos \in Nat
        BY <1>1 DEF TypeOK
      <3> QED
        BY <1>1, <2>1, <3>1, <3>2 DEF Positions
    <2>7. ASSUME mostLive' <= 2 PROVE Records'
      <3>1. Records
        BY <1>1, <2>7
      <3>2. \A b \in live' : Found(b)' # {}
        BY <1>1, <2>1, <3>1 DEF Records, Found
      <3>3. index' # nextAvailPos' /\ ptrStore'[index'] \notin live'
        BY <1>1, <2>1, <2>2, <2>3 DEF TypeOK, Entries
      <3> QED
        BY <3>2, <3>3 DEF Records
    <2>8. StoreLasts'
      BY <1>1, <2>1 DEF StoreLasts
    <2>9. Cardinality(live') <= mostLive'
      BY <1>1, <2>4 DEF TypeOK
    <2> QED
      BY <2>4, <2>5, <2>6, <2>7, <2>8, <2>9
  <1>3. CASE Found(block) = {}
    <2>1. phase' = "undefined" /\ UNCHANGED <<index, live>>
      BY <1>3 DEF free
    <2>2. ~(mostLive <= 2)
      BY <1>1, <1>3 DEF Records
    <2>3. TypeOK'
      BY <1>1, <2>1 DEF TypeOK, Blocks
    <2> QED
      BY <1>1, <2>1, <2>2, <2>3 DEF StoreLasts
  <1> QED
    BY <1>2, <1>3

\* The record keeping of malloc() and free() has the invariant at all times.
THEOREM PoolInvHolds == Spec => []PoolInv
  <1>1. PoolInv /\ [Next]_vars => PoolInv'
    <2> SUFFICES ASSUME PoolInv, [Next]_vars PROVE PoolInv'
      OBVIOUS
    <2>1. CASE malloc
      BY <2>1, MallocInv
    <2>2. CASE \E block \in live : free(block)
      BY <2>2, FreeInv
    <2>3. CASE UNCHANGED vars
      BY <2>3 DEF vars, PoolInv, TypeOK, Positions, Records, StoreLasts, Blocks, Found
    <2> QED
      BY <2>1, <2>2, <2>3 DEF Next
  <1> QED
    BY <1>1, InitInv, PTL DEF Spec

\* Every variable of ArenaPoolAlloc keeps its type.
THEOREM PoolTypeCorrect == Spec => []TypeOK
  <1>1. PoolInv => TypeOK
    BY DEF PoolInv
  <1> QED
    BY <1>1, PoolInvHolds, PTL

\* As long as there were never three blocks, free() finds the block it frees.
THEOREM TwoAreRecordedHolds == Spec => []TwoAreRecorded
  <1>1. PoolInv => TwoAreRecorded
    BY DEF PoolInv, Records, TwoAreRecorded
  <1> QED
    BY <1>1, PoolInvHolds, PTL

\* As long as there were never three blocks, the store of ArenaPoolAlloc takes
\* two calls of malloc() for each of its entries.
THEOREM StoreLastsHolds == Spec => []StoreLasts
  <1>1. PoolInv => StoreLasts
    BY DEF PoolInv
  <1> QED
    BY <1>1, PoolInvHolds, PTL
=============================================================================
