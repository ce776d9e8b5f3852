-------------------------- MODULE StrHashTableProofs --------------------------
(***************************************************************************)
(* For every size, every chain length and every hash function: the table   *)
(* keeps what isValidState() vouches for, and implements StringMap.        *)
(***************************************************************************)
EXTENDS StrHashTable, WellFoundedInduction, TLAPS

\* An unmarked chain was never written.
EmptyIfUnmarked ==
    \A h \in Indices : ~marked[h] =>
        counts[h] = 0 /\ buckets[h][0].key = NoKey

\* The counted buckets of a marked chain hold keys that belong there.
ChainsHoldOffered ==
    \A h \in Indices : marked[h] =>
        \A i \in 0..counts[h] :
            buckets[h][i].key \in offered /\ IndexOf(buckets[h][i].key) = h

\* While the table is valid, each offered key has a bucket.
OfferedIsStored ==
    isValidState /\ phase # "undefined" =>
        \A key \in offered :
            /\ IndexOf(key) \in Indices
            /\ marked[IndexOf(key)]
            /\ \E i \in 0..counts[IndexOf(key)] : buckets[IndexOf(key)][i].key = key

IInv == TypeOK /\ EmptyIfUnmarked /\ ChainsHoldOffered /\ OfferedIsStored

-----------------------------------------------------------------------------
\* A set of naturals that is not empty has a least element.
LEMMA MinIsLeast ==
    ASSUME NEW S \in SUBSET Nat, S # {}
    PROVE  Min(S) \in S /\ \A j \in S : Min(S) <= j
<1>1. PICK x \in S : \A y \in S : ~ (<<y, x>> \in OpToRel(<, Nat))
    BY NatLessThanWellFounded, WFMin
<1>2. \A y \in S : ~ (y < x)
    BY <1>1, Zenon DEF OpToRel
<1>3. \A y \in S : x <= y
    BY <1>2
<1> QED
    BY <1>3, Zenon DEF Min

\* An index is a natural number.
LEMMA IndexIsNat ==
    ASSUME NEW key \in Keys
    PROVE  IndexOf(key) \in Nat
<1> DEFINE scaled == Hash[key] * Size
<1>1. scaled \in Nat
    BY HashTyped, SizesArePositive
<1> HIDE DEF scaled
<1>2. scaled \div MaxHash \in Nat
    BY <1>1, HashTyped
<1> QED
    BY <1>2 DEF scaled, IndexOf

\* A key is a prefix of itself.
LEMMA PrefixOfItself ==
    ASSUME NEW key \in Keys
    PROVE  IsPrefixOf(key, key)
<1>1. key \in Seq(Chars)
    BY KeysAreText
<1> QED
    BY <1>1 DEF IsPrefixOf

\* Only the empty key is a prefix of the empty key.
LEMMA NoPrefixOfNoKey ==
    ASSUME NEW key \in Asked
    PROVE  ~ IsPrefixOf(key, NoKey)
<1>1. key \in Seq(Chars) /\ key # <<>>
    BY KeysAreText DEF Asked, NoKey
<1>2. Len(key) > 0
    BY <1>1
<1> QED
    BY <1>1, <1>2 DEF IsPrefixOf, NoKey

\* Names become keys.
LEMMA NamesGiveKeys ==
    ASSUME NEW name \in Names
    PROVE  RemSpaces(name) \in Keys
BY DEF Keys

-----------------------------------------------------------------------------
(***************************************************************************)
(* What filling changes, and what it leaves.                               *)
(***************************************************************************)
LEMMA InitIsInv == Init => IInv
BY SizesArePositive
   DEF Init, IInv, TypeOK, EmptyIfUnmarked, ChainsHoldOffered, OfferedIsStored,
       Indices, Places, Bucket, NoBucket, NoKey

\* A key that fits is written into a place that exists, nothing else changes.
LEMMA WhereItGoes ==
    ASSUME TypeOK, NEW key \in Keys, NEW value \in Values,
           StoreInChain(key, value)
    PROVE  LET h == IndexOf(key)
               n == NextPlace(h)
           IN  /\ h \in Indices /\ n \in Places
               /\ n = IF marked[h] THEN counts[h] + 1 ELSE 0
               /\ counts' \in [Indices -> Places] /\ marked' \in [Indices -> BOOLEAN]
               /\ buckets' \in [Indices -> [Places -> Bucket]]
               /\ counts'[h] = n /\ marked'[h]
               /\ \A g \in Indices \ {h} : counts'[g] = counts[g] /\ marked'[g] = marked[g]
                                           /\ buckets'[g] = buckets[g]
               /\ buckets'[h][n] = [key |-> key, value |-> value]
               /\ \A i \in Places \ {n} : buckets'[h][i] = buckets[h][i]
<1> DEFINE h == IndexOf(key)
           n == NextPlace(h)
           new == [key |-> key, value |-> value]
<1>1. h \in Nat
    BY IndexIsNat
<1>2. h < Size /\ n < ChainSize
    BY DEF StoreInChain, Fits
<1>3. h \in Indices
    BY <1>1, <1>2, SizesArePositive DEF Indices
<1>4. n = IF marked[h] THEN counts[h] + 1 ELSE 0
    BY DEF NextPlace
<1>5. counts[h] \in Nat
    BY <1>3 DEF TypeOK, Places
<1>6. n \in Places
    BY <1>2, <1>4, <1>5, SizesArePositive DEF Places
<1>7. new \in Bucket
    BY DEF Bucket
<1>8. /\ buckets' = [buckets EXCEPT ![h][n] = new]
      /\ counts' = [counts EXCEPT ![h] = n]
      /\ marked' = [marked EXCEPT ![h] = TRUE]
    BY DEF StoreInChain
<1> HIDE DEF h, n, new
<1>9. /\ counts' \in [Indices -> Places] /\ marked' \in [Indices -> BOOLEAN]
      /\ buckets' \in [Indices -> [Places -> Bucket]]
    BY <1>3, <1>6, <1>7, <1>8 DEF TypeOK
<1>10. /\ counts'[h] = n /\ marked'[h]
       /\ \A g \in Indices \ {h} : counts'[g] = counts[g] /\ marked'[g] = marked[g]
                                   /\ buckets'[g] = buckets[g]
    BY <1>3, <1>8 DEF TypeOK
<1>11. /\ buckets'[h][n] = new
       /\ \A i \in Places \ {n} : buckets'[h][i] = buckets[h][i]
    BY <1>3, <1>6, <1>8 DEF TypeOK
<1> QED
    BY <1>3, <1>4, <1>6, <1>9, <1>10, <1>11 DEF h, n, new

\* The chains keep their shape when a key is stored.
LEMMA StoreKeepsChains ==
    ASSUME IInv, NEW key \in Keys, NEW value \in Values,
           StoreInChain(key, value), offered' = offered \cup {key}
    PROVE  EmptyIfUnmarked' /\ ChainsHoldOffered'
<1> DEFINE h == IndexOf(key)
           n == NextPlace(h)
<1>1. /\ h \in Indices /\ n \in Places
      /\ n = IF marked[h] THEN counts[h] + 1 ELSE 0
      /\ counts'[h] = n /\ marked'[h]
      /\ \A g \in Indices \ {h} : counts'[g] = counts[g] /\ marked'[g] = marked[g]
                                  /\ buckets'[g] = buckets[g]
      /\ buckets'[h][n] = [key |-> key, value |-> value]
      /\ \A i \in Places \ {n} : buckets'[h][i] = buckets[h][i]
    BY WhereItGoes DEF IInv
<1>2. IndexOf(key) = h
    OBVIOUS
<1> HIDE DEF h, n
<1>3. EmptyIfUnmarked'
    BY <1>1 DEF IInv, EmptyIfUnmarked
<1>4. ASSUME NEW g \in Indices, marked'[g], NEW i \in 0..counts'[g]
      PROVE  buckets'[g][i].key \in offered' /\ IndexOf(buckets'[g][i].key) = g
    <2>1. CASE g # h
        BY <1>1, <1>4, <2>1 DEF IInv, ChainsHoldOffered
    <2>2. CASE g = h /\ i = n
        BY <1>1, <1>2, <2>2
    <2>3. CASE g = h /\ i # n
        <3>1. counts[h] \in Places /\ counts[h] \in Nat
            BY <1>1 DEF IInv, TypeOK, Places
        <3>2. i \in 0..n /\ n \in Nat /\ i \in Places
            BY <1>1, <1>4, <2>3, SizesArePositive DEF Places
        <3>3. marked[h] /\ i \in 0..counts[h]
            BY <1>1, <2>3, <3>1, <3>2
        <3>4. buckets[h][i].key \in offered /\ IndexOf(buckets[h][i].key) = h
            BY <1>1, <3>3 DEF IInv, ChainsHoldOffered
        <3> QED
            BY <1>1, <2>3, <3>2, <3>4
    <2> QED
        BY <2>1, <2>2, <2>3
<1>5. ChainsHoldOffered'
    BY <1>4 DEF ChainsHoldOffered, Indices, IndexOf
<1> QED
    BY <1>3, <1>5

\* A key that is stored has a bucket, and those that had one keep it.
LEMMA StoreKeepsOffered ==
    ASSUME IInv, NEW key \in Keys, NEW value \in Values,
           StoreInChain(key, value), NEW k \in offered \cup {key},
           k # key => /\ IndexOf(k) \in Indices /\ marked[IndexOf(k)]
                      /\ \E i \in 0..counts[IndexOf(k)] : buckets[IndexOf(k)][i].key = k
    PROVE  /\ IndexOf(k) \in Indices /\ marked'[IndexOf(k)]
           /\ \E i \in 0..counts'[IndexOf(k)] : buckets'[IndexOf(k)][i].key = k
<1> DEFINE h == IndexOf(key)
           n == NextPlace(h)
           g == IndexOf(k)
<1>1. /\ h \in Indices /\ n \in Places
      /\ n = IF marked[h] THEN counts[h] + 1 ELSE 0
      /\ counts'[h] = n /\ marked'[h]
      /\ \A j \in Indices \ {h} : counts'[j] = counts[j] /\ marked'[j] = marked[j]
                                  /\ buckets'[j] = buckets[j]
      /\ buckets'[h][n] = [key |-> key, value |-> value]
      /\ \A i \in Places \ {n} : buckets'[h][i] = buckets[h][i]
    BY WhereItGoes DEF IInv
<1>2. n \in 0..n
    BY <1>1 DEF Places
<1>3. k = key => g = h
    OBVIOUS
<1>4. k # key => /\ g \in Indices /\ marked[g]
                 /\ \E i \in 0..counts[g] : buckets[g][i].key = k
    OBVIOUS
<1> HIDE DEF h, n, g
<1>5. CASE k = key
    BY <1>1, <1>2, <1>3, <1>5 DEF h, g
<1>6. CASE k # key /\ g # h
    BY <1>1, <1>4, <1>6 DEF g
<1>7. CASE k # key /\ g = h
    <2>1. PICK i \in 0..counts[h] : buckets[h][i].key = k
        BY <1>4, <1>7
    <2>2. counts[h] \in Nat /\ n = counts[h] + 1
        BY <1>1, <1>4, <1>7 DEF IInv, TypeOK, Places
    <2>3. i \in Places /\ i # n /\ i \in 0..n
        BY <1>1, <2>1, <2>2, SizesArePositive DEF Places
    <2>4. buckets'[h][i].key = k
        BY <1>1, <2>1, <2>3
    <2> QED
        BY <1>1, <1>7, <2>3, <2>4 DEF g
<1> QED
    BY <1>5, <1>6, <1>7

\* Taking one pair, whether in setup() or in add().
LEMMA InsertKeepsInv ==
    ASSUME IInv, NEW key \in Keys, NEW value \in Values,
           phase # "undefined", CountOffer(key), Insert(key, value),
           phase = "setup" => bucketCount < Size
    PROVE  IInv'
<1>1. bucketCount \in Nat /\ bucketCount' = bucketCount + 1 /\ offered' = offered \cup {key}
    BY DEF CountOffer, IInv, TypeOK
<1>2. CASE WritePastArray(key)
    <2>1. TypeOK'
        BY <1>1, <1>2 DEF WritePastArray, IInv, TypeOK
    <2>2. EmptyIfUnmarked' /\ ChainsHoldOffered'
        BY <1>1, <1>2 DEF WritePastArray, IInv, EmptyIfUnmarked, ChainsHoldOffered, IndexOf
    <2>3. OfferedIsStored'
        BY <1>2 DEF WritePastArray, OfferedIsStored
    <2> QED
        BY <2>1, <2>2, <2>3 DEF IInv
<1>3. CASE StoreInChain(key, value) /\ UNCHANGED phase
    <2>1. TypeOK'
        <3>1. TypeOK
            BY DEF IInv
        <3>2. /\ counts' \in [Indices -> Places] /\ marked' \in [Indices -> BOOLEAN]
              /\ buckets' \in [Indices -> [Places -> Bucket]]
            BY <1>3, <3>1, WhereItGoes
        <3> QED
            BY <1>1, <1>3, <3>1, <3>2 DEF TypeOK
    <2>2. EmptyIfUnmarked' /\ ChainsHoldOffered'
        BY <1>1, <1>3, StoreKeepsChains
    <2>3. ASSUME isValidState', phase' # "undefined", NEW k \in offered'
          PROVE  /\ IndexOf(k) \in Indices /\ marked'[IndexOf(k)]
                 /\ \E i \in 0..counts'[IndexOf(k)] : buckets'[IndexOf(k)][i].key = k
        <3>1. isValidState
            BY <1>1, <2>3, SizesArePositive DEF isValidState
        <3>2. k # key => /\ IndexOf(k) \in Indices /\ marked[IndexOf(k)]
                         /\ \E i \in 0..counts[IndexOf(k)] : buckets[IndexOf(k)][i].key = k
            BY <1>1, <2>3, <3>1 DEF IInv, OfferedIsStored
        <3> QED
            BY <1>1, <1>3, <2>3, <3>2, StoreKeepsOffered
    <2>4. OfferedIsStored'
        BY <2>3 DEF OfferedIsStored, IndexOf, Indices
    <2> QED
        BY <2>1, <2>2, <2>4 DEF IInv
<1> QED
    BY <1>2, <1>3 DEF Insert

\* A key that add() drops makes the table invalid, and changes nothing else.
LEMMA DropKeepsInv ==
    ASSUME IInv, NEW key \in Keys, CountOffer(key), bucketCount + 1 >= Size,
           UNCHANGED <<phase, buckets, counts, marked>>
    PROVE  IInv'
<1>1. bucketCount \in Nat /\ bucketCount' = bucketCount + 1 /\ offered' = offered \cup {key}
    BY DEF CountOffer, IInv, TypeOK
<1>2. TypeOK'
    BY <1>1 DEF IInv, TypeOK
<1>3. EmptyIfUnmarked' /\ ChainsHoldOffered'
    BY <1>1 DEF IInv, EmptyIfUnmarked, ChainsHoldOffered, IndexOf
<1>4. ~ isValidState'
    BY <1>1, SizesArePositive DEF isValidState
<1> QED
    BY <1>2, <1>3, <1>4 DEF IInv, OfferedIsStored

\* Every step keeps the invariant.
LEMMA NextKeepsInv == IInv /\ [Next]_vars => IInv'
<1> SUFFICES ASSUME IInv, [Next]_vars PROVE IInv'
    OBVIOUS
<1>1. ASSUME NEW name \in Names, NEW value \in Values, SetupTurn(name, value)
      PROVE  IInv'
    BY <1>1, NamesGiveKeys, InsertKeepsInv DEF SetupTurn
<1>2. ASSUME NEW name \in Names, NEW value \in Values, Add(name, value)
      PROVE  IInv'
    <2> DEFINE key == RemSpaces(name)
    <2>1. key \in Keys /\ phase = "ready" /\ CountOffer(key)
        BY <1>2, NamesGiveKeys DEF Add
    <2>2. \/ Insert(key, value)
          \/ bucketCount + 1 >= Size /\ UNCHANGED <<phase, buckets, counts, marked>>
        BY <1>2 DEF Add
    <2> HIDE DEF key
    <2> QED
        BY <2>1, <2>2, InsertKeepsInv, DropKeepsInv
<1>3. CASE SetupReturn
    BY <1>3 DEF SetupReturn, IInv, TypeOK, EmptyIfUnmarked, ChainsHoldOffered,
                OfferedIsStored, isValidState, IndexOf
<1>4. CASE UNCHANGED vars
    BY <1>4 DEF vars, IInv, TypeOK, EmptyIfUnmarked, ChainsHoldOffered,
                OfferedIsStored, isValidState, IndexOf
<1> QED
    BY <1>1, <1>2, <1>3, <1>4 DEF Next

\* The invariant of every behaviour.
LEMMA TableInv == Spec => []IInv
BY InitIsInv, NextKeepsInv, PTL DEF Spec

\* Buckets, counts and marks stay within the arrays they are indices of.
THEOREM TableTypeCorrect == Spec => []TypeOK
<1>1. IInv => TypeOK
    BY DEF IInv
<1> QED
    BY <1>1, TableInv, PTL

-----------------------------------------------------------------------------
(***************************************************************************)
(* The safety properties.                                                  *)
(***************************************************************************)
\* A key in a bucket that get() looks at is found.
LEMMA HitIsFound ==
    ASSUME TypeOK, NEW key \in Keys, Hits(key) # {}
    PROVE  /\ IndexOf(key) \in Indices
           /\ Min(Hits(key)) \in Hits(key)
           /\ \A i \in Hits(key) : Min(Hits(key)) <= i
           /\ Hits(key) \subseteq 0..counts[IndexOf(key)]
           /\ Hits(key) \subseteq Places
           /\ GetKey(key) = buckets[IndexOf(key)][Min(Hits(key))].value
           /\ GetKey(key) # Missing
<1>1. IndexOf(key) \in Nat /\ IndexOf(key) < Size
    BY IndexIsNat DEF Hits
<1>2. IndexOf(key) \in Indices
    BY <1>1, SizesArePositive DEF Indices
<1>3. counts[IndexOf(key)] \in Places
    BY <1>2 DEF TypeOK
<1>4. Hits(key) \subseteq 0..counts[IndexOf(key)]
    BY <1>1 DEF Hits
<1>5. Hits(key) \subseteq Places /\ Hits(key) \subseteq Nat
    BY <1>3, <1>4, SizesArePositive DEF Places
<1>6. /\ Min(Hits(key)) \in Hits(key)
      /\ \A i \in Hits(key) : Min(Hits(key)) <= i
    BY <1>5, MinIsLeast
<1>7. GetKey(key) = buckets[IndexOf(key)][Min(Hits(key))].value
    BY DEF GetKey
<1>8. buckets[IndexOf(key)][Min(Hits(key))] \in Bucket
    BY <1>2, <1>5, <1>6 DEF TypeOK
<1>9. GetKey(key) # Missing
    BY <1>7, <1>8, MissingIsNone DEF Bucket
<1> QED
    BY <1>2, <1>4, <1>5, <1>6, <1>7, <1>9

\* The counted buckets hold pairs of a list, each under its name.
HoldsOnly(list) ==
    \A h \in Indices : marked[h] =>
        \A i \in 0..counts[h] : \E name \in DOMAIN list :
            buckets[h][i] = [key |-> RemSpaces(name), value |-> list[name]]

\* A table that is only given pairs of a list holds no others.
LEMMA HoldsOnlyStays ==
    ASSUME TypeOK, NEW list, HoldsOnly(list),
           NEW name \in DOMAIN list, name \in Names, list[name] \in Values,
           SetupTurn(name, list[name]) \/ Add(name, list[name])
    PROVE  HoldsOnly(list)'
<1> DEFINE key == RemSpaces(name)
           h == IndexOf(key)
           n == NextPlace(h)
<1>1. \/ StoreInChain(key, list[name])
      \/ UNCHANGED <<buckets, counts, marked>>
    BY DEF SetupTurn, Add, Insert, WritePastArray
<1>2. CASE UNCHANGED <<buckets, counts, marked>>
    BY <1>2 DEF HoldsOnly
<1>3. CASE StoreInChain(key, list[name])
    <2>1. key \in Keys
        BY NamesGiveKeys
    <2>2. /\ h \in Indices /\ n \in Places
          /\ n = IF marked[h] THEN counts[h] + 1 ELSE 0
          /\ counts'[h] = n /\ marked'[h]
          /\ \A g \in Indices \ {h} : counts'[g] = counts[g] /\ marked'[g] = marked[g]
                                      /\ buckets'[g] = buckets[g]
          /\ buckets'[h][n] = [key |-> key, value |-> list[name]]
          /\ \A i \in Places \ {n} : buckets'[h][i] = buckets[h][i]
        BY <1>3, <2>1, WhereItGoes
    <2>3. counts[h] \in Nat /\ n \in Nat /\ n < ChainSize
        BY <2>2, SizesArePositive DEF TypeOK, Places
    <2> HIDE DEF h, n
    <2>4. ASSUME NEW g \in Indices, marked'[g], NEW i \in 0..counts'[g]
          PROVE  \E other \in DOMAIN list :
                    buckets'[g][i] = [key |-> RemSpaces(other), value |-> list[other]]
        <3>1. CASE g # h
            BY <2>2, <2>4, <3>1 DEF HoldsOnly
        <3>2. CASE g = h /\ i = n
            BY <2>2, <3>2
        <3>3. CASE g = h /\ i # n
            <4>1. marked[h] /\ i \in 0..counts[h] /\ i \in Places
                BY <2>2, <2>3, <2>4, <3>3, SizesArePositive DEF Places
            <4>2. buckets'[h][i] = buckets[h][i]
                BY <2>2, <3>3, <4>1
            <4> QED
                BY <2>2, <3>3, <4>1, <4>2 DEF HoldsOnly
        <3> QED
            BY <3>1, <3>2, <3>3
    <2> QED
        BY <2>4 DEF HoldsOnly, Indices
<1> QED
    BY <1>1, <1>2, <1>3

\* Such a table answers with the value listed, if it vouches for itself and
\* holds no longer key of the same chain.
LEMMA ListedIsFound ==
    ASSUME IInv, NEW list, HoldsOnly(list), isValidState, phase # "undefined",
           NEW name \in DOMAIN list, RemSpaces(name) \in offered,
           \A other \in DOMAIN list : RemSpaces(other) = RemSpaces(name) => other = name,
           \A k \in offered \ {RemSpaces(name)} :
               ~ (IsPrefixOf(RemSpaces(name), k) /\ IndexOf(k) = IndexOf(RemSpaces(name)))
    PROVE  GetKey(RemSpaces(name)) = list[name]
<1> DEFINE key == RemSpaces(name)
           h == IndexOf(key)
<1>1. key \in Keys /\ TypeOK
    BY DEF IInv, TypeOK
<1>2. /\ h \in Indices /\ marked[h]
      /\ \E i \in 0..counts[h] : buckets[h][i].key = key
    BY DEF IInv, OfferedIsStored
<1>3. h < Size
    BY <1>2, SizesArePositive DEF Indices
<1>4. Hits(key) # {}
    BY <1>1, <1>2, <1>3, PrefixOfItself DEF Hits
<1>5. PICK i \in Hits(key) : GetKey(key) = buckets[h][i].value
    BY <1>1, <1>4, HitIsFound
<1>6. i \in 0..counts[h] /\ IsPrefixOf(key, buckets[h][i].key)
    BY <1>3, <1>5 DEF Hits
<1>7. buckets[h][i].key \in offered /\ IndexOf(buckets[h][i].key) = h
    BY <1>2, <1>6 DEF IInv, ChainsHoldOffered
<1>8. buckets[h][i].key = key
    BY <1>6, <1>7
<1>9. PICK other \in DOMAIN list :
        buckets[h][i] = [key |-> RemSpaces(other), value |-> list[other]]
    BY <1>2, <1>6 DEF HoldsOnly
<1>10. buckets[h][i].key = RemSpaces(other) /\ buckets[h][i].value = list[other]
    BY <1>9
<1> QED
    BY <1>5, <1>8, <1>10

\* What isValidState() vouches for is found, for every hash function: add()
\* counts a key before it compares the count, so a dropped key shows.
THEOREM ValidKeepsAllHolds == Spec => []ValidKeepsAll
<1>1. IInv => ValidKeepsAll
    <2> SUFFICES ASSUME IInv, isValidState, phase # "undefined",
                        NEW key \in offered \cap Asked
                 PROVE  GetKey(key) # Missing
        BY DEF ValidKeepsAll
    <2>1. key \in Keys /\ TypeOK
        BY DEF Asked, IInv
    <2>2. PICK i \in 0..counts[IndexOf(key)] : buckets[IndexOf(key)][i].key = key
        BY DEF IInv, OfferedIsStored
    <2>3. IndexOf(key) < Size
        BY SizesArePositive DEF IInv, OfferedIsStored, Indices
    <2>4. i \in Hits(key)
        BY <2>1, <2>2, <2>3, PrefixOfItself DEF Hits
    <2> QED
        BY <2>1, <2>4, HitIsFound
<1> QED
    BY <1>1, TableInv, PTL

\* What is found is in a counted bucket of a marked chain.
LEMMA OnlyOfferedFound == IInv => FoundWasOffered
<1> SUFFICES ASSUME IInv, NEW key \in Asked, GetKey(key) # Missing
             PROVE  \E k \in offered : IsPrefixOf(key, k) /\ IndexOf(k) = IndexOf(key)
    BY DEF FoundWasOffered
<1> DEFINE h == IndexOf(key)
<1>1. key \in Keys /\ TypeOK /\ Hits(key) # {}
    BY DEF Asked, IInv, GetKey
<1>2. h \in Indices /\ h < Size
    BY <1>1, HitIsFound DEF Hits
<1>3. PICK i \in 0..counts[h] : IsPrefixOf(key, buckets[h][i].key)
    BY <1>1 DEF Hits
<1>4. marked[h]
    <2> SUFFICES ASSUME ~ marked[h] PROVE FALSE
        OBVIOUS
    <2>1. i = 0 /\ buckets[h][0].key = NoKey
        BY <1>2, <1>3 DEF IInv, EmptyIfUnmarked
    <2> QED
        BY <1>3, <2>1, NoPrefixOfNoKey
<1>5. buckets[h][i].key \in offered /\ IndexOf(buckets[h][i].key) = h
    BY <1>2, <1>3, <1>4 DEF IInv, ChainsHoldOffered
<1> QED
    BY <1>3, <1>5

\* Nothing is found that was not offered, although get() reads the first
\* bucket of a chain that was never used.
THEOREM FoundWasOfferedHolds == Spec => []FoundWasOffered
BY OnlyOfferedFound, TableInv, PTL

\* Nothing but a full chain or the largest hash leads past an array.
THEOREM OutsideHasCauseHolds == Spec => []OutsideHasCause
<1>1. Init => OutsideHasCause
    BY DEF Init, OutsideHasCause
<1>2. ASSUME IInv, OutsideHasCause, phase # "undefined", NEW key \in Keys,
             NEW value \in Values, CountOffer(key), Insert(key, value)
      PROVE  OutsideHasCause'
    <2>1. CASE WritePastArray(key)
        <3> DEFINE h == IndexOf(key)
        <3>1. key \in offered' /\ h \in Nat
            BY <1>2, IndexIsNat DEF CountOffer
        <3>2. CASE h >= Size
            BY <3>1, <3>2 DEF OutsideHasCause, IndexOf
        <3>3. CASE h < Size
            <4>1. h \in Indices /\ counts[h] \in Places /\ marked[h] \in BOOLEAN
                BY <1>2, <3>1, <3>3, SizesArePositive DEF Indices, IInv, TypeOK
            <4>2. ~ (NextPlace(h) < ChainSize)
                BY <2>1, <3>3 DEF WritePastArray, Fits
            <4>3. marked[h] /\ counts[h] = ChainSize - 1
                BY <4>1, <4>2, SizesArePositive DEF NextPlace, Places
            <4> QED
                BY <2>1, <4>1, <4>3 DEF WritePastArray, OutsideHasCause
        <3> QED
            BY <3>1, <3>2, <3>3, SizesArePositive
    <2>2. CASE UNCHANGED phase
        BY <1>2, <2>2 DEF OutsideHasCause
    <2> QED
        BY <1>2, <2>1, <2>2 DEF Insert
<1>3. IInv /\ OutsideHasCause /\ [Next]_vars => OutsideHasCause'
    <2> SUFFICES ASSUME IInv, OutsideHasCause, [Next]_vars PROVE OutsideHasCause'
        OBVIOUS
    <2>1. ASSUME NEW name \in Names, NEW value \in Values, SetupTurn(name, value)
          PROVE  OutsideHasCause'
        BY <1>2, <2>1, NamesGiveKeys DEF SetupTurn
    <2>2. ASSUME NEW name \in Names, NEW value \in Values, Add(name, value)
          PROVE  OutsideHasCause'
        <3> DEFINE key == RemSpaces(name)
        <3>1. key \in Keys /\ phase = "ready" /\ CountOffer(key)
            BY <2>2, NamesGiveKeys DEF Add
        <3>2. Insert(key, value) \/ UNCHANGED phase
            BY <2>2 DEF Add
        <3> HIDE DEF key
        <3> QED
            BY <1>2, <3>1, <3>2 DEF OutsideHasCause
    <2>3. CASE SetupReturn
        BY <2>3 DEF SetupReturn, OutsideHasCause
    <2>4. CASE UNCHANGED vars
        BY <2>4 DEF vars, OutsideHasCause, IndexOf
    <2> QED
        BY <2>1, <2>2, <2>3, <2>4 DEF Next
<1> QED
    BY <1>1, <1>3, TableInv, PTL DEF Spec

-----------------------------------------------------------------------------
(***************************************************************************)
(* What get() finds after a key was stored, and the refinement.            *)
(***************************************************************************)
\* With the same chain, get() finds the same.
LEMMA SameChainSameAnswer ==
    ASSUME NEW q \in Keys,
           IndexOf(q) < Size =>
              /\ counts'[IndexOf(q)] = counts[IndexOf(q)]
              /\ buckets'[IndexOf(q)] = buckets[IndexOf(q)]
    PROVE  GetKey(q)' = GetKey(q)
<1>1. Hits(q)' = Hits(q)
    BY DEF Hits, IndexOf
<1>2. CASE Hits(q) = {}
    BY <1>1, <1>2 DEF GetKey
<1>3. CASE Hits(q) # {}
    <2>1. IndexOf(q) < Size
        BY <1>3 DEF Hits
    <2> QED
        BY <1>1, <1>3, <2>1 DEF GetKey, IndexOf
<1> QED
    BY <1>2, <1>3

\* A stored key answers what nothing answered before, and nothing else.
LEMMA StoreAnswers ==
    ASSUME IInv, TypeOK', NEW key \in Keys, NEW value \in Values,
           StoreInChain(key, value), NEW q \in Asked
    PROVE  GetKey(q)' = IF GetKey(q) = Missing /\ <<key, q>> \in Answers
                        THEN value ELSE GetKey(q)
<1> DEFINE h == IndexOf(key)
           n == NextPlace(h)
           g == IndexOf(q)
<1>1. TypeOK /\ q \in Keys
    BY DEF IInv, Asked
<1>2. /\ h \in Indices /\ n \in Places
      /\ n = IF marked[h] THEN counts[h] + 1 ELSE 0
      /\ counts'[h] = n /\ marked'[h]
      /\ \A j \in Indices \ {h} : counts'[j] = counts[j] /\ marked'[j] = marked[j]
                                  /\ buckets'[j] = buckets[j]
      /\ buckets'[h][n] = [key |-> key, value |-> value]
      /\ \A i \in Places \ {n} : buckets'[h][i] = buckets[h][i]
    BY <1>1, WhereItGoes
<1>3. <<key, q>> \in Answers <=> IsPrefixOf(q, key) /\ h = g /\ g < Size
    BY DEF Answers
<1>4. CASE g # h
    <2>1. g \in Nat
        BY <1>1, IndexIsNat
    <2>2. g < Size => g \in Indices \ {h}
        BY <1>4, <2>1, SizesArePositive DEF Indices
    <2>3. GetKey(q)' = GetKey(q)
        BY <1>1, <1>2, <2>2, SameChainSameAnswer
    <2> QED
        BY <1>3, <1>4, <2>3
<1>5. CASE g = h
    <2>1. h < Size /\ h \in Nat
        BY <1>2, SizesArePositive DEF Indices
    <2>2. Hits(q) = {i \in 0..counts[h] : IsPrefixOf(q, buckets[h][i].key)}
        BY <1>5, <2>1 DEF Hits
    <2>3. Hits(q)' = {i \in 0..n : IsPrefixOf(q, buckets'[h][i].key)}
        BY <1>2, <1>5, <2>1 DEF Hits, IndexOf
    <2>4. counts[h] \in Nat /\ n \in Nat /\ ChainSize \in Nat
        BY <1>1, <1>2, SizesArePositive DEF TypeOK, Places
    <2>5. Hits(q) # {} => GetKey(q) = buckets[h][Min(Hits(q))].value
                          /\ GetKey(q) # Missing
        BY <1>1, <1>5, HitIsFound
    <2>6. Hits(q) = {} => GetKey(q) = Missing
        BY DEF GetKey
    <2>7. Hits(q)' # {} => GetKey(q)' = buckets'[h][Min(Hits(q)')].value
        BY <1>5 DEF GetKey, IndexOf
    <2>8. Hits(q)' = {} => GetKey(q)' = Missing
        BY DEF GetKey
    <2>9. \A i \in Hits(q) : i \in Nat /\ i <= counts[h] /\ i # n /\ i \in Places
        <3>1. CASE marked[h]
            BY <1>2, <2>2, <2>4, <3>1 DEF Places
        <3>2. CASE ~ marked[h]
            <4>1. counts[h] = 0 /\ buckets[h][0].key = NoKey
                BY <1>2, <3>2 DEF IInv, EmptyIfUnmarked
            <4>2. Hits(q) = {}
                BY <2>2, <4>1, NoPrefixOfNoKey
            <4> QED
                BY <4>2
        <3> QED
            BY <3>1, <3>2
    <2>10. Hits(q)' = Hits(q) \cup (IF IsPrefixOf(q, key) THEN {n} ELSE {})
        <3>1. ASSUME NEW i \in 0..n, i # n
              PROVE  /\ i \in 0..counts[h]
                     /\ buckets'[h][i] = buckets[h][i]
            BY <1>2, <2>4, <3>1 DEF Places
        <3>2. \A i \in Hits(q) : i \in 0..n
            <4>1. CASE marked[h]
                BY <1>2, <2>2, <2>4, <4>1
            <4>2. CASE ~ marked[h]
                BY <1>2, <2>4, <2>9, <4>2 DEF IInv, EmptyIfUnmarked
            <4> QED
                BY <4>1, <4>2
        <3>3. n \in Hits(q)' <=> IsPrefixOf(q, key)
            BY <1>2, <2>3, <2>4
        <3>4. \A i \in 0..n : i # n => (i \in Hits(q)' <=> i \in Hits(q))
            BY <2>2, <2>3, <3>1
        <3>5. \A i \in Hits(q)' : i \in 0..n
            BY <2>3
        <3> QED
            BY <2>9, <3>2, <3>3, <3>4, <3>5
    <2>11. CASE Hits(q) # {}
        <3>1. /\ Min(Hits(q)) \in Hits(q)
              /\ \A i \in Hits(q) : Min(Hits(q)) <= i
            BY <1>1, <2>11, HitIsFound
        <3>2. Hits(q)' \subseteq Nat /\ Hits(q)' # {}
            BY <2>4, <2>9, <2>10, <2>11
        <3>3. /\ Min(Hits(q)') \in Hits(q)'
              /\ \A i \in Hits(q)' : Min(Hits(q)') <= i
            BY <3>2, MinIsLeast
        <3>4. \A i \in Hits(q) : i < n
            <4>1. marked[h]
                <5> SUFFICES ASSUME ~ marked[h] PROVE FALSE
                    OBVIOUS
                <5>1. counts[h] = 0 /\ buckets[h][0].key = NoKey
                    BY <1>2 DEF IInv, EmptyIfUnmarked
                <5>2. Hits(q) = {}
                    BY <2>2, <5>1, NoPrefixOfNoKey
                <5> QED
                    BY <2>11, <5>2
            <4> QED
                BY <1>2, <2>4, <2>9, <4>1
        <3>5. Min(Hits(q)') = Min(Hits(q))
            <4>1. Min(Hits(q)) \in Hits(q)' /\ Min(Hits(q)) \in Nat /\ Min(Hits(q)') \in Nat
                BY <2>9, <2>10, <3>1, <3>2, <3>3
            <4>2. Min(Hits(q)') <= Min(Hits(q))
                BY <3>3, <4>1
            <4>3. Min(Hits(q)') # n
                BY <2>4, <3>1, <3>4, <4>1, <4>2
            <4>4. Min(Hits(q)') \in Hits(q)
                BY <2>10, <3>3, <4>3
            <4>5. Min(Hits(q)) <= Min(Hits(q)')
                BY <3>1, <4>4
            <4> QED
                BY <4>1, <4>2, <4>5
        <3>6. buckets'[h][Min(Hits(q))] = buckets[h][Min(Hits(q))]
            BY <1>2, <2>9, <3>1
        <3> QED
            BY <2>5, <2>7, <2>11, <3>2, <3>5, <3>6
    <2>12. CASE Hits(q) = {} /\ IsPrefixOf(q, key)
        <3>1. Hits(q)' = {n}
            BY <2>10, <2>12
        <3>2. Min(Hits(q)') = n
            BY <2>4, <3>1 DEF Min
        <3> QED
            BY <1>2, <1>3, <1>5, <2>1, <2>6, <2>7, <2>12, <3>1, <3>2
    <2>13. CASE Hits(q) = {} /\ ~ IsPrefixOf(q, key)
        <3>1. Hits(q)' = {}
            BY <2>10, <2>13
        <3> QED
            BY <1>3, <2>6, <2>8, <2>13, <3>1
    <2> QED
        BY <2>11, <2>12, <2>13
<1> QED
    BY <1>4, <1>5

\* What a step of the table does to all answers.
LEMMA StepAnswers ==
    ASSUME IInv, IInv', [Next]_vars
    PROVE  \/ \E key \in Keys, value \in Values :
                  /\ phase # "undefined" /\ UNCHANGED (phase = "undefined")
                  /\ bucketCount' = bucketCount + 1
                  /\ \A q \in Asked :
                        GetKey(q)' = IF GetKey(q) = Missing /\ <<key, q>> \in Answers
                                     THEN value ELSE GetKey(q)
           \/ /\ bucketCount' = bucketCount + 1
              /\ phase # "undefined"
              /\ phase' = "undefined" \/ (bucketCount + 1 >= Size /\ UNCHANGED phase)
              /\ \A q \in Asked : GetKey(q)' = GetKey(q)
           \/ /\ UNCHANGED <<bucketCount, phase = "undefined">>
              /\ \A q \in Asked : GetKey(q)' = GetKey(q)
<1>1. ASSUME UNCHANGED <<buckets, counts>>
      PROVE  \A q \in Asked : GetKey(q)' = GetKey(q)
    BY <1>1, SameChainSameAnswer DEF Asked
<1>2. ASSUME NEW key \in Keys, NEW value \in Values, StoreInChain(key, value)
      PROVE  \A q \in Asked :
                GetKey(q)' = IF GetKey(q) = Missing /\ <<key, q>> \in Answers
                             THEN value ELSE GetKey(q)
    BY <1>2, StoreAnswers DEF IInv
<1>3. ASSUME NEW name \in Names, NEW value \in Values,
             SetupTurn(name, value) \/ Add(name, value)
      PROVE  \E key \in Keys :
                /\ phase # "undefined" /\ bucketCount' = bucketCount + 1
                /\ \/ StoreInChain(key, value) /\ UNCHANGED phase
                   \/ phase' = "undefined" /\ UNCHANGED <<buckets, counts>>
                   \/ bucketCount + 1 >= Size /\ UNCHANGED <<phase, buckets, counts>>
    <2>1. RemSpaces(name) \in Keys
        BY NamesGiveKeys
    <2>2. CASE SetupTurn(name, value)
        BY <2>1, <2>2 DEF SetupTurn, CountOffer, Insert, WritePastArray
    <2>3. CASE Add(name, value)
        BY <2>1, <2>3 DEF Add, CountOffer, Insert, WritePastArray
    <2> QED
        BY <1>3, <2>2, <2>3
<1>4. ASSUME NEW name \in Names, NEW value \in Values,
             SetupTurn(name, value) \/ Add(name, value)
      PROVE  \/ \E key \in Keys, v \in Values :
                  /\ phase # "undefined" /\ UNCHANGED (phase = "undefined")
                  /\ bucketCount' = bucketCount + 1
                  /\ \A q \in Asked :
                        GetKey(q)' = IF GetKey(q) = Missing /\ <<key, q>> \in Answers
                                     THEN v ELSE GetKey(q)
             \/ /\ bucketCount' = bucketCount + 1
                /\ phase # "undefined"
                /\ phase' = "undefined" \/ (bucketCount + 1 >= Size /\ UNCHANGED phase)
                /\ \A q \in Asked : GetKey(q)' = GetKey(q)
    <2>1. PICK key \in Keys :
                /\ phase # "undefined" /\ bucketCount' = bucketCount + 1
                /\ \/ StoreInChain(key, value) /\ UNCHANGED phase
                   \/ phase' = "undefined" /\ UNCHANGED <<buckets, counts>>
                   \/ bucketCount + 1 >= Size /\ UNCHANGED <<phase, buckets, counts>>
        BY <1>3, <1>4
    <2>2. CASE StoreInChain(key, value) /\ UNCHANGED phase
        <3>1. \A q \in Asked :
                GetKey(q)' = IF GetKey(q) = Missing /\ <<key, q>> \in Answers
                             THEN value ELSE GetKey(q)
            BY <1>2, <2>2
        <3> QED
            BY <2>1, <2>2, <3>1
    <2>3. CASE UNCHANGED <<buckets, counts>>
        <3>1. \A q \in Asked : GetKey(q)' = GetKey(q)
            BY <1>1, <2>3
        <3>2. CASE StoreInChain(key, value) /\ UNCHANGED phase
            BY <2>2, <3>2
        <3>3. CASE phase' = "undefined" \/ (bucketCount + 1 >= Size /\ UNCHANGED phase)
            BY <2>1, <3>1, <3>3
        <3> QED
            BY <2>1, <3>2, <3>3
    <2> QED
        BY <2>1, <2>2, <2>3
<1>5. CASE SetupReturn
    <2>1. \A q \in Asked : GetKey(q)' = GetKey(q)
        BY <1>1, <1>5 DEF SetupReturn
    <2> QED
        BY <1>5, <2>1 DEF SetupReturn
<1>6. CASE UNCHANGED vars
    <2>1. \A q \in Asked : GetKey(q)' = GetKey(q)
        BY <1>1, <1>6 DEF vars
    <2> QED
        BY <1>6, <2>1 DEF vars
<1> QED
    BY <1>4, <1>5, <1>6 DEF Next

\* An answer stays, whatever is added, dropped, or written past an array.
THEOREM AnswersStayHolds == Spec => AnswersStay
<1>1. IInv /\ IInv' /\ [Next]_vars
        => [\A key \in Asked : GetKey(key) # Missing => GetKey(key)' = GetKey(key)]_vars
    <2> SUFFICES ASSUME IInv, IInv', [Next]_vars, NEW q \in Asked, GetKey(q) # Missing
                 PROVE  GetKey(q)' = GetKey(q)
        OBVIOUS
    <2> QED
        BY StepAnswers
<1> QED
    BY <1>1, TableInv, PTL DEF Spec, AnswersStay

\* The table implements the abstract map: each pair stored is a Put, a pair
\* dropped by add() is a Drop of a full map, and a write past an array closes.
THEOREM MapRefinedHolds == Spec => MapRefined
<1>1. Init => Map!MapInit
    <2> SUFFICES ASSUME Init PROVE Map!MapInit
        OBVIOUS
    <2>1. TypeOK /\ IInv
        BY InitIsInv DEF IInv
    <2>2. ASSUME NEW q \in Asked PROVE GetKey(q) = Missing
        <3>1. \A h \in Indices : ~ marked[h]
            BY DEF Init
        <3>2. q \in Keys
            BY DEF Asked
        <3>3. ASSUME Hits(q) # {} PROVE FALSE
            <4>1. IndexOf(q) \in Indices /\ IndexOf(q) < Size
                BY <2>1, <3>2, <3>3, HitIsFound DEF Hits
            <4>2. counts[IndexOf(q)] = 0 /\ buckets[IndexOf(q)][0].key = NoKey
                BY <2>1, <3>1, <4>1 DEF IInv, EmptyIfUnmarked
            <4> QED
                BY <3>3, <4>1, <4>2, NoPrefixOfNoKey DEF Hits
        <3> QED
            BY <3>3 DEF GetKey
    <2> QED
        BY <2>2 DEF Init, Map!MapInit
<1>2. IInv /\ IInv' /\ [Next]_vars => [Map!MapNext]_(Map!mapVars)
    <2> SUFFICES ASSUME IInv, IInv', [Next]_vars
                 PROVE  [Map!MapNext]_(Map!mapVars)
        OBVIOUS
    <2> DEFINE answer == [key \in Asked |-> GetKey(key)]
    <2>1. ASSUME \A q \in Asked : GetKey(q)' = GetKey(q)
          PROVE  answer' = answer
        BY <2>1
    <2>2. ASSUME NEW key \in Keys, NEW value \in Values,
                 \A q \in Asked :
                    GetKey(q)' = IF GetKey(q) = Missing /\ <<key, q>> \in Answers
                                 THEN value ELSE GetKey(q)
          PROVE  answer' = [q \in Asked |->
                              IF answer[q] = Missing /\ <<key, q>> \in Answers
                              THEN value ELSE answer[q]]
        BY <2>2
    <2>3. CASE \E key \in Keys, value \in Values :
                  /\ phase # "undefined" /\ UNCHANGED (phase = "undefined")
                  /\ bucketCount' = bucketCount + 1
                  /\ \A q \in Asked :
                        GetKey(q)' = IF GetKey(q) = Missing /\ <<key, q>> \in Answers
                                     THEN value ELSE GetKey(q)
        <3>1. PICK key \in Keys, value \in Values :
                  /\ phase # "undefined" /\ UNCHANGED (phase = "undefined")
                  /\ bucketCount' = bucketCount + 1
                  /\ \A q \in Asked :
                        GetKey(q)' = IF GetKey(q) = Missing /\ <<key, q>> \in Answers
                                     THEN value ELSE GetKey(q)
            BY <2>3
        <3>2. Map!Put(key, value)
            BY <2>2, <3>1 DEF Map!Put
        <3> QED
            BY <3>2 DEF Map!MapNext
    <2>4. CASE /\ bucketCount' = bucketCount + 1
               /\ phase # "undefined"
               /\ phase' = "undefined" \/ (bucketCount + 1 >= Size /\ UNCHANGED phase)
               /\ \A q \in Asked : GetKey(q)' = GetKey(q)
        <3>1. answer' = answer
            BY <2>1, <2>4
        <3>2. CASE phase' = "undefined"
            BY <2>4, <3>1, <3>2 DEF Map!MapNext, Map!Close
        <3>3. CASE bucketCount + 1 >= Size /\ UNCHANGED phase
            BY <2>4, <3>1, <3>3 DEF Map!MapNext, Map!Drop
        <3> QED
            BY <2>4, <3>2, <3>3
    <2>5. CASE /\ UNCHANGED <<bucketCount, phase = "undefined">>
               /\ \A q \in Asked : GetKey(q)' = GetKey(q)
        BY <2>1, <2>5 DEF Map!mapVars
    <2> QED
        BY <2>3, <2>4, <2>5, StepAnswers
<1> QED
    BY <1>1, <1>2, TableInv, PTL DEF Spec, MapRefined, Map!MapSpec
=============================================================================
