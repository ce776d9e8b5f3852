---------------------------- MODULE StrHashTable ----------------------------
(***************************************************************************)
(* The chained table behind the lookup of types, aliases and enumerators:  *)
(* class template StrHashTable (src/StrHashTable.hpp).             *)
(*                                                                         *)
(* A name is stripped of blanks, hashed to 32 bits and scaled to an index. *)
(* Every index has a chain of a fixed number of buckets; the first bucket  *)
(* counts those behind it.  setup() fills a new table from two arrays,     *)
(* add() takes one pair.  An access outside an array ends what the model   *)
(* says (phase "undefined").                                               *)
(***************************************************************************)
EXTENDS Integers, Sequences, FiniteSetsExt

CONSTANTS
    Size,           \* template parameter size (255 in the library)
    ChainSize,      \* CHAINSIZE (5 in the code)
    Chars,          \* char
    Names,          \* what clients pass: sequences of characters
    Blanks,         \* SPACE and TAB
    Values,         \* T
    Default,        \* T{}, in a bucket never assigned
    Missing,        \* std::nullopt
    Hash, MaxHash,  \* stringhash_uint32 of each key, and its largest value
    MaxOffers       \* bound: keys offered to one table

\* remSpaces.
RemSpaces(name) == SelectSeq(name, LAMBDA char : char \notin Blanks)

Keys   == {RemSpaces(name) : name \in Names}
NoKey  == <<>>
NoBucket == [key |-> NoKey, value |-> Default]
Indices  == 0..(Size - 1)
Places   == 0..(ChainSize - 1)
Bucket   == [key : Keys \cup {NoKey}, value : Values \cup {Default}]

ASSUME SizesArePositive == Size \in Nat \ {0} /\ ChainSize \in Nat \ {0}
ASSUME OffersBounded    == MaxOffers \in Nat
ASSUME KeysAreText      == Keys \subseteq Seq(Chars)
ASSUME HashTyped        == MaxHash \in Nat \ {0} /\ Hash \in [Keys -> 0..MaxHash]
ASSUME MissingIsNone    == Missing \notin Values \cup {Default}

\* getStringHash(key, scaleFactor): the hash times size / max, truncated.
\* The largest hash is scaled to size itself, one more than the last index.
IndexOf(key) == (Hash[key] * Size) \div MaxHash

VARIABLES
    phase,          \* "setup": in the loop of setup; "ready"; "undefined"
    buckets,        \* std::array<Bucket, CHAINSIZE> buckets[size]
    counts,         \* buckets[h][0].count
    marked,         \* bool marked[size]
    bucketCount,
    offered         \* history: the keys setup and add were given

vars == <<phase, buckets, counts, marked, bucketCount, offered>>

TypeOK ==
    /\ phase \in {"setup", "ready", "undefined"}
    /\ buckets \in [Indices -> [Places -> Bucket]]
    /\ counts \in [Indices -> Places]
    /\ marked \in [Indices -> BOOLEAN]
    /\ bucketCount \in Nat
    /\ offered \subseteq Keys

Init ==
    /\ phase = "setup"
    /\ buckets = [h \in Indices |-> [i \in Places |-> NoBucket]]
    /\ counts = [h \in Indices |-> 0]
    /\ marked = [h \in Indices |-> FALSE]
    /\ bucketCount = 0
    /\ offered = {}

-----------------------------------------------------------------------------
(***************************************************************************)
(* Filling.                                                                *)
(***************************************************************************)
\* Mutant of NextPlace: one bucket is left out.
NextPlaceSkipsOne(h) == IF marked[h] THEN counts[h] + 2 ELSE 0
\* Mutant of NextPlace: each key of an index replaces the one before.
NextPlaceFirst(h) == IF marked[h] THEN counts[h] ELSE 0

\* Where the next key of this index goes; the sixth goes past its chain.
NextPlace(h) == IF marked[h] THEN counts[h] + 1 ELSE 0

\* Mutant of Fits: one place more than a chain has.
FitsOneMore(key) ==
    IndexOf(key) < Size /\ NextPlace(IndexOf(key)) <= ChainSize
\* The places and chains that exist.
Fits(key) == IndexOf(key) < Size /\ NextPlace(IndexOf(key)) < ChainSize

\* chain[chain[0].count+1] or chain[0] is assigned a Bucket (its count is not).
StoreInChain(key, value) ==
    LET h == IndexOf(key)
    IN  /\ Fits(key)
        /\ buckets' = [buckets EXCEPT ![h][NextPlace(h)] =
                            [key |-> key, value |-> value]]
        /\ counts' = [counts EXCEPT ![h] = NextPlace(h)]
        /\ marked' = [marked EXCEPT ![h] = TRUE]

WritePastArray(key) ==
    /\ ~Fits(key)
    /\ phase' = "undefined"
    /\ UNCHANGED <<buckets, counts, marked>>

Insert(key, value) ==
    \/ StoreInChain(key, value) /\ UNCHANGED phase
    \/ WritePastArray(key)

CountOffer(key) ==
    /\ bucketCount < MaxOffers
    /\ bucketCount' = bucketCount + 1
    /\ offered' = offered \cup {key}

\* One turn of the loop of setup(), for at most size pairs.
SetupTurn(name, value) ==
    LET key == RemSpaces(name)
    IN  /\ phase = "setup"
        /\ bucketCount < Size
        /\ CountOffer(key)
        /\ Insert(key, value)

\* setup() returns the table; without any turn: the default constructor.
SetupReturn ==
    /\ phase = "setup"
    /\ phase' = "ready"
    /\ UNCHANGED <<buckets, counts, marked, bucketCount, offered>>

Add(name, value) ==
    LET key == RemSpaces(name)
    IN  /\ phase = "ready"
        /\ CountOffer(key)
        /\ \/ bucketCount + 1 < Size /\ Insert(key, value)
           \/ bucketCount + 1 >= Size
              /\ UNCHANGED <<phase, buckets, counts, marked>>

Next ==
    \/ \E name \in Names, value \in Values :
          SetupTurn(name, value) \/ Add(name, value)
    \/ SetupReturn

Spec == Init /\ [][Next]_vars

-----------------------------------------------------------------------------
(***************************************************************************)
(* Reading.                                                                *)
(***************************************************************************)
\* Mutant of isValidState: <= instead of <.
isValidStateWhenFull == bucketCount <= Size
isValidState == bucketCount < Size

\* Mutant of IsPrefixOf: the comparison ends with the shorter of the two.
IsPrefixOfEither(key, stored) ==
    \A i \in 1..Len(key) : i <= Len(stored) => key[i] = stored[i]

\* The comparison in get() ends with the key it looks for.
IsPrefixOf(key, stored) ==
    Len(key) <= Len(stored) /\ SubSeq(stored, 1, Len(key)) = key

\* Mutant of Hits: equal indices are taken for equal keys.
HitsWithoutComparison(key) ==
    IF IndexOf(key) < Size /\ marked[IndexOf(key)]
    THEN 0..counts[IndexOf(key)] ELSE {}

\* The buckets of the key's chain that get() takes for it: it looks at
\* chain[0] even if the chain is empty, and no further than chain[0].count.
Hits(key) ==
    IF IndexOf(key) < Size
    THEN {i \in 0..counts[IndexOf(key)] :
             IsPrefixOf(key, buckets[IndexOf(key)][i].key)}
    ELSE {}

\* Mutant of GetKey: the last hit.
GetKeyLast(key) ==
    IF Hits(key) = {} THEN Missing
    ELSE buckets[IndexOf(key)][Max(Hits(key))].value

\* get(): the first hit, for a name already stripped of blanks.
GetKey(key) ==
    IF Hits(key) = {} THEN Missing
    ELSE buckets[IndexOf(key)][Min(Hits(key))].value

get(name) == GetKey(RemSpaces(name))

-----------------------------------------------------------------------------
\* The empty key is found in an empty chain too; the rest is about others.
Asked == Keys \ {NoKey}

\* isValidState() vouches for the table: while it is true, every key that was
\* offered is found, whatever the chains look like.
ValidKeepsAll ==
    isValidState /\ phase # "undefined" =>
        \A key \in offered \cap Asked : GetKey(key) # Missing

\* Nothing is found that was not added: what get() finds was stored under a
\* key of which the name is a prefix, and whose hash leads to the same chain.
FoundWasOffered ==
    \A key \in Asked : GetKey(key) # Missing =>
        \E k \in offered : IsPrefixOf(key, k) /\ IndexOf(k) = IndexOf(key)

\* Writing past an array has two causes: a hash scaled to size, or more keys
\* of one index than a chain holds.
OutsideHasCause ==
    phase = "undefined" =>
        \/ \E key \in offered : IndexOf(key) >= Size
        \/ \E h \in Indices : marked[h] /\ counts[h] = ChainSize - 1

\* An answer stays: later keys, equal or longer, never change what is found.
AnswersStay ==
    [][\A key \in Asked : GetKey(key) # Missing => GetKey(key)' = GetKey(key)]_vars

\* Which key answers which question: the name is a prefix of the key, and
\* both hashes lead to the same chain.
Answers == {p \in Keys \X Asked :
                /\ IsPrefixOf(p[2], p[1])
                /\ IndexOf(p[1]) = IndexOf(p[2]) /\ IndexOf(p[2]) < Size}

\* The table implements StringMap.
Map == INSTANCE StringMap WITH
          Capacity <- Size,
          answer   <- [key \in Asked |-> GetKey(key)],
          offers   <- bucketCount,
          closed   <- (phase = "undefined")

MapRefined == Map!MapSpec
=============================================================================
