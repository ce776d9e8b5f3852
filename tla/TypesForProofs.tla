---------------------------- MODULE TypesForProofs ----------------------------
(***************************************************************************)
(* For every list of types and aliases, every size of the tables and every *)
(* hash function: what Configurator::TypesFor answers.  Both of its tables *)
(* are StrHashTables, so the theorems about these hold of each.            *)
(***************************************************************************)
EXTENDS TypesFor, TLAPS

typeTable == INSTANCE StrHashTableProofs WITH
    Values <- Wrappers, Default <- NullWrapper,
    phase <- typePhase, buckets <- typeBuckets, counts <- typeCounts,
    marked <- typeMarked, bucketCount <- typeCount, offered <- typeOffered

aliasTable == INSTANCE StrHashTableProofs WITH
    Values <- Names, Default <- NoTarget,
    phase <- aliasPhase, buckets <- aliasBuckets, counts <- aliasCounts,
    marked <- aliasMarked, bucketCount <- aliasCount, offered <- aliasOffered

-----------------------------------------------------------------------------
(***************************************************************************)
(* The parameters of both tables satisfy what StrHashTable assumes.        *)
(***************************************************************************)
LEMMA TypeTableAssumptions ==
    /\ typeTable!SizesArePositive /\ typeTable!OffersBounded /\ typeTable!KeysAreText
    /\ typeTable!HashTyped /\ typeTable!MissingIsNone
<1>1. typeTable!Keys = typeForHash!Keys
    BY DEF typeTable!Keys, typeForHash!Keys, typeTable!RemSpaces, typeForHash!RemSpaces
<1> QED
    BY <1>1, TablesTyped
       DEF typeTable!SizesArePositive, typeTable!OffersBounded, typeTable!KeysAreText,
           typeTable!HashTyped, typeTable!MissingIsNone

LEMMA AliasTableAssumptions ==
    /\ aliasTable!SizesArePositive /\ aliasTable!OffersBounded /\ aliasTable!KeysAreText
    /\ aliasTable!HashTyped /\ aliasTable!MissingIsNone
<1>1. aliasTable!Keys = typeForHash!Keys
    BY DEF aliasTable!Keys, typeForHash!Keys, aliasTable!RemSpaces, typeForHash!RemSpaces
<1> QED
    BY <1>1, TablesTyped
       DEF aliasTable!SizesArePositive, aliasTable!OffersBounded, aliasTable!KeysAreText,
           aliasTable!HashTyped, aliasTable!MissingIsNone

\* The tables compare and scale keys alike, and the instances of TypesFor are
\* those about which the theorems are.
LEMMA SameKeys ==
    /\ \A name : /\ typeTable!RemSpaces(name) = Key(name)
                 /\ aliasTable!RemSpaces(name) = Key(name)
                 /\ aliases!RemSpaces(name) = Key(name)
    /\ \A key : /\ typeTable!IndexOf(key) = typeForHash!IndexOf(key)
                /\ aliasTable!IndexOf(key) = typeForHash!IndexOf(key)
    /\ \A key, k : /\ typeTable!IsPrefixOf(key, k) <=> typeForHash!IsPrefixOf(key, k)
                   /\ aliasTable!IsPrefixOf(key, k) <=> typeForHash!IsPrefixOf(key, k)
BY DEF Key, typeTable!RemSpaces, aliasTable!RemSpaces, aliases!RemSpaces,
       typeForHash!RemSpaces, typeTable!IndexOf, aliasTable!IndexOf, typeForHash!IndexOf,
       typeTable!IsPrefixOf, aliasTable!IsPrefixOf, typeForHash!IsPrefixOf

LEMMA SameAnswers ==
    /\ \A name : /\ typeForHash!get(name) = typeTable!GetKey(Key(name))
                 /\ aliases!get(name) = aliasTable!GetKey(Key(name))
    /\ typeForHash!isValidState <=> typeTable!isValidState
    /\ aliases!isValidState <=> aliasTable!isValidState
<1>1. \A name : typeForHash!get(name) = typeTable!GetKey(Key(name))
    BY DEF Key, typeForHash!get, typeForHash!GetKey, typeForHash!Hits, typeForHash!IndexOf,
           typeForHash!IsPrefixOf, typeForHash!Min,
           typeTable!GetKey, typeTable!Hits, typeTable!IndexOf, typeTable!IsPrefixOf,
           typeTable!Min
<1>2. \A name : aliases!get(name) = aliasTable!GetKey(Key(name))
    BY DEF Key, typeForHash!RemSpaces, aliases!RemSpaces, aliases!get, aliases!GetKey,
           aliases!Hits, aliases!IndexOf, aliases!IsPrefixOf, aliases!Min,
           aliasTable!GetKey, aliasTable!Hits, aliasTable!IndexOf, aliasTable!IsPrefixOf,
           aliasTable!Min
<1> QED
    BY <1>1, <1>2 DEF typeForHash!isValidState, typeTable!isValidState,
                      aliases!isValidState, aliasTable!isValidState

\* A turn of the constructor is a turn of one table, the other stays as it is.
LEMMA TurnsOfTables ==
    /\ \A name, value : typeForHash!SetupTurn(name, value) <=> typeTable!SetupTurn(name, value)
    /\ \A name, value : aliases!Add(name, value) <=> aliasTable!Add(name, value)
    /\ typeForHash!SetupReturn <=> typeTable!SetupReturn
    /\ aliases!SetupReturn <=> aliasTable!SetupReturn
    /\ typeForHash!Init <=> typeTable!Init
    /\ aliases!Init <=> aliasTable!Init
<1>1. \A name, value : typeForHash!SetupTurn(name, value) <=> typeTable!SetupTurn(name, value)
    BY DEF typeForHash!SetupTurn, typeTable!SetupTurn,
           typeForHash!CountOffer, typeTable!CountOffer,
           typeForHash!RemSpaces, typeTable!RemSpaces,
           typeForHash!Insert, typeTable!Insert,
           typeForHash!StoreInChain, typeTable!StoreInChain,
           typeForHash!WritePastArray, typeTable!WritePastArray,
           typeForHash!Fits, typeTable!Fits,
           typeForHash!NextPlace, typeTable!NextPlace,
           typeForHash!IndexOf, typeTable!IndexOf
<1>2. \A name, value : aliases!Add(name, value) <=> aliasTable!Add(name, value)
    BY DEF aliases!Add, aliasTable!Add,
           aliases!CountOffer, aliasTable!CountOffer,
           aliases!RemSpaces, aliasTable!RemSpaces,
           aliases!Insert, aliasTable!Insert,
           aliases!StoreInChain, aliasTable!StoreInChain,
           aliases!WritePastArray, aliasTable!WritePastArray,
           aliases!Fits, aliasTable!Fits,
           aliases!NextPlace, aliasTable!NextPlace,
           aliases!IndexOf, aliasTable!IndexOf
<1>3. /\ typeForHash!SetupReturn <=> typeTable!SetupReturn
      /\ aliases!SetupReturn <=> aliasTable!SetupReturn
    BY DEF typeForHash!SetupReturn, typeTable!SetupReturn,
           aliases!SetupReturn, aliasTable!SetupReturn
<1>4. typeForHash!Init <=> typeTable!Init
    BY DEF typeForHash!Init, typeTable!Init, typeForHash!NoBucket, typeTable!NoBucket,
           typeForHash!Indices, typeTable!Indices, typeForHash!Places, typeTable!Places,
           typeForHash!NoKey, typeTable!NoKey
<1>5. aliases!Init <=> aliasTable!Init
    BY DEF aliases!Init, aliasTable!Init, aliases!NoBucket, aliasTable!NoBucket,
           aliases!Indices, aliasTable!Indices, aliases!Places, aliasTable!Places,
           aliases!NoKey, aliasTable!NoKey
<1> QED
    BY <1>1, <1>2, <1>3, <1>4, <1>5

-----------------------------------------------------------------------------
(***************************************************************************)
(* The invariant: that of each table, what the tables hold, and how far    *)
(* each is when the constructor goes on.                                   *)
(***************************************************************************)
Stages ==
    /\ stage # "types" => typePhase = "ready"
    /\ stage = "ready" => aliasPhase = "ready"

IInv ==
    /\ typeTable!IInv /\ typeTable!HoldsOnly(TypeOf)
    /\ aliasTable!IInv /\ aliasTable!HoldsOnly(AliasOf)
    /\ Stages

LEMMA InitIsInv == Init => IInv
<1> SUFFICES ASSUME Init PROVE IInv
    OBVIOUS
<1>1. typeTable!Init /\ aliasTable!Init /\ stage = "types"
    BY TurnsOfTables DEF Init
<1>2. typeTable!IInv /\ aliasTable!IInv
    BY <1>1, TypeTableAssumptions, AliasTableAssumptions,
       typeTable!InitIsInv, aliasTable!InitIsInv
<1>3. typeTable!HoldsOnly(TypeOf) /\ aliasTable!HoldsOnly(AliasOf)
    BY <1>1 DEF typeTable!Init, typeTable!HoldsOnly, aliasTable!Init, aliasTable!HoldsOnly
<1> QED
    BY <1>1, <1>2, <1>3 DEF IInv, Stages

\* A table that is left alone keeps its part of the invariant.
LEMMA TypesLeft ==
    ASSUME typeTable!IInv, typeTable!HoldsOnly(TypeOf), UNCHANGED typeVars
    PROVE  typeTable!IInv' /\ typeTable!HoldsOnly(TypeOf)'
<1>1. UNCHANGED typeTable!vars
    BY DEF typeVars, typeTable!vars
<1>2. typeTable!IInv'
    BY <1>1, TypeTableAssumptions, typeTable!NextKeepsInv
<1>3. typeTable!HoldsOnly(TypeOf)'
    BY DEF typeVars, typeTable!HoldsOnly
<1> QED
    BY <1>2, <1>3

LEMMA AliasesLeft ==
    ASSUME aliasTable!IInv, aliasTable!HoldsOnly(AliasOf), UNCHANGED aliasVars
    PROVE  aliasTable!IInv' /\ aliasTable!HoldsOnly(AliasOf)'
<1>1. UNCHANGED aliasTable!vars
    BY DEF aliasVars, aliasTable!vars
<1>2. aliasTable!IInv'
    BY <1>1, AliasTableAssumptions, aliasTable!NextKeepsInv
<1>3. aliasTable!HoldsOnly(AliasOf)'
    BY DEF aliasVars, aliasTable!HoldsOnly
<1> QED
    BY <1>2, <1>3

LEMMA StepKeepsInv == IInv /\ [Next]_vars => IInv'
<1> SUFFICES ASSUME IInv, [Next]_vars PROVE IInv'
    OBVIOUS
<1> USE DEF IInv
<1>1. ASSUME NEW name \in DOMAIN TypeOf, TypeTurn(name)
      PROVE  IInv'
    <2>1. name \in Names /\ TypeOf[name] \in Wrappers
        BY ListsTyped DEF Wrappers
    <2>2. typeTable!SetupTurn(name, TypeOf[name]) /\ UNCHANGED aliasVars
        BY <1>1, TurnsOfTables DEF TypeTurn
    <2>3. typeTable!Next
        BY <2>1, <2>2 DEF typeTable!Next
    <2>4. typeTable!IInv'
        BY <2>3, TypeTableAssumptions, typeTable!NextKeepsInv
    <2>5. typeTable!TypeOK
        BY DEF typeTable!IInv
    <2>6. typeTable!HoldsOnly(TypeOf)'
        BY <2>1, <2>2, <2>5, TypeTableAssumptions, typeTable!HoldsOnlyStays
    <2> QED
        BY <1>1, <2>2, <2>4, <2>6, AliasesLeft DEF TypeTurn, Stages
<1>2. CASE TypesDone
    <2>1. typeTable!SetupReturn /\ aliasTable!SetupReturn
        BY <1>2, TurnsOfTables DEF TypesDone
    <2>2. typeTable!IInv' /\ aliasTable!IInv'
        BY <2>1, TypeTableAssumptions, AliasTableAssumptions,
           typeTable!NextKeepsInv, aliasTable!NextKeepsInv
           DEF typeTable!Next, aliasTable!Next
    <2>3. typeTable!HoldsOnly(TypeOf)' /\ aliasTable!HoldsOnly(AliasOf)'
        BY <2>1 DEF typeTable!SetupReturn, typeTable!HoldsOnly,
                    aliasTable!SetupReturn, aliasTable!HoldsOnly
    <2> QED
        BY <1>2, <2>1, <2>2, <2>3
           DEF TypesDone, Stages, typeTable!SetupReturn, aliasTable!SetupReturn
<1>3. ASSUME NEW name \in DOMAIN AliasOf, AliasTurn(name)
      PROVE  IInv'
    <2>1. name \in Names /\ AliasOf[name] \in Names
        BY ListsTyped
    <2>2. aliasTable!Add(name, AliasOf[name]) /\ UNCHANGED typeVars
        BY <1>3, TurnsOfTables DEF AliasTurn
    <2>3. aliasTable!Next
        BY <2>1, <2>2 DEF aliasTable!Next
    <2>4. aliasTable!IInv'
        BY <2>3, AliasTableAssumptions, aliasTable!NextKeepsInv
    <2>5. aliasTable!TypeOK
        BY DEF aliasTable!IInv
    <2>6. aliasTable!HoldsOnly(AliasOf)'
        BY <2>1, <2>2, <2>5, AliasTableAssumptions, aliasTable!HoldsOnlyStays
    <2>7. Stages'
        BY <1>3 DEF AliasTurn, Stages, typeVars
    <2> QED
        BY <2>2, <2>4, <2>6, <2>7, TypesLeft
<1>4. CASE AliasesDone
    BY <1>4, TypesLeft, AliasesLeft DEF AliasesDone, Stages, typeVars, aliasVars
<1>5. CASE UNCHANGED vars
    BY <1>5, TypesLeft, AliasesLeft DEF vars, Stages, typeVars, aliasVars
<1> QED
    BY <1>1, <1>2, <1>3, <1>4, <1>5 DEF Next

LEMMA Inductive == Spec => []IInv
BY InitIsInv, StepKeepsInv, PTL DEF Spec

-----------------------------------------------------------------------------
(***************************************************************************)
(* The answers.                                                            *)
(***************************************************************************)
\* What no offered key begins with is in neither table.
LEMMA NotOffered ==
    ASSUME IInv, NEW name \in Names, Key(name) # <<>>
    PROVE  /\ (\A k \in typeOffered :
                  ~ (typeForHash!IsPrefixOf(Key(name), k)
                     /\ typeForHash!IndexOf(k) = typeForHash!IndexOf(Key(name))))
              => typeForHash!get(name) = Missing
           /\ (\A k \in aliasOffered :
                  ~ (typeForHash!IsPrefixOf(Key(name), k)
                     /\ typeForHash!IndexOf(k) = typeForHash!IndexOf(Key(name))))
              => aliases!get(name) = Missing
<1>1. typeTable!FoundWasOffered /\ aliasTable!FoundWasOffered
    BY TypeTableAssumptions, AliasTableAssumptions,
       typeTable!OnlyOfferedFound, aliasTable!OnlyOfferedFound DEF IInv
<1>2. Key(name) \in typeTable!Asked /\ Key(name) \in aliasTable!Asked
    BY SameKeys DEF typeTable!Asked, typeTable!Keys, typeTable!NoKey,
                    aliasTable!Asked, aliasTable!Keys, aliasTable!NoKey
<1> QED
    BY <1>1, <1>2, SameKeys, SameAnswers
       DEF typeTable!FoundWasOffered, aliasTable!FoundWasOffered

\* A name that nothing offered begins with is the NullWrapper, with every hash
\* and however the chains are filled: the processor then knows that the type
\* is not listed.
THEOREM UnknownIsNullWrapperHolds == Spec => []UnknownIsNullWrapper
<1>1. ASSUME IInv PROVE UnknownIsNullWrapper
    <2> SUFFICES ASSUME NEW name \in Names, Key(name) # <<>>,
                        \A k \in typeOffered \cup aliasOffered :
                            ~ typeForHash!IsPrefixOf(Key(name), k)
                 PROVE  getType(name) = NullWrapper
        BY DEF UnknownIsNullWrapper
    <2>1. typeForHash!get(name) = Missing /\ aliases!get(name) = Missing
        BY <1>1, NotOffered
    <2>2. RealName(name) = name
        BY <2>1 DEF RealName
    <2> QED
        BY <2>1, <2>2 DEF getType
<1> QED
    BY <1>1, Inductive, PTL

\* Once the constructor is through and both tables vouch for themselves, a
\* listed type is found under its name and an alias leads to its target's
\* type, unless a longer name of the same chain is in the way.
THEOREM NamesLeadToTheirTypesHolds == Spec => []NamesLeadToTheirTypes
<1>1. ASSUME IInv PROVE NamesLeadToTheirTypes
    <2> SUFFICES ASSUME Vouched
                 PROVE  /\ \A name \in DOMAIN TypeOf :
                              /\ Key(name) \in typeOffered \ aliasOffered
                              /\ Alone(Key(name), typeOffered)
                              /\ Alone(Key(name), aliasOffered)
                              => getType(name) = TypeOf[name]
                        /\ \A alias \in DOMAIN AliasOf, name \in DOMAIN TypeOf :
                              /\ Key(alias) \in aliasOffered /\ Key(name) \in typeOffered
                              /\ Key(AliasOf[alias]) = Key(name)
                              /\ Alone(Key(alias), aliasOffered)
                              /\ Alone(Key(name), typeOffered)
                              => getType(alias) = TypeOf[name]
        BY DEF NamesLeadToTheirTypes
    <2>1. /\ typePhase # "undefined" /\ aliasPhase # "undefined"
          /\ typeTable!isValidState /\ aliasTable!isValidState
        BY <1>1, SameAnswers DEF Vouched, IInv, Stages
    <2>2. ASSUME NEW name \in DOMAIN TypeOf, Key(name) \in typeOffered,
                 Alone(Key(name), typeOffered)
          PROVE  typeTable!GetKey(Key(name)) = TypeOf[name]
        <3>1. \A other \in DOMAIN TypeOf :
                 typeTable!RemSpaces(other) = typeTable!RemSpaces(name) => other = name
            BY SameKeys, ListsDistinct
        <3>2. \A k \in typeOffered \ {typeTable!RemSpaces(name)} :
                 ~ (typeTable!IsPrefixOf(typeTable!RemSpaces(name), k)
                    /\ typeTable!IndexOf(k) = typeTable!IndexOf(typeTable!RemSpaces(name)))
            BY <2>2, SameKeys DEF Alone
        <3>3. typeTable!RemSpaces(name) = Key(name)
            BY SameKeys
        <3> QED
            BY <1>1, <2>1, <2>2, <3>1, <3>2, <3>3, TypeTableAssumptions,
               typeTable!ListedIsFound DEF IInv
    <2>3. ASSUME NEW alias \in DOMAIN AliasOf, Key(alias) \in aliasOffered,
                 Alone(Key(alias), aliasOffered)
          PROVE  aliasTable!GetKey(Key(alias)) = AliasOf[alias]
        <3>1. \A other \in DOMAIN AliasOf :
                 aliasTable!RemSpaces(other) = aliasTable!RemSpaces(alias) => other = alias
            BY SameKeys, ListsDistinct
        <3>2. \A k \in aliasOffered \ {aliasTable!RemSpaces(alias)} :
                 ~ (aliasTable!IsPrefixOf(aliasTable!RemSpaces(alias), k)
                    /\ aliasTable!IndexOf(k) =
                          aliasTable!IndexOf(aliasTable!RemSpaces(alias)))
            BY <2>3, SameKeys DEF Alone
        <3>3. aliasTable!RemSpaces(alias) = Key(alias)
            BY SameKeys
        <3> QED
            BY <1>1, <2>1, <2>3, <3>1, <3>2, <3>3, AliasTableAssumptions,
               aliasTable!ListedIsFound DEF IInv
    <2>4. \A name \in DOMAIN TypeOf : TypeOf[name] # Missing
        BY TablesTyped DEF Wrappers
    <2>5. ASSUME NEW name \in DOMAIN TypeOf,
                 Key(name) \in typeOffered \ aliasOffered,
                 Alone(Key(name), typeOffered), Alone(Key(name), aliasOffered)
          PROVE  getType(name) = TypeOf[name]
        <3>1. aliases!get(name) = Missing
            BY <1>1, <2>5, ListsTyped, ListsDistinct, NotOffered DEF Alone
        <3>2. typeForHash!get(RealName(name)) = TypeOf[name]
            BY <2>2, <2>5, <3>1, SameAnswers DEF RealName
        <3> QED
            BY <2>4, <3>2 DEF getType
    <2>6. ASSUME NEW alias \in DOMAIN AliasOf, NEW name \in DOMAIN TypeOf,
                 Key(alias) \in aliasOffered, Key(name) \in typeOffered,
                 Key(AliasOf[alias]) = Key(name),
                 Alone(Key(alias), aliasOffered), Alone(Key(name), typeOffered)
          PROVE  getType(alias) = TypeOf[name]
        <3>1. aliases!get(alias) = AliasOf[alias]
            BY <2>3, <2>6, SameAnswers
        <3>2. AliasOf[alias] \notin {Missing, NoTarget}
            BY ListsTyped, TablesTyped, NoTargetIsNone
        <3>3. typeForHash!get(RealName(alias)) = TypeOf[name]
            BY <2>2, <2>6, <3>1, <3>2, SameAnswers DEF RealName
        <3> QED
            BY <2>4, <3>3 DEF getType
    <2> QED
        BY <2>5, <2>6
<1> QED
    BY <1>1, Inductive, PTL
=============================================================================
