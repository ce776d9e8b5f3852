------------------------------ MODULE TypesFor ------------------------------
(***************************************************************************)
(* The table of types of the library: Configurator::TypesFor               *)
(* (src/VulkanConfigurator.hpp, .inl, src/VulkanAliasList.hpp).            *)
(*                                                                         *)
(* The constructor fills one StrHashTable with the listed types and one    *)
(* with the aliases; getType() asks the second and then the first.  Which  *)
(* types and aliases are listed, and in which order, is generated: here    *)
(* any selection of them in any order.                                     *)
(***************************************************************************)
EXTENDS Integers, Sequences

CONSTANTS
    Size, ChainSize, Chars, Names, Blanks, Missing, Hash, MaxHash, MaxOffers,
    TypeOf,         \* the listed types by name: [subset of Names -> Wrappers]
    AliasOf,        \* aliases: [subset of Names -> Names]
    NullWrapper,    \* WrapperVariant{}
    NoTarget        \* (const char*)nullptr

Wrappers == {TypeOf[name] : name \in DOMAIN TypeOf}

ASSUME ListsTyped ==
    /\ DOMAIN TypeOf \subseteq Names /\ NullWrapper \notin Wrappers
    /\ DOMAIN AliasOf \subseteq Names
    /\ \A name \in DOMAIN AliasOf : AliasOf[name] \in Names
ASSUME NoTargetIsNone == NoTarget \notin Names

VARIABLES
    stage,          \* which part of the constructor runs, or "ready"
    typePhase, typeBuckets, typeCounts, typeMarked, typeCount, typeOffered,
    aliasPhase, aliasBuckets, aliasCounts, aliasMarked, aliasCount, aliasOffered

typeVars  == <<typePhase, typeBuckets, typeCounts, typeMarked, typeCount, typeOffered>>
aliasVars == <<aliasPhase, aliasBuckets, aliasCounts, aliasMarked, aliasCount,
               aliasOffered>>
vars == <<stage, typeVars, aliasVars>>

typeForHash == INSTANCE StrHashTable WITH
    Values <- Wrappers, Default <- NullWrapper,
    phase <- typePhase, buckets <- typeBuckets, counts <- typeCounts,
    marked <- typeMarked, bucketCount <- typeCount, offered <- typeOffered

aliases == INSTANCE StrHashTable WITH
    Values <- Names, Default <- NoTarget,
    phase <- aliasPhase, buckets <- aliasBuckets, counts <- aliasCounts,
    marked <- aliasMarked, bucketCount <- aliasCount, offered <- aliasOffered

Key(name) == typeForHash!RemSpaces(name)

\* What the tables need of their parameters (StrHashTable).
ASSUME TablesTyped ==
    /\ Size \in Nat \ {0} /\ ChainSize \in Nat \ {0} /\ MaxOffers \in Nat
    /\ typeForHash!Keys \subseteq Seq(Chars)
    /\ MaxHash \in Nat \ {0} /\ Hash \in [typeForHash!Keys -> 0..MaxHash]
    /\ Missing \notin Wrappers \cup Names \cup {NullWrapper, NoTarget}
\* The types are made unique by the compiler, and no alias is added twice.
ASSUME ListsDistinct ==
    /\ \A name, other \in DOMAIN TypeOf : Key(name) = Key(other) => name = other
    /\ \A name, other \in DOMAIN AliasOf : Key(name) = Key(other) => name = other
    /\ \A name \in DOMAIN TypeOf : Key(name) # <<>>

Init ==
    /\ stage = "types"
    /\ typeForHash!Init /\ aliases!Init

\* A turn of typeForHash.setup(typeNames, values).
TypeTurn(name) ==
    /\ stage = "types"
    /\ typeForHash!RemSpaces(name) \notin typeOffered
    /\ typeForHash!SetupTurn(name, TypeOf[name])
    /\ UNCHANGED <<stage, aliasVars>>

\* The table is assigned, and the default-constructed aliases are filled.
TypesDone ==
    /\ stage = "types"
    /\ typeForHash!SetupReturn
    /\ aliases!SetupReturn
    /\ stage' = "aliases"

\* A line of setupAliases().
AliasTurn(name) ==
    /\ stage = "aliases"
    /\ aliases!RemSpaces(name) \notin aliasOffered
    /\ aliases!Add(name, AliasOf[name])
    /\ UNCHANGED <<stage, typeVars>>

AliasesDone ==
    /\ stage = "aliases" /\ aliasPhase = "ready"
    /\ stage' = "ready"
    /\ UNCHANGED <<typeVars, aliasVars>>

Next ==
    \/ \E name \in DOMAIN TypeOf : TypeTurn(name)
    \/ TypesDone
    \/ \E name \in DOMAIN AliasOf : AliasTurn(name)
    \/ AliasesDone

Spec == Init /\ [][Next]_vars

-----------------------------------------------------------------------------
\* aliases.get(typeName).value_or(nullptr), and the name itself for nullptr.
RealName(name) ==
    IF aliases!get(name) \in {Missing, NoTarget} THEN name ELSE aliases!get(name)

\* Mutant of getType: the alias is not resolved.
getTypeUnaliased(name) ==
    LET found == typeForHash!get(name)
    IN  IF found = Missing THEN NullWrapper ELSE found

getType(name) ==
    LET found == typeForHash!get(RealName(name))
    IN  IF found = Missing THEN NullWrapper ELSE found

-----------------------------------------------------------------------------
Vouched == stage = "ready" /\ typeForHash!isValidState /\ aliases!isValidState

\* The one listed name that may answer for a name: the name itself, if nothing
\* listed in its chain extends it.
Alone(key, offered) ==
    \A k \in offered \ {key} :
        ~ (typeForHash!IsPrefixOf(key, k)
           /\ typeForHash!IndexOf(k) = typeForHash!IndexOf(key))

\* A listed type is found under its name, and an alias leads to its target's
\* type, as long as no longer name of the same chain is in the way.
NamesLeadToTheirTypes ==
    Vouched =>
        /\ \A name \in DOMAIN TypeOf :
              /\ Key(name) \in typeOffered \ aliasOffered
              /\ Alone(Key(name), typeOffered) /\ Alone(Key(name), aliasOffered)
              => getType(name) = TypeOf[name]
        /\ \A alias \in DOMAIN AliasOf, name \in DOMAIN TypeOf :
              /\ Key(alias) \in aliasOffered /\ Key(name) \in typeOffered
              /\ Key(AliasOf[alias]) = Key(name)
              /\ Alone(Key(alias), aliasOffered) /\ Alone(Key(name), typeOffered)
              => getType(alias) = TypeOf[name]

\* A name that is neither listed nor an alias, nor the beginning of one, is
\* NullWrapper: the processor then reports TYPE_MISSING_LIST.
UnknownIsNullWrapper ==
    stage = "ready" =>
        \A name \in Names :
            (Key(name) # <<>> /\ \A k \in typeOffered \cup aliasOffered :
                                     ~ typeForHash!IsPrefixOf(Key(name), k))
            => getType(name) = NullWrapper
=============================================================================
