----------------------------- MODULE StructStore -----------------------------
(***************************************************************************)
(* What a client of the configured structs may rely on, without the walk,  *)
(* the references or the fields: the map that VulkanMap::get reads.        *)
(*                                                                         *)
(* Struct elements are numbered as they appear.  The map holds at most one *)
(* of them per type.  An element is kept if its type has none yet; it      *)
(* takes the place of an earlier one only when it, or a struct it is       *)
(* closing together with, has been given its children.                     *)
(***************************************************************************)
EXTENDS Naturals

CONSTANTS StoreTypes, MaxCount

VARIABLES
    count,      \* struct elements seen
    typeOf,     \* the type an element is stored under
    store       \* the element stored under a type, 0 if there is none

storeVars == <<count, typeOf, store>>

StoreInit ==
    /\ count = 0
    /\ typeOf \in [1..MaxCount -> StoreTypes]
    /\ store = [t \in StoreTypes |-> 0]

NewElement ==
    /\ count < MaxCount
    /\ count' = count + 1
    /\ \E t \in StoreTypes : typeOf' = [typeOf EXCEPT ![count + 1] = t]
    /\ UNCHANGED store

Keep(e) ==
    /\ store[typeOf[e]] = 0
    /\ store' = [store EXCEPT ![typeOf[e]] = e]
    /\ UNCHANGED <<count, typeOf>>

\* The later assignment wins when both have the same type.
Adopt(closing, parent) ==
    /\ store' = [store EXCEPT ![typeOf[closing]] = closing,
                              ![typeOf[parent]] = parent]
    /\ UNCHANGED <<count, typeOf>>

StoreNext ==
    \/ NewElement
    \/ \E e \in 1..count : Keep(e)
    \/ \E closing, parent \in 1..count : Adopt(closing, parent)

StoreSpec == StoreInit /\ [][StoreNext]_storeVars

\* An element is stored under its own type.
OwnType == \A t \in StoreTypes : store[t] # 0 => typeOf[store[t]] = t

\* A type that has a struct keeps one.
NeverEmptied == [][\A t \in StoreTypes : store[t] # 0 => store'[t] # 0]_storeVars
=============================================================================
