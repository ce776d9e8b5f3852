------------------------------ MODULE MCTypesFor ------------------------------
(***************************************************************************)
(* Four types and three aliases in tables of five chains of two buckets.   *)
(***************************************************************************)
EXTENDS TypesFor

CONSTANTS UInt, Flags, Handle, Struct

\* "u", "u *" (with a blank), "f" and "s"; aliases "b", "ub" and "f f".
TypeNames  == {<<"u">>, <<"u", " ", "*">>, <<"f">>, <<"s">>}
AliasNames == {<<"b">>, <<"u", "b">>, <<"f", " ", "f">>}
AllNames   == TypeNames \cup AliasNames
                  \cup {<<"u", "*">>, <<"f", "f">>, <<"x">>, <<"s", "s">>, <<>>}

Listed == [name \in TypeNames |->
              CASE name = <<"u">> -> UInt
                [] name = <<"u", " ", "*">> -> Handle
                [] name = <<"f">> -> Flags
                [] name = <<"s">> -> Struct]

\* Two aliases of "u", one of "u*", as client code may write it.
Aliased == [name \in AliasNames |->
               IF name = <<"b">> THEN <<"u", "*">> ELSE <<"u">>]

\* "u", "u*" and "b" share a chain, "f" and "ff" another.
NameHash == [key \in {SelectSeq(name, LAMBDA char : char # " ") : name \in AllNames} |->
                CASE key \in {<<"u">>, <<"u", "*">>, <<"b">>} -> 0
                  [] key \in {<<"u", "b">>, <<"s">>, <<"s", "s">>} -> 1
                  [] key \in {<<"f">>, <<"f", "f">>} -> 2
                  [] OTHER -> 3]
=============================================================================
