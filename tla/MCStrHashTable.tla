---------------------------- MODULE MCStrHashTable ----------------------------
(***************************************************************************)
(* A table of four chains of two buckets, and names that meet in one chain,*)
(* extend each other, differ by a blank, or hash to the largest value.     *)
(***************************************************************************)
EXTENDS StrHashTable

CONSTANTS v1, v2     \* two values

\* "a", "ab" and "a b" (the same key), "b", "c" and the empty name.
TableNames == {<<"a">>, <<"a", "b">>, <<"a", " ", "b">>, <<"b">>, <<"c">>, <<>>}

\* Scaled from 0..8 to 0..4: "a", "ab" and "b" share chain 0, with the empty
\* key in chain 1; "c" has the largest hash.
TableHash == [key \in {RemSpaces(name) : name \in TableNames} |->
                 CASE key = <<"a">> -> 0
                   [] key = <<"a", "b">> -> 1
                   [] key = <<"b">> -> 1
                   [] key = <<"c">> -> 8
                   [] key = <<>> -> 3]
=============================================================================
